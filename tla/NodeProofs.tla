------------------------------ MODULE NodeProofs -------------------------------
(***************************************************************************)
(* The connections of a node: the life of its CNodes (NodeLifetime), and   *)
(* the bytes that go over one of them (Wire).                              *)
(*                                                                         *)
(* For any number of nodes, addresses and threads' rounds: no thread is    *)
(* left with a freed node and the counts are exact, provided that every    *)
(* address is dialled by one party and does not dial us (Apart).  Without  *)
(* that, ConnectNode counts a reference outside the lock.                  *)
(***************************************************************************)
EXTENDS NodeLifetime, Wire, SequenceTheorems, TLAPS

Apart ==
  /\ \A n \in InboundNodes : Ip[n] \notin OpenIps
  /\ OpenIps \cap UiIps = {}

OwnedByOpen(n) == opc = "flag" /\ optr = n

CountInv ==
  /\ \A n \in vNodes : nRefCount[n] = Copies(n) + (IF Owned(n) THEN 1 ELSE 0)
  /\ \A n \in vNodesDisconnected :
       nRefCount[n] >= Copies(n) + (IF OwnedByOpen(n) THEN 1 ELSE 0)

CopiesInv ==
  /\ scopy \cup mcopy \subseteq vNodes \cup vNodesDisconnected
  /\ spc # "service" => scopy = {}
  /\ mpc = "copy" => mcopy = {}

UnbornInv ==
  /\ \A n \in Unborn : nRefCount[n] = 0
  /\ fNetworkNode \subseteq Nodes \ (Unborn \cup InboundNodes)

OpenInv ==
  /\ opc \in {"idle", "find", "dial", "flag"}
  /\ opc # "idle" => oip \in OpenIps
  /\ opc \in {"find", "dial"} => \A n \in vNodes : Ip[n] # oip
  /\ opc = "flag" => /\ optr \in vNodes \cup vNodesDisconnected
                     /\ optr \notin InboundNodes \cup fNetworkNode
  /\ opc # "flag" => optr = NoNode

UiInv ==
  /\ upc # "idle" => uip \in UiIps
  /\ upc \in {"addref", "push"} => uptr \in vNodes \cup vNodesDisconnected
  /\ upc \notin {"addref", "push"} => uptr = NoNode
  /\ upc = "addref" => /\ uage < Grace
                       /\ uptr \in vNodesDisconnected => release[uptr] + uage >= Grace

NodeInv ==
  /\ TypeOK
  /\ CountInv
  /\ CopiesInv
  /\ UnbornInv
  /\ OpenInv
  /\ UiInv

-----------------------------------------------------------------------------
\* What the invariant is for.
LEMMA NodeInvImplies == ASSUME NodeInv PROVE NoUseAfterFree /\ CountIsExact
<1>. USE NodesAssumption DEF NodeInv, TypeOK
<1>1. NoUseAfterFree
  BY DEF NoUseAfterFree, Held, CopiesInv, OpenInv, UiInv, Pointers
<1>2. CountIsExact
  BY DEF CountIsExact, CountInv, Copies
<1>. QED BY <1>1, <1>2

\* The invariant holds when the threads start.
LEMMA InitNodeInv == ASSUME Init PROVE NodeInv
<1>. USE NodesAssumption, TimeAssumption DEF Init
<1>1. TypeOK BY DEF TypeOK, AllIps, Pointers
<1>2. CountInv /\ CopiesInv /\ UnbornInv /\ OpenInv /\ UiInv
  BY DEF CountInv, CopiesInv, UnbornInv, Unborn, OpenInv, UiInv
<1>. QED BY <1>1, <1>2 DEF NodeInv

-----------------------------------------------------------------------------
\* Every step keeps the types, as long as the pointers that are used point to nodes.
PointersInv == (OpenIsBare => optr \in Nodes) /\ (UiIsBare => uptr \in Nodes)

\* They do.
LEMMA NodePointers == ASSUME NodeInv PROVE TypeOK /\ PointersInv
BY DEF NodeInv, TypeOK, OpenInv, UiInv, PointersInv, OpenIsBare, UiIsBare

\* The socket thread.
LEMMA SocketTypes == ASSUME TypeOK, PointersInv, SocketStep PROVE TypeOK'
<1>. USE NodesAssumption, TimeAssumption DEF TypeOK, Pointers
<1>1. CASE DisconnectAndDelete
  BY <1>1 DEF DisconnectAndDelete, Releases, Deletable, Unused, mVars, oVars, uVars
<1>2. CASE AcceptConnection
  BY <1>2 DEF AcceptConnection, AddRefs, Unborn, mVars, oVars, uVars
<1>3. CASE SocketCopy
  BY <1>3 DEF SocketCopy, AddRefs, nodeVars, mVars, oVars, uVars
<1>4. CASE \E n \in Nodes : ServiceSocket(n)
  BY <1>4 DEF ServiceSocket, nodeVars, mVars, oVars, uVars
<1>5. CASE SocketRelease
  BY <1>5 DEF SocketRelease, Releases, nodeVars, mVars, oVars, uVars
<1>. QED BY <1>1, <1>2, <1>3, <1>4, <1>5 DEF SocketStep

\* The message thread.
LEMMA MessageTypes == ASSUME TypeOK, PointersInv, MessageStep PROVE TypeOK'
<1>. USE NodesAssumption DEF TypeOK, Pointers, nodeVars, refVars, sVars, oVars, uVars
<1>1. CASE MessageCopy
  BY <1>1 DEF MessageCopy, AddRefs
<1>2. CASE \E n \in Nodes : LockNode(n)
  BY <1>2 DEF LockNode
<1>3. CASE HandleMessages
  BY <1>3 DEF HandleMessages
<1>4. CASE MessageRelease
  BY <1>4 DEF MessageRelease, Releases
<1>. QED BY <1>1, <1>2, <1>3, <1>4 DEF MessageStep

\* The thread that opens connections.
LEMMA OpenTypes ==
  ASSUME TypeOK, PointersInv, OpenStep \/ \E ip \in OpenIps : OpenNetworkConnection(ip) PROVE TypeOK'
<1>. USE NodesAssumption, TimeAssumption
     DEF TypeOK, Pointers, AllIps, nodeVars, refVars, sVars, mVars, uVars
<1>1. CASE \E ip \in OpenIps : OpenNetworkConnection(ip)
  BY <1>1 DEF OpenNetworkConnection
<1>2. CASE FindForOpen
  BY <1>2 DEF FindForOpen, Existing
<1>3. CASE ReadRefCount
  BY <1>3 DEF ReadRefCount, PointersInv, OpenIsBare
<1>4. CASE WriteRefCount
  BY <1>4 DEF WriteRefCount
<1>5. CASE DialForOpen
  BY <1>5 DEF DialForOpen, AddRefs, Unborn
<1>6. CASE FlagNetworkNode
  BY <1>6 DEF FlagNetworkNode, PointersInv, OpenIsBare
<1>. QED BY <1>1, <1>2, <1>3, <1>4, <1>5, <1>6 DEF OpenStep

\* The user interface.
LEMMA UiTypes ==
  ASSUME TypeOK, PointersInv, UiStep \/ \E ip \in UiIps : FindForUi(ip) PROVE TypeOK'
<1>. USE NodesAssumption, TimeAssumption
     DEF TypeOK, Pointers, AllIps, nodeVars, refVars, sVars, mVars, oVars
<1>1. CASE \E ip \in UiIps : FindForUi(ip)
  BY <1>1 DEF FindForUi, Existing
<1>2. CASE AddRefForUi
  <2>1. uptr \in Nodes BY <1>2 DEF AddRefForUi, PointersInv, UiIsBare
  <2>2. release' \in [Nodes -> Nat] BY <1>2, <2>1 DEF AddRefForUi, AddTimedRef
  <2>. QED BY <1>2, <2>1, <2>2 DEF AddRefForUi
<1>3. CASE DialForUi
  BY <1>3 DEF DialForUi, AddTimedRef, Unborn
<1>4. CASE PushRequest
  BY <1>4 DEF PushRequest
<1>. QED BY <1>1, <1>2, <1>3, <1>4 DEF UiStep

\* Time.
LEMMA TickTypes == ASSUME TypeOK, PointersInv, Tick PROVE TypeOK'
<1>. USE NodesAssumption, TimeAssumption
     DEF TypeOK, Tick, nodeVars, sVars, mVars
<1>1. release' \in [Nodes -> Nat]
  BY DEF Less
<1>2. oage' \in 0..Grace /\ uage' \in Nat
  BY DEF Prompt, OpenIsBare, UiIsBare
<1>. QED BY <1>1, <1>2

-----------------------------------------------------------------------------
\* A node without a reference is one that no thread is at.
LEMMA NoReference ==
  ASSUME NEW count, NEW rel, NEW n, count[n] \in Int, rel[n] \in Nat,
         GetRefCount(count, rel, n) <= 0
  PROVE  count[n] <= 0 /\ rel[n] = 0
BY DEF GetRefCount, Positive

\* The socket thread.  A node that leaves vNodes takes its owner's reference with it; one
\* that is deleted has no reference and no time left.
LEMMA DisconnectKeepsInv == ASSUME NodeInv, DisconnectAndDelete PROVE NodeInv'
<1>. USE NodesAssumption, TimeAssumption
     DEF NodeInv, DisconnectAndDelete, mVars, oVars, uVars
<1>1. TypeOK' BY SocketTypes, NodePointers DEF SocketStep
<1>2. scopy = {} BY DEF CopiesInv
<1>3. \A n \in vNodes : n \notin vNodesDisconnected BY DEF TypeOK
<1>4. Unused \subseteq vNodes BY DEF Unused
<1>5. \A n \in vNodes \cup vNodesDisconnected :
        nRefCount[n] \in Int /\ nRefCount'[n] \in Int /\ release'[n] \in Nat /\ n \in Nodes
  BY <1>1 DEF TypeOK
<1>6. \A n : Copies(n) = (IF n \in mcopy THEN 1 ELSE 0) /\ Copies(n)' = Copies(n)
  BY <1>2 DEF Copies
<1>7. \A n \in vNodes \cup vNodesDisconnected :
        n \notin Unused => nRefCount'[n] = nRefCount[n]
  BY <1>5 DEF Releases
<1>8. \A n \in Unused :
        nRefCount'[n] >= Copies(n) + (IF OwnedByOpen(n) THEN 1 ELSE 0)
  <2>. SUFFICES ASSUME NEW n \in Unused
                PROVE  nRefCount'[n] >= Copies(n) + (IF OwnedByOpen(n) THEN 1 ELSE 0)
    OBVIOUS
  <2>1. nRefCount[n] = Copies(n) + (IF Owned(n) THEN 1 ELSE 0) /\ nRefCount[n] \in Int
    BY <1>4, <1>5 DEF CountInv
  <2>2. nRefCount'[n] = IF n \in fNetworkNode \cup InboundNodes THEN nRefCount[n] - 1
                                                              ELSE nRefCount[n]
    BY <1>4, <1>5 DEF Releases
  <2>3. OwnedByOpen(n) => n \notin fNetworkNode \cup InboundNodes
    BY DEF OwnedByOpen, OpenInv
  <2>4. Copies(n) \in Int BY <1>6
  <2>. QED BY <2>1, <2>2, <2>3, <2>4 DEF Owned, OwnedByOpen
<1>9. \A n \in vNodesDisconnected' \cup deleted' :
        n \in vNodes \cup vNodesDisconnected =>
          nRefCount'[n] >= Copies(n) + (IF OwnedByOpen(n) THEN 1 ELSE 0)
  BY <1>3, <1>4, <1>7, <1>8 DEF CountInv, Deletable, TypeOK
<1>10. CountInv'
  <2>1. \A n \in vNodes' : nRefCount'[n] = Copies(n)' + (IF Owned(n)' THEN 1 ELSE 0)
    BY <1>6, <1>7, <1>4 DEF CountInv, Owned
  <2>2. \A n \in vNodesDisconnected' :
          nRefCount'[n] >= Copies(n)' + (IF OwnedByOpen(n)' THEN 1 ELSE 0)
    BY <1>4, <1>6, <1>9 DEF OwnedByOpen
  <2>. QED BY <2>1, <2>2 DEF CountInv
<1>11. \A n \in Deletable(nRefCount', release') :
         n \notin mcopy /\ ~OwnedByOpen(n) /\ release'[n] = 0 /\ ~Locked(n)
  <2>. SUFFICES ASSUME NEW n \in Deletable(nRefCount', release')
                PROVE  n \notin mcopy /\ ~OwnedByOpen(n) /\ release'[n] = 0 /\ ~Locked(n)
    OBVIOUS
  <2>1. nRefCount'[n] >= Copies(n) + (IF OwnedByOpen(n) THEN 1 ELSE 0)
    BY <1>4, <1>9 DEF Deletable
  <2>2. n \in vNodes \cup vNodesDisconnected /\ GetRefCount(nRefCount', release', n) <= 0 /\ ~Locked(n)
    BY <1>4 DEF Deletable
  <2>3. nRefCount'[n] \in Int /\ release'[n] \in Nat BY <1>5, <2>2
  <2>4. nRefCount'[n] <= 0 /\ release'[n] = 0
    BY <2>2, <2>3, NoReference
  <2>5. Copies(n) = IF n \in mcopy THEN 1 ELSE 0
    BY <1>6
  <2>6. n \notin mcopy /\ ~OwnedByOpen(n)
    BY ONLY <2>1, <2>3, <2>4, <2>5
  <2>. QED BY <2>2, <2>4, <2>6
<1>12. \A n \in vNodes \cup vNodesDisconnected :
         n \in vNodes' \cup vNodesDisconnected' \/ n \in Deletable(nRefCount', release')
  BY <1>4
<1>13. CopiesInv'
  BY <1>2, <1>11, <1>12 DEF CopiesInv
<1>14. UnbornInv'
  <2>1. Unborn' = Unborn
    BY <1>4 DEF Unborn, TypeOK, Deletable
  <2>2. \A n \in Unborn : n \notin Unused /\ n \in Nodes BY <1>4 DEF Unborn
  <2>3. \A n \in Unborn : nRefCount'[n] = nRefCount[n] BY <2>2 DEF Releases
  <2>. QED BY <2>1, <2>3 DEF UnbornInv
<1>15. OpenInv'
  BY <1>4, <1>11, <1>12 DEF OpenInv, OwnedByOpen
<1>16. UiInv'
  <2>1. upc = "push" => uptr \in vNodes' \cup vNodesDisconnected'
    BY <1>11, <1>12 DEF UiInv, Locked
  <2>2. ASSUME upc = "addref"
        PROVE  /\ uptr \in vNodes' \cup vNodesDisconnected'
               /\ uptr \in vNodesDisconnected' => release'[uptr] + uage >= Grace
    <3>1. uptr \in vNodes \cup vNodesDisconnected /\ uage < Grace /\ uage \in Nat
      BY <2>2 DEF UiInv, TypeOK
    <3>2. uptr \in Unused \cup vNodesDisconnected => release'[uptr] + uage >= Grace
      BY <2>2, <3>1, <1>3, <1>4 DEF UiInv, TypeOK
    <3>3. uptr \notin Deletable(nRefCount', release')
      <4>1. SUFFICES ASSUME uptr \in Deletable(nRefCount', release') PROVE FALSE
        OBVIOUS
      <4>2. uptr \in Unused \cup vNodesDisconnected /\ release'[uptr] = 0
        BY <4>1, <1>11 DEF Deletable
      <4>. QED BY <4>2, <3>1, <3>2
    <3>. QED BY <3>1, <3>2, <3>3, <1>12, <1>3
  <2>. QED BY <2>1, <2>2 DEF UiInv
<1>. QED BY <1>1, <1>10, <1>13, <1>14, <1>15, <1>16

\* So every step of the socket thread preserves the invariant.
LEMMA SocketKeepsInv == ASSUME Apart, NodeInv, SocketStep PROVE NodeInv'
<1>1. TypeOK' BY SocketTypes, NodePointers
<1>. USE NodesAssumption DEF NodeInv, TypeOK
<1>2. CASE DisconnectAndDelete
  BY <1>2, DisconnectKeepsInv
<1>3. CASE AcceptConnection
  <2>. USE <1>3 DEF AcceptConnection, mVars, oVars, uVars
  <2>1. CASE UNCHANGED <<vNodes, nRefCount, quiet>>
    BY <1>1, <2>1 DEF CountInv, Copies, Owned, OwnedByOpen, CopiesInv, UnbornInv, Unborn, OpenInv, UiInv
  <2>2. ASSUME NEW n \in Unborn \cap InboundNodes,
               nRefCount' = AddRefs({n}), vNodes' = vNodes \cup {n}
        PROVE  NodeInv'
    <3>. USE <2>2
    <3>1. n \in Nodes /\ n \notin vNodes /\ n \notin vNodesDisconnected /\ n \notin deleted
          /\ nRefCount[n] = 0 /\ n \notin scopy \cup mcopy
      BY DEF Unborn, UnbornInv, CopiesInv
    <3>2. \A m \in Nodes : nRefCount'[m] = IF m = n THEN nRefCount[m] + 1 ELSE nRefCount[m]
      BY DEF AddRefs
    <3>3. CountInv'
      BY <3>1, <3>2 DEF CountInv, Copies, Owned, OwnedByOpen
    <3>4. CopiesInv' /\ UnbornInv'
      BY <3>1, <3>2 DEF CopiesInv, UnbornInv, Unborn
    <3>5. OpenInv'
      <4>1. Ip[n] \notin OpenIps BY DEF Apart
      <4>. QED BY <4>1, <3>1 DEF OpenInv
    <3>6. UiInv' BY DEF UiInv
    <3>. QED BY <1>1, <3>3, <3>4, <3>5, <3>6
  <2>. QED BY <2>1, <2>2
<1>4. CASE SocketCopy
  <2>. USE <1>4 DEF SocketCopy, nodeVars, mVars, oVars, uVars
  <2>1. \A n \in Nodes : nRefCount'[n] = IF n \in vNodes THEN nRefCount[n] + 1 ELSE nRefCount[n]
    BY DEF AddRefs
  <2>2. scopy = {} BY DEF CopiesInv
  <2>3. CountInv' BY <2>1, <2>2 DEF CountInv, Copies, Owned, OwnedByOpen
  <2>4. CopiesInv' /\ UnbornInv' BY <2>1 DEF CopiesInv, UnbornInv, Unborn
  <2>5. OpenInv' /\ UiInv' BY DEF OpenInv, UiInv
  <2>. QED BY <1>1, <2>3, <2>4, <2>5
<1>5. CASE \E n \in Nodes : ServiceSocket(n)
  BY <1>1, <1>5 DEF ServiceSocket, nodeVars, mVars, oVars, uVars, CountInv, Copies, Owned,
       OwnedByOpen, CopiesInv, UnbornInv, Unborn, OpenInv, UiInv
<1>6. CASE SocketRelease
  <2>. USE <1>6 DEF SocketRelease, nodeVars, mVars, oVars, uVars
  <2>1. \A n \in Nodes : nRefCount'[n] = IF n \in scopy THEN nRefCount[n] - 1 ELSE nRefCount[n]
    BY DEF Releases
  <2>3. CountInv' BY <2>1 DEF CountInv, Copies, Owned, OwnedByOpen
  <2>4. CopiesInv' /\ UnbornInv' BY <2>1 DEF CopiesInv, UnbornInv, Unborn
  <2>5. OpenInv' /\ UiInv' BY DEF OpenInv, UiInv
  <2>. QED BY <1>1, <2>3, <2>4, <2>5
<1>. QED BY <1>2, <1>3, <1>4, <1>5, <1>6 DEF SocketStep

\* The message thread.
LEMMA MessageKeepsInv == ASSUME NodeInv, MessageStep PROVE NodeInv'
<1>1. TypeOK' BY MessageTypes, NodePointers
<1>. USE NodesAssumption DEF NodeInv, TypeOK, nodeVars, refVars, sVars, oVars, uVars
<1>2. CASE MessageCopy
  <2>. USE <1>2 DEF MessageCopy
  <2>1. \A n \in Nodes : nRefCount'[n] = IF n \in vNodes THEN nRefCount[n] + 1 ELSE nRefCount[n]
    BY DEF AddRefs
  <2>2. mcopy = {} BY DEF CopiesInv
  <2>3. CountInv' BY <2>1, <2>2 DEF CountInv, Copies, Owned, OwnedByOpen
  <2>4. CopiesInv' /\ UnbornInv' BY <2>1 DEF CopiesInv, UnbornInv, Unborn
  <2>5. OpenInv' /\ UiInv' BY DEF OpenInv, UiInv
  <2>. QED BY <1>1, <2>3, <2>4, <2>5
<1>3. CASE (\E n \in Nodes : LockNode(n)) \/ HandleMessages
  BY <1>1, <1>3 DEF LockNode, HandleMessages, CountInv, Copies, Owned,
       OwnedByOpen, CopiesInv, UnbornInv, Unborn, OpenInv, UiInv
<1>4. CASE MessageRelease
  <2>. USE <1>4 DEF MessageRelease
  <2>1. \A n \in Nodes : nRefCount'[n] = IF n \in mcopy THEN nRefCount[n] - 1 ELSE nRefCount[n]
    BY DEF Releases
  <2>3. CountInv' BY <2>1 DEF CountInv, Copies, Owned, OwnedByOpen
  <2>4. CopiesInv' /\ UnbornInv' BY <2>1 DEF CopiesInv, UnbornInv, Unborn
  <2>5. OpenInv' /\ UiInv' BY DEF OpenInv, UiInv
  <2>. QED BY <1>1, <2>3, <2>4, <2>5
<1>. QED BY <1>2, <1>3, <1>4 DEF MessageStep

\* ThreadOpenConnections: nobody else makes a node at the address it looks for.
LEMMA OpenKeepsInv ==
  ASSUME NodeInv, OpenStep \/ \E ip \in OpenIps : OpenNetworkConnection(ip) PROVE NodeInv'
<1>1. TypeOK' BY OpenTypes, NodePointers
<1>. USE NodesAssumption DEF NodeInv, TypeOK, nodeVars, refVars, sVars, mVars, uVars
<1>2. ASSUME NEW ip \in OpenIps, OpenNetworkConnection(ip) PROVE NodeInv'
  BY <1>1, <1>2 DEF OpenNetworkConnection, Existing, CountInv, Copies, Owned,
       OwnedByOpen, CopiesInv, UnbornInv, Unborn, OpenInv, UiInv
<1>3. CASE FindForOpen
  <2>1. Existing(oip) = {} BY <1>3 DEF FindForOpen, Existing, OpenInv
  <2>2. UNCHANGED optr /\ opc' = "dial" BY <1>3, <2>1 DEF FindForOpen
  <2>. QED BY <1>1, <1>3, <2>2 DEF FindForOpen, CountInv, Copies, Owned,
       OwnedByOpen, CopiesInv, UnbornInv, Unborn, OpenInv, UiInv
<1>4. CASE ReadRefCount \/ WriteRefCount
  BY <1>4 DEF ReadRefCount, WriteRefCount, OpenInv
<1>5. CASE DialForOpen
  <2>. USE <1>5 DEF DialForOpen
  <2>1. CASE opc' = "idle" /\ UNCHANGED <<vNodes, nRefCount, optr>>
    BY <1>1, <2>1 DEF CountInv, Copies, Owned, OwnedByOpen, CopiesInv, UnbornInv, Unborn, OpenInv, UiInv
  <2>2. ASSUME NEW n \in Unborn \ InboundNodes, nRefCount' = AddRefs({n}),
               vNodes' = vNodes \cup {n}, optr' = n, opc' = "flag"
        PROVE  NodeInv'
    <3>. USE <2>2
    <3>1. n \in Nodes /\ n \notin vNodes /\ n \notin vNodesDisconnected /\ n \notin deleted
          /\ nRefCount[n] = 0 /\ n \notin scopy \cup mcopy /\ n \notin fNetworkNode
      BY DEF Unborn, UnbornInv, CopiesInv
    <3>2. \A m \in Nodes : nRefCount'[m] = IF m = n THEN nRefCount[m] + 1 ELSE nRefCount[m]
      BY DEF AddRefs
    <3>3. CountInv'
      BY <3>1, <3>2 DEF CountInv, Copies, Owned, OwnedByOpen
    <3>4. CopiesInv' /\ UnbornInv'
      BY <3>1, <3>2 DEF CopiesInv, UnbornInv, Unborn
    <3>5. OpenInv' /\ UiInv'
      BY <3>1 DEF OpenInv, UiInv
    <3>. QED BY <1>1, <3>3, <3>4, <3>5
  <2>. QED BY <2>1, <2>2
<1>6. CASE FlagNetworkNode
  <2>. USE <1>6 DEF FlagNetworkNode
  <2>1. optr \in vNodes \cup vNodesDisconnected /\ optr \notin InboundNodes BY DEF OpenInv
  <2>2. CountInv' BY <2>1 DEF CountInv, Copies, Owned, OwnedByOpen
  <2>3. CopiesInv' /\ UnbornInv' BY <2>1 DEF CopiesInv, UnbornInv, Unborn
  <2>4. OpenInv' /\ UiInv' BY DEF OpenInv, UiInv
  <2>. QED BY <1>1, <2>2, <2>3, <2>4
<1>. QED BY <1>2, <1>3, <1>4, <1>5, <1>6 DEF OpenStep

\* The user interface, whose nodes are held by time alone.
LEMMA UiKeepsInv ==
  ASSUME Apart, NodeInv, UiStep \/ \E ip \in UiIps : FindForUi(ip) PROVE NodeInv'
<1>1. TypeOK' BY UiTypes, NodePointers
<1>. USE NodesAssumption, TimeAssumption DEF NodeInv, TypeOK, nodeVars, refVars, sVars, mVars, oVars
<1>2. ASSUME NEW ip \in UiIps, FindForUi(ip) PROVE NodeInv'
  <2>1. CountInv' /\ CopiesInv' /\ UnbornInv' /\ OpenInv'
    BY <1>2 DEF FindForUi, CountInv, Copies, Owned, OwnedByOpen, CopiesInv, UnbornInv, Unborn, OpenInv
  <2>2. UiInv'
    BY <1>2 DEF FindForUi, Existing, UiInv
  <2>. QED BY <1>1, <2>1, <2>2
<1>3. CASE AddRefForUi \/ PushRequest
  BY <1>1, <1>3 DEF AddRefForUi, PushRequest, CountInv, Copies, Owned, OwnedByOpen, CopiesInv,
       UnbornInv, Unborn, OpenInv, UiInv
<1>4. CASE DialForUi
  <2>. USE <1>4 DEF DialForUi
  <2>1. CASE upc' = "idle" /\ UNCHANGED <<vNodes, release, uptr>>
    BY <1>1, <2>1 DEF CountInv, Copies, Owned, OwnedByOpen, CopiesInv, UnbornInv, Unborn, OpenInv, UiInv
  <2>2. ASSUME NEW n \in Unborn \ InboundNodes, Ip[n] = uip,
               vNodes' = vNodes \cup {n}, uptr' = n, upc' = "push"
        PROVE  NodeInv'
    <3>. USE <2>2
    <3>1. n \in Nodes /\ n \notin vNodes /\ n \notin vNodesDisconnected /\ n \notin deleted
          /\ nRefCount[n] = 0 /\ n \notin scopy \cup mcopy /\ n \notin fNetworkNode
      BY DEF Unborn, UnbornInv, CopiesInv
    <3>2. CountInv'
      <4>1. ~Owned(n) BY <3>1 DEF Owned, OpenInv
      <4>. QED BY <3>1, <4>1 DEF CountInv, Copies, Owned, OwnedByOpen
    <3>3. CopiesInv' /\ UnbornInv'
      BY <3>1 DEF CopiesInv, UnbornInv, Unborn
    <3>4. OpenInv'
      <4>1. Ip[n] \notin OpenIps BY DEF Apart, UiInv
      <4>. QED BY <4>1, <3>1 DEF OpenInv
    <3>5. UiInv' BY <3>1 DEF UiInv
    <3>. QED BY <1>1, <3>2, <3>3, <3>4, <3>5
  <2>. QED BY <2>1, <2>2
<1>. QED BY <1>2, <1>3, <1>4 DEF UiStep

\* Time passes for the nodes that are held by time alone.
LEMMA TickKeepsInv == ASSUME NodeInv, Tick PROVE NodeInv'
<1>1. TypeOK' BY TickTypes, NodePointers
<1>. USE NodesAssumption, TimeAssumption DEF NodeInv, TypeOK, Tick, nodeVars, sVars, mVars
<1>2. CountInv' /\ CopiesInv' /\ UnbornInv' /\ OpenInv'
  BY DEF CountInv, Copies, Owned, OwnedByOpen, CopiesInv, UnbornInv, Unborn, OpenInv
<1>3. UiInv'
  <2>1. ASSUME upc = "addref"
        PROVE  /\ uage' < Grace
               /\ uptr \in vNodesDisconnected => release'[uptr] + uage' >= Grace
    <3>1. uage' = uage + 1 /\ uage + 1 < Grace
      BY <2>1 DEF Prompt, UiIsBare
    <3>2. ASSUME uptr \in vNodesDisconnected PROVE release'[uptr] + uage' >= Grace
      <4>1. release[uptr] + uage >= Grace /\ release[uptr] \in Nat /\ uptr \in Nodes
        BY <2>1, <3>2 DEF UiInv
      <4>2. release'[uptr] = Less(release[uptr]) BY <4>1
      <4>. QED BY <4>1, <4>2, <3>1 DEF Less
    <3>. QED BY <3>1, <3>2
  <2>. QED BY <2>1 DEF UiInv
<1>. QED BY <1>1, <1>2, <1>3

-----------------------------------------------------------------------------
\* For every set of nodes in which addresses are apart, the counts are exact and no thread
\* has a pointer to freed memory, however long the message thread works on its copy.
THEOREM NodesAreCounted ==
  ASSUME Apart PROVE Spec => [](TypeOK /\ NoUseAfterFree /\ CountIsExact)
<1>1. Init => NodeInv
  BY InitNodeInv
<1>2. ASSUME NodeInv, [Next]_vars PROVE NodeInv'
  <2>1. CASE Next
    BY <1>2, <2>1, SocketKeepsInv, MessageKeepsInv, OpenKeepsInv, UiKeepsInv, TickKeepsInv DEF Next
  <2>2. CASE UNCHANGED vars
    BY <1>2, <2>2 DEF vars, nodeVars, refVars, sVars, mVars, oVars, uVars, NodeInv, TypeOK,
         CountInv, Copies, Owned, OwnedByOpen, CopiesInv, UnbornInv, Unborn, OpenInv, UiInv
  <2>. QED BY <1>2, <2>1, <2>2
<1>3. NodeInv => TypeOK /\ NoUseAfterFree /\ CountIsExact
  BY NodeInvImplies DEF NodeInv
<1>. QED BY <1>1, <1>2, <1>3, PTL DEF Spec

-----------------------------------------------------------------------------
(* Without Apart.  Addresses may be shared and the counts may be wrong, but the time that a
   disconnected node is kept protects whoever has just found it in vNodes.                   *)

\* A thread finds a node in vNodes.  If the node is disconnected after that, it is kept for
\* Grace, and the thread is done with its bare pointer before.
OpenFound ==
  /\ OpenIsBare => /\ optr \in vNodes \cup vNodesDisconnected
                   /\ oage < Grace
                   /\ optr \in vNodesDisconnected => release[optr] + oage >= Grace
  /\ ~OpenIsBare => optr = NoNode

\* The socket thread deletes only while it has no copy of vNodes.
SocketFound ==
  /\ scopy \subseteq vNodes \cup vNodesDisconnected
  /\ spc # "service" => scopy = {}

FinderInv == TypeOK /\ OpenFound /\ SocketFound /\ UiInv

\* What it is for.
LEMMA FinderInvImplies == ASSUME FinderInv PROVE FinderIsSafe /\ PointersInv
BY NodesAssumption DEF FinderInv, TypeOK, OpenFound, SocketFound, UiInv, FinderIsSafe, PointersInv,
   OpenIsBare, UiIsBare, Pointers

\* A node that is deleted is one that no thread has just found.
LEMMA DisconnectSparesFound == ASSUME FinderInv, DisconnectAndDelete PROVE FinderInv'
<1>1. TypeOK' BY SocketTypes, FinderInvImplies DEF SocketStep, FinderInv
<1>. USE NodesAssumption, TimeAssumption DEF FinderInv, DisconnectAndDelete, mVars, oVars, uVars
<1>2. ASSUME NEW n \in Nodes
      PROVE  /\ release'[n] \in Nat /\ nRefCount'[n] \in Int
             /\ n \in Unused => release'[n] >= Grace
             /\ n \notin Unused => release'[n] = release[n]
  BY DEF TypeOK, Releases
<1>3. ASSUME NEW n \in Deletable(nRefCount', release')
      PROVE  /\ n \in Nodes /\ n \in vNodesDisconnected /\ n \notin Unused
             /\ release[n] = 0 /\ ~Locked(n)
  <2>1. n \in Nodes BY DEF Deletable, Unused, TypeOK
  <2>2. release'[n] = 0
    BY ONLY <1>2, <1>3, <2>1, NoReference DEF Deletable
  <2>. QED BY <1>2, <2>1, <2>2 DEF Deletable, Unused
<1>4. OpenFound'
  <2>1. CASE OpenIsBare
    <3>1. optr \in Nodes BY <2>1 DEF OpenFound, TypeOK
    <3>2. optr \notin Deletable(nRefCount', release')
      <4>1. oage \in Nat /\ oage < Grace /\ (optr \in vNodesDisconnected => release[optr] + oage >= Grace)
        BY <2>1 DEF OpenFound, TypeOK
      <4>. QED BY ONLY <4>1, <1>3, TimeAssumption
    <3>3. optr \in vNodesDisconnected' => release'[optr] + oage >= Grace
      <4>1. /\ oage \in Nat /\ release'[optr] \in Nat
            /\ optr \in vNodesDisconnected' => optr \in vNodesDisconnected \cup Unused
            /\ optr \in vNodesDisconnected => release[optr] + oage >= Grace
        BY <1>2, <2>1, <3>1 DEF OpenFound, TypeOK
      <4>. QED BY ONLY <4>1, <1>2, <3>1, TimeAssumption
    <3>. QED BY <2>1, <3>2, <3>3 DEF OpenFound, OpenIsBare
  <2>. QED BY <2>1 DEF OpenFound, OpenIsBare
<1>5. UiInv'
  <2>1. CASE upc = "addref"
    <3>1. uptr \in Nodes BY <2>1 DEF UiInv, TypeOK
    <3>2. uptr \notin Deletable(nRefCount', release')
      <4>1. uage \in Nat /\ uage < Grace /\ (uptr \in vNodesDisconnected => release[uptr] + uage >= Grace)
        BY <2>1 DEF UiInv, TypeOK
      <4>. QED BY ONLY <4>1, <1>3, TimeAssumption
    <3>3. uptr \in vNodesDisconnected' => release'[uptr] + uage >= Grace
      <4>1. /\ uage \in Nat /\ release'[uptr] \in Nat
            /\ uptr \in vNodesDisconnected' => uptr \in vNodesDisconnected \cup Unused
            /\ uptr \in vNodesDisconnected => release[uptr] + uage >= Grace
        BY <1>2, <2>1, <3>1 DEF UiInv, TypeOK
      <4>. QED BY ONLY <4>1, <1>2, <3>1, TimeAssumption
    <3>. QED BY <2>1, <3>2, <3>3 DEF UiInv
  <2>2. CASE upc = "push"
    <3>1. uptr \notin Deletable(nRefCount', release')
      BY <1>3, <2>2 DEF Locked
    <3>. QED BY <2>2, <3>1 DEF UiInv
  <2>. QED BY <2>1, <2>2 DEF UiInv
<1>6. SocketFound' BY DEF SocketFound
<1>. QED BY <1>1, <1>4, <1>5, <1>6

\* No other step deletes a node, or makes one that was disconnected connected again.
LEMMA FinderStep == FinderInv /\ [Next]_vars => FinderInv'
<1>. SUFFICES ASSUME FinderInv, [Next]_vars PROVE FinderInv'
  OBVIOUS
<1>. USE NodesAssumption, TimeAssumption DEF FinderInv
<1>0. TypeOK /\ PointersInv BY FinderInvImplies
<1>1. CASE SocketStep
  <2>1. TypeOK' BY <1>0, <1>1, SocketTypes
  <2>. USE <2>1 DEF TypeOK, nodeVars, mVars, oVars, uVars
  <2>2. CASE AcceptConnection
    BY <2>2 DEF AcceptConnection, OpenFound, OpenIsBare, SocketFound, UiInv, Unborn
  <2>3. CASE SocketCopy
    BY <2>3 DEF SocketCopy, OpenFound, OpenIsBare, SocketFound, UiInv
  <2>4. CASE \E n \in Nodes : ServiceSocket(n)
    BY <2>4 DEF ServiceSocket, OpenFound, OpenIsBare, SocketFound, UiInv
  <2>5. CASE SocketRelease
    BY <2>5 DEF SocketRelease, OpenFound, OpenIsBare, SocketFound, UiInv
  <2>. QED BY <1>1, <2>2, <2>3, <2>4, <2>5, DisconnectSparesFound DEF SocketStep
<1>2. CASE MessageStep
  <2>1. TypeOK' BY <1>0, <1>2, MessageTypes
  <2>. QED BY <1>2, <2>1 DEF MessageStep, MessageCopy, LockNode, HandleMessages, MessageRelease,
       OpenFound, OpenIsBare, SocketFound, UiInv, nodeVars, refVars, sVars, oVars, uVars
<1>3. CASE OpenStep \/ \E ip \in OpenIps : OpenNetworkConnection(ip)
  <2>1. TypeOK' BY <1>0, <1>3, OpenTypes
  <2>. USE <2>1 DEF TypeOK, nodeVars, refVars, sVars, mVars, uVars
  <2>2. CASE \E ip \in OpenIps : OpenNetworkConnection(ip)
    BY <2>2 DEF OpenNetworkConnection, OpenFound, OpenIsBare, SocketFound, UiInv
  <2>3. CASE FindForOpen
    BY <2>3 DEF FindForOpen, Existing, OpenFound, OpenIsBare, SocketFound, UiInv
  <2>4. CASE ReadRefCount \/ WriteRefCount
    <3>1. /\ UNCHANGED <<vNodes, vNodesDisconnected, release, spc, scopy, optr, oage, uVars>>
          /\ opc \in {"addref", "write"} /\ opc' \in {"write", "flag"}
      BY <2>4 DEF ReadRefCount, WriteRefCount
    <3>2. OpenFound' /\ SocketFound' /\ UiInv'
      BY ONLY FinderInv, <3>1 DEF OpenFound, OpenIsBare, SocketFound, UiInv, uVars
    <3>. QED BY ONLY <2>1, <3>2
  <2>5. CASE DialForOpen
    <3>1. CASE opc' = "idle" /\ UNCHANGED <<vNodes, nRefCount, optr>>
      <4>1. /\ UNCHANGED <<vNodes, vNodesDisconnected, release, spc, scopy, optr, uVars>>
            /\ opc = "dial" /\ opc' = "idle"
        BY <2>5, <3>1 DEF DialForOpen
      <4>2. OpenFound' /\ SocketFound' /\ UiInv'
        BY ONLY FinderInv, <4>1 DEF OpenFound, OpenIsBare, SocketFound, UiInv, uVars
      <4>. QED BY ONLY <2>1, <4>2
    <3>2. ASSUME NEW n \in Unborn, vNodes' = vNodes \cup {n}, optr' = n, opc' = "flag"
          PROVE  FinderInv'
      <4>1. /\ UNCHANGED <<vNodesDisconnected, release, spc, scopy, uVars>> /\ oage' = 0
            /\ n \notin vNodesDisconnected
        BY <2>5, <3>2 DEF DialForOpen, Unborn
      <4>2. OpenFound' /\ SocketFound' /\ UiInv'
        BY ONLY FinderInv, <3>2, <4>1, TimeAssumption DEF OpenFound, OpenIsBare, SocketFound, UiInv, uVars
      <4>. QED BY ONLY <2>1, <4>2
    <3>. QED BY <2>5, <3>1, <3>2 DEF DialForOpen
  <2>6. CASE FlagNetworkNode
    BY <2>6 DEF FlagNetworkNode, OpenFound, OpenIsBare, SocketFound, UiInv
  <2>. QED BY <1>3, <2>2, <2>3, <2>4, <2>5, <2>6 DEF OpenStep
<1>4. CASE UiStep \/ \E ip \in UiIps : FindForUi(ip)
  <2>1. TypeOK' BY <1>0, <1>4, UiTypes
  <2>. USE <2>1 DEF TypeOK, nodeVars, refVars, sVars, mVars, oVars
  <2>2. CASE \E ip \in UiIps : FindForUi(ip)
    BY <2>2 DEF FindForUi, Existing, OpenFound, OpenIsBare, SocketFound, UiInv
  <2>3. CASE AddRefForUi
    <3>1. \A n \in Nodes : release'[n] >= release[n]
      BY <2>3 DEF AddRefForUi, AddTimedRef
    <3>. QED BY <2>3, <3>1 DEF AddRefForUi, OpenFound, OpenIsBare, SocketFound, UiInv
  <2>4. CASE DialForUi
    <3>1. \A n \in Nodes : release'[n] >= release[n]
      BY <2>4 DEF DialForUi, AddTimedRef, Unborn
    <3>. QED BY <2>4, <3>1 DEF DialForUi, Unborn, OpenFound, OpenIsBare, SocketFound, UiInv
  <2>5. CASE PushRequest
    BY <2>5 DEF PushRequest, OpenFound, OpenIsBare, SocketFound, UiInv
  <2>. QED BY <1>4, <2>2, <2>3, <2>4, <2>5 DEF UiStep
<1>5. CASE Tick
  <2>1. TypeOK' BY <1>0, <1>5, TickTypes
  <2>2. ASSUME NEW n \in Nodes PROVE release'[n] \in Nat /\ release'[n] + 1 >= release[n]
    <3>1. release[n] \in Nat /\ release'[n] = Less(release[n]) BY <1>5 DEF Tick, TypeOK
    <3>. QED BY ONLY <3>1 DEF Less
  <2>3. OpenFound'
    <3>1. CASE OpenIsBare
      <4>1. oage' = oage + 1 /\ oage + 1 < Grace /\ oage \in Nat /\ UNCHANGED <<nodeVars, opc, optr>>
        BY <1>5, <3>1 DEF Tick, Prompt, TypeOK
      <4>2. optr \in Nodes /\ release[optr] \in Nat
        BY <3>1 DEF OpenFound, TypeOK
      <4>. QED BY ONLY OpenFound, <2>2, <3>1, <4>1, <4>2, TimeAssumption
               DEF OpenFound, OpenIsBare, nodeVars
    <3>2. CASE ~OpenIsBare
      BY <1>5, <3>2 DEF Tick, OpenFound, OpenIsBare
    <3>. QED BY ONLY <3>1, <3>2
  <2>4. UiInv'
    <3>1. CASE upc = "addref"
      <4>1. uage' = uage + 1 /\ uage + 1 < Grace /\ uage \in Nat
            /\ UNCHANGED <<nodeVars, upc, uptr, uip>>
        BY <1>5, <3>1 DEF Tick, Prompt, UiIsBare, TypeOK
      <4>2. uptr \in Nodes /\ release[uptr] \in Nat
        BY <3>1 DEF UiInv, TypeOK
      <4>. QED BY ONLY UiInv, <2>2, <3>1, <4>1, <4>2, TimeAssumption DEF UiInv, nodeVars
    <3>2. CASE upc # "addref"
      BY <1>5, <3>2 DEF Tick, UiInv, nodeVars
    <3>. QED BY ONLY <3>1, <3>2
  <2>. QED BY <1>5, <2>1, <2>3, <2>4 DEF Tick, SocketFound, nodeVars, sVars
<1>6. CASE UNCHANGED vars
  BY <1>6 DEF vars, nodeVars, refVars, sVars, mVars, oVars, uVars, TypeOK, OpenFound, OpenIsBare,
       SocketFound, UiInv
<1>. QED BY <1>1, <1>2, <1>3, <1>4, <1>5, <1>6 DEF Next

\* Whoever dials whom and whatever becomes of the counts: neither the thread that deletes nodes
\* nor one that has just found a node in vNodes is ever left with freed memory.
THEOREM FinderCorrect == Spec => []FinderIsSafe
<1>1. Init => FinderInv
  <2>1. Init => NodeInv BY InitNodeInv
  <2>. QED BY <2>1 DEF Init, NodeInv, FinderInv, OpenFound, OpenIsBare, SocketFound
<1>. QED BY <1>1, FinderStep, FinderInvImplies, PTL DEF Spec

\* Where addresses are apart, the references that net.cpp counts by hand are exact.
THEOREM CountsAreExact == ASSUME Apart PROVE Spec => []CountIsExact
BY NodesAreCounted, PTL

-----------------------------------------------------------------------------
(***************************************************************************)
(* The bytes of a connection, for any two threads of any two nodes that    *)
(* push any messages: what is behind the place of reading, under way and   *)
(* complete in vSend is always a row of whole frames, each in the form in  *)
(* which the receiver will look for it.                                    *)
(***************************************************************************)

\* A sequence of anything.
IsSeq(s) == s \in Seq({s[i] : i \in DOMAIN s})

\* What a sequence is.
LEMMA SeqIs ==
  ASSUME NEW s, IsSeq(s)
  PROVE  Len(s) \in Nat /\ DOMAIN s = 1..Len(s) /\ s = [i \in 1..Len(s) |-> s[i]]
<1> DEFINE S == {s[i] : i \in DOMAIN s}
<1>1. s \in Seq(S)
  BY DEF IsSeq
<1> HIDE DEF S
<1>2. Len(s) \in Nat /\ s \in [1..Len(s) -> S]
  BY <1>1, LenProperties
<1> QED  BY <1>2

\* A sequence of members of a set is one.
LEMMA AnySeq == ASSUME NEW S, NEW s \in Seq(S) PROVE IsSeq(s)
<1>1. Len(s) \in Nat /\ s \in [1..Len(s) -> S]
  BY LenProperties
<1>2. s \in [1..Len(s) -> {s[i] : i \in DOMAIN s}]
  BY <1>1
<1> QED  BY <1>1, <1>2 DEF IsSeq

\* So is a function from the first numbers.
LEMMA FirstNumbers ==
  ASSUME NEW n \in Nat, NEW s, s = [i \in 1..n |-> s[i]]
  PROVE  IsSeq(s) /\ Len(s) = n
<1> DEFINE S == {s[i] : i \in 1..n}
<1>1. s \in [1..n -> S]
  OBVIOUS
<1> HIDE DEF S
<1>2. s \in Seq(S)
  BY <1>1
<1>3. DOMAIN s = 1..n /\ Len(s) \in Nat /\ DOMAIN s = 1..Len(s)
  BY <1>1, <1>2, LenProperties
<1> QED  BY <1>2, <1>3, AnySeq

\* Sequences with the same elements are the same.
LEMMA SameSeq ==
  ASSUME NEW s, NEW t, IsSeq(s), IsSeq(t), Len(s) = Len(t), \A i \in 1..Len(s) : s[i] = t[i]
  PROVE  s = t
<1>1. s = [i \in 1..Len(s) |-> s[i]] /\ t = [i \in 1..Len(s) |-> t[i]]
  BY SeqIs
<1> QED  BY <1>1

\* Two sequences, one behind the other.
LEMMA ConcatIs ==
  ASSUME NEW s, NEW t, IsSeq(s), IsSeq(t)
  PROVE  /\ IsSeq(s \o t) /\ Len(s \o t) = Len(s) + Len(t)
         /\ \A i \in 1..Len(s) : (s \o t)[i] = s[i]
         /\ \A i \in 1..Len(t) : (s \o t)[Len(s) + i] = t[i]
<1> DEFINE S == {s[i] : i \in DOMAIN s} \cup {t[i] : i \in DOMAIN t}
<1>1. s \in Seq(S) /\ t \in Seq(S)
  <2>1. {s[i] : i \in DOMAIN s} \subseteq S /\ {t[i] : i \in DOMAIN t} \subseteq S
    OBVIOUS
  <2>2. s \in Seq({s[i] : i \in DOMAIN s}) /\ t \in Seq({t[i] : i \in DOMAIN t})
    BY DEF IsSeq
  <2> HIDE DEF S
  <2> QED  BY <2>1, <2>2, SeqMonotonic
<1> HIDE DEF S
<1>2. /\ s \o t \in Seq(S) /\ Len(s \o t) = Len(s) + Len(t)
      /\ \A i \in 1..Len(s) + Len(t) : (s \o t)[i] = IF i <= Len(s) THEN s[i] ELSE t[i - Len(s)]
  BY <1>1, ConcatProperties
<1>3. Len(s) \in Nat /\ Len(t) \in Nat
  BY SeqIs
<1>4. \A i \in 1..Len(t) : (s \o t)[Len(s) + i] = t[i]
  <2> TAKE i \in 1..Len(t)
  <2>1. Len(s) + i \in 1..Len(s) + Len(t) /\ ~(Len(s) + i <= Len(s)) /\ (Len(s) + i) - Len(s) = i
    BY <1>3
  <2> QED  BY <1>2, <2>1
<1>5. \A i \in 1..Len(s) : (s \o t)[i] = s[i]
  BY <1>2, <1>3
<1> QED  BY <1>2, <1>4, <1>5, AnySeq

\* One more element.
LEMMA AppendIs ==
  ASSUME NEW s, NEW x, IsSeq(s)
  PROVE  /\ IsSeq(Append(s, x)) /\ Len(Append(s, x)) = Len(s) + 1
         /\ \A i \in 1..Len(s) : Append(s, x)[i] = s[i]
         /\ Append(s, x)[Len(s) + 1] = x
<1> DEFINE S == {s[i] : i \in DOMAIN s} \cup {x}
<1>1. s \in Seq(S) /\ x \in S
  <2>1. {s[i] : i \in DOMAIN s} \subseteq S /\ x \in S
    OBVIOUS
  <2>2. s \in Seq({s[i] : i \in DOMAIN s})
    BY DEF IsSeq
  <2> HIDE DEF S
  <2> QED  BY <2>1, <2>2, SeqMonotonic
<1> HIDE DEF S
<1>2. /\ Append(s, x) \in Seq(S) /\ Len(Append(s, x)) = Len(s) + 1
      /\ \A i \in 1..Len(s) : Append(s, x)[i] = s[i]
      /\ Append(s, x)[Len(s) + 1] = x
  BY <1>1, AppendProperties
<1> QED  BY <1>2, AnySeq

\* A part of a sequence, which may be empty.
LEMMA PartIs ==
  ASSUME NEW s, IsSeq(s), NEW m \in Nat, NEW n \in Nat, m <= n, n <= Len(s)
  PROVE  /\ IsSeq(SubSeq(s, m + 1, n)) /\ Len(SubSeq(s, m + 1, n)) = n - m
         /\ \A i \in 1..(n - m) : SubSeq(s, m + 1, n)[i] = s[m + i]
<1> DEFINE S == {s[i] : i \in DOMAIN s}
           t == SubSeq(s, m + 1, n)
<1>1. s \in Seq(S) /\ Len(s) \in Nat /\ DOMAIN s = 1..Len(s)
  BY SeqIs DEF IsSeq
<1>2. \A i \in (m + 1)..n : s[i] \in S
  BY <1>1
<1> HIDE DEF S
<1>3. /\ t \in Seq(S) /\ Len(t) = IF m + 1 <= n THEN n - (m + 1) + 1 ELSE 0
      /\ \A i \in 1..(n - (m + 1) + 1) : t[i] = s[(m + 1) + i - 1]
  BY <1>1, <1>2, SubSeqProperties
<1>4. Len(t) = n - m
  BY <1>3
<1>5. \A i \in 1..(n - m) : t[i] = s[m + i]
  <2> TAKE i \in 1..(n - m)
  <2>1. i \in 1..(n - (m + 1) + 1) /\ (m + 1) + i - 1 = m + i
    OBVIOUS
  <2> HIDE DEF t
  <2> QED  BY <1>3, <2>1
<1> QED  BY <1>3, <1>4, <1>5, AnySeq

\* And all but the first.
LEMMA TailIs ==
  ASSUME NEW s, IsSeq(s), s # <<>>
  PROVE  /\ Len(s) # 0 /\ Head(s) = s[1]
         /\ IsSeq(Tail(s)) /\ Len(Tail(s)) = Len(s) - 1
         /\ \A i \in 1..(Len(s) - 1) : Tail(s)[i] = s[i + 1]
<1> DEFINE S == {s[i] : i \in DOMAIN s}
<1>1. s \in Seq(S) /\ Len(s) \in Nat
  BY SeqIs DEF IsSeq
<1> HIDE DEF S
<1>2. /\ Tail(s) \in Seq(S) /\ Len(Tail(s)) = Len(s) - 1 /\ Len(s) # 0
      /\ \A i \in 1..Len(Tail(s)) : Tail(s)[i] = s[i + 1]
  BY <1>1, HeadTailProperties, EmptySeq
<1>3. Head(s) = s[1]
  BY <1>1, HeadTailProperties
<1>4. IsSeq(Tail(s))
  BY <1>2, AnySeq
<1> QED  BY <1>2, <1>3, <1>4

\* A sequence of no elements is empty.
LEMMA NoneIs == IsSeq(<<>>) /\ Len(<<>>) = 0 /\ \A s : IsSeq(s) /\ Len(s) = 0 => s = <<>>
<1>1. <<>> \in Seq({})
  OBVIOUS
<1>2. IsSeq(<<>>) /\ Len(<<>>) = 0
  BY <1>1, AnySeq
<1>3. \A s : IsSeq(s) /\ Len(s) = 0 => s = <<>>
  BY <1>2, SameSeq
<1> QED  BY <1>2, <1>3


-----------------------------------------------------------------------------
IsStream(s) ==
  /\ s = [vch |-> s.vch, nReadPos |-> s.nReadPos]
  /\ IsSeq(s.vch) /\ s.nReadPos \in Nat /\ s.nReadPos <= Len(s.vch)

\* s is a stream of the bytes bs.
Has(s, bs) == IsStream(s) /\ IsSeq(bs) /\ Bytes(s) = bs /\ Size(s) = Len(bs)

\* What a stream has.
LEMMA StreamHas ==
  ASSUME NEW s, IsStream(s)
  PROVE  /\ Has(s, Bytes(s)) /\ Size(s) \in Nat /\ s.nReadPos + Size(s) = Len(s.vch)
         /\ \A i \in 1..Size(s) : Bytes(s)[i] = s.vch[s.nReadPos + i]
<1>1. Len(s.vch) \in Nat
  BY SeqIs DEF IsStream
<1>2. /\ IsSeq(Bytes(s)) /\ Len(Bytes(s)) = Len(s.vch) - s.nReadPos
      /\ \A i \in 1..(Len(s.vch) - s.nReadPos) : Bytes(s)[i] = s.vch[s.nReadPos + i]
  BY <1>1, PartIs DEF IsStream, Bytes
<1> QED  BY <1>1, <1>2 DEF Has, Size, IsStream

\* Which bytes those are.
LEMMA AreBytes ==
  ASSUME NEW t, NEW vch, NEW at \in Nat, NEW bs, IsSeq(vch), IsSeq(bs),
         t = [vch |-> vch, nReadPos |-> at], Len(vch) = at + Len(bs),
         \A i \in 1..Len(bs) : vch[at + i] = bs[i]
  PROVE  Has(t, bs)
<1>1. t.vch = vch /\ t.nReadPos = at /\ Len(bs) \in Nat
  BY SeqIs
<1>2. IsStream(t) /\ Size(t) = Len(bs)
  BY <1>1 DEF IsStream, Size
<1>3. Has(t, Bytes(t)) /\ \A i \in 1..Size(t) : Bytes(t)[i] = vch[at + i]
  BY <1>1, <1>2, StreamHas
<1>4. Bytes(t) = bs
  BY <1>2, <1>3, SameSeq DEF Has
<1> QED  BY <1>3, <1>4

\* A new one.
LEMMA NewStream == ASSUME NEW bs, IsSeq(bs) PROVE Has(Stream(bs), bs)
<1>1. Len(bs) \in Nat /\ 0 \in Nat /\ Len(bs) = 0 + Len(bs) /\ \A i \in 1..Len(bs) : bs[0 + i] = bs[i]
  BY SeqIs
<1> QED  BY <1>1, AreBytes DEF Stream

\* A stream whose bytes are changed.
LEMMA NewBytes ==
  ASSUME NEW s, IsStream(s), NEW c
  PROVE  [s EXCEPT !.vch = c] = [vch |-> c, nReadPos |-> s.nReadPos]
BY DEF IsStream

\* Bytes put behind those it has.
LEMMA WriteHas ==
  ASSUME NEW s, IsStream(s), NEW bs, IsSeq(bs)
  PROVE  Has(Write(s, bs), Bytes(s) \o bs)
<1> DEFINE vch == s.vch \o bs
           both == Bytes(s) \o bs
<1>1. Write(s, bs) = [vch |-> vch, nReadPos |-> s.nReadPos]
  <2> HIDE DEF vch
  <2> QED  BY NewBytes DEF vch, Write
<1>2. /\ IsSeq(s.vch) /\ Len(s.vch) \in Nat /\ Len(bs) \in Nat
      /\ s.nReadPos \in Nat /\ s.nReadPos <= Len(s.vch)
  BY SeqIs DEF IsStream
<1>3. /\ IsSeq(vch) /\ Len(vch) = Len(s.vch) + Len(bs)
      /\ \A i \in 1..Len(s.vch) : vch[i] = s.vch[i]
      /\ \A i \in 1..Len(bs) : vch[Len(s.vch) + i] = bs[i]
  BY <1>2, ConcatIs
<1>4. /\ Has(s, Bytes(s)) /\ Size(s) \in Nat /\ s.nReadPos + Size(s) = Len(s.vch)
      /\ \A i \in 1..Size(s) : Bytes(s)[i] = s.vch[s.nReadPos + i]
  BY StreamHas
<1>5. /\ IsSeq(both) /\ Len(both) = Size(s) + Len(bs)
      /\ \A i \in 1..Size(s) : both[i] = Bytes(s)[i]
      /\ \A i \in 1..Len(bs) : both[Size(s) + i] = bs[i]
  BY <1>4, ConcatIs DEF Has
<1> HIDE DEF vch, both
<1>6. ASSUME NEW i \in 1..Len(both) PROVE vch[s.nReadPos + i] = both[i]
  <2>1. CASE i <= Size(s)
    <3>1. i \in 1..Size(s) /\ s.nReadPos + i \in 1..Len(s.vch)
      BY <1>2, <1>4, <2>1
    <3> QED  BY <1>3, <1>4, <1>5, <3>1
  <2>2. CASE ~(i <= Size(s))
    <3> DEFINE j == i - Size(s)
    <3>1. j \in 1..Len(bs) /\ Size(s) + j = i /\ Len(s.vch) + j = s.nReadPos + i
      BY <1>2, <1>4, <1>5, <2>2
    <3> HIDE DEF j
    <3> QED  BY <1>3, <1>5, <3>1
  <2> QED  BY <2>1, <2>2
<1>7. Len(vch) = s.nReadPos + Len(both)
  <2>1. /\ Len(vch) = Len(s.vch) + Len(bs) /\ s.nReadPos + Size(s) = Len(s.vch) /\ Len(both) = Size(s) + Len(bs)
        /\ s.nReadPos \in Nat /\ Size(s) \in Nat /\ Len(bs) \in Nat
    BY <1>2, <1>3, <1>4, <1>5
  <2>2. Len(vch) = (s.nReadPos + Size(s)) + Len(bs)
    BY <2>1
  <2>3. (s.nReadPos + Size(s)) + Len(bs) = s.nReadPos + (Size(s) + Len(bs))
    <3>1. s.nReadPos \in Nat /\ Size(s) \in Nat /\ Len(bs) \in Nat
      BY <2>1
    <3> HIDE DEF Size
    <3> QED  BY ONLY <3>1
  <2> QED  BY ONLY <2>1, <2>2, <2>3
<1> QED  BY <1>1, <1>2, <1>3, <1>5, <1>6, <1>7, AreBytes DEF both

\* Bytes taken from the front.
LEMMA EraseHas ==
  ASSUME NEW s, IsStream(s), NEW n \in Nat, n <= Size(s)
  PROVE  Has(EraseFront(s, n), SubSeq(Bytes(s), n + 1, Size(s)))
<1> DEFINE t == EraseFront(s, n)
           rest == SubSeq(Bytes(s), n + 1, Size(s))
<1>1. /\ Has(s, Bytes(s)) /\ Size(s) \in Nat /\ s.nReadPos + Size(s) = Len(s.vch)
      /\ \A i \in 1..Size(s) : Bytes(s)[i] = s.vch[s.nReadPos + i]
  BY StreamHas
<1>2. /\ IsSeq(rest) /\ Len(rest) = Size(s) - n
      /\ \A i \in 1..(Size(s) - n) : rest[i] = Bytes(s)[n + i]
  BY <1>1, PartIs DEF Has
<1>3. CASE n = Size(s)
  <2>1. Has(t, <<>>)
    BY <1>3, NoneIs, NewStream DEF EraseFront
  <2>2. rest = <<>>
    BY <1>1, <1>2, <1>3, NoneIs
  <2> QED  BY <2>1, <2>2
<1>4. CASE n # Size(s)
  <2>1. t.vch = s.vch /\ t.nReadPos = s.nReadPos + n /\ t = [vch |-> t.vch, nReadPos |-> t.nReadPos]
    BY <1>4 DEF EraseFront, IsStream
  <2> HIDE DEF t, rest
  <2>2. IsStream(t) /\ Size(t) = Size(s) - n
    BY <1>1, <2>1 DEF IsStream, Size
  <2>3. Has(t, Bytes(t)) /\ \A i \in 1..Size(t) : Bytes(t)[i] = t.vch[t.nReadPos + i]
    BY <2>2, StreamHas
  <2>4. ASSUME NEW i \in 1..Size(t) PROVE Bytes(t)[i] = rest[i]
    <3>1. s.nReadPos \in Nat /\ Size(t) = Size(s) - n /\ i \in 1..Size(t) /\ n \in Nat /\ Size(s) \in Nat
      BY <1>1, <2>2 DEF IsStream
    <3>2. n + i \in 1..Size(s) /\ (s.nReadPos + n) + i = s.nReadPos + (n + i) /\ i \in 1..(Size(s) - n)
      BY ONLY <3>1
    <3>3. Bytes(t)[i] = s.vch[(s.nReadPos + n) + i] /\ rest[i] = Bytes(s)[n + i]
      BY <1>2, <2>1, <2>3, <3>2
    <3>4. Bytes(s)[n + i] = s.vch[s.nReadPos + (n + i)]
      BY <1>1, <3>2
    <3> QED  BY <3>2, <3>3, <3>4
  <2>5. Bytes(t) = rest
    BY <1>2, <2>2, <2>3, <2>4, SameSeq DEF Has
  <2> QED  BY <2>3, <2>5 DEF t, rest
<1> QED  BY <1>3, <1>4

\* Bytes put in front of those it has.
LEMMA InsertHas ==
  ASSUME NEW s, IsStream(s), NEW bs, IsSeq(bs)
  PROVE  Has(InsertFront(s, bs), bs \o Bytes(s))
<1>1. /\ Has(s, Bytes(s)) /\ Size(s) \in Nat /\ s.nReadPos + Size(s) = Len(s.vch)
  BY StreamHas
<1>2. /\ IsSeq(s.vch) /\ Len(s.vch) \in Nat /\ Len(bs) \in Nat
      /\ s.nReadPos \in Nat /\ s.nReadPos <= Len(s.vch)
  BY SeqIs DEF IsStream
<1> DEFINE all == bs \o Bytes(s)
<1>3. /\ IsSeq(all) /\ Len(all) = Len(bs) + Size(s)
      /\ \A i \in 1..Len(bs) : all[i] = bs[i]
      /\ \A i \in 1..Size(s) : all[Len(bs) + i] = Bytes(s)[i]
  BY <1>1, ConcatIs DEF Has
<1>4. ASSUME NEW a, IsSeq(a) PROVE Has([vch |-> a \o bs \o Bytes(s), nReadPos |-> Len(a)], all)
  <2> DEFINE ab == a \o bs
             vch == ab \o Bytes(s)
  <2>1. Len(a) \in Nat
    BY <1>4, SeqIs
  <2>2. /\ IsSeq(ab) /\ Len(ab) = Len(a) + Len(bs)
        /\ \A i \in 1..Len(bs) : ab[Len(a) + i] = bs[i]
    BY <1>4, ConcatIs
  <2>3. /\ IsSeq(vch) /\ Len(vch) = Len(ab) + Size(s)
        /\ \A i \in 1..Len(ab) : vch[i] = ab[i]
        /\ \A i \in 1..Size(s) : vch[Len(ab) + i] = Bytes(s)[i]
    BY <1>1, <2>2, ConcatIs DEF Has
  <2> HIDE DEF ab, vch, all
  <2>4. ASSUME NEW i \in 1..Len(all) PROVE vch[Len(a) + i] = all[i]
    <3>1. CASE i <= Len(bs)
      <4>1. i \in 1..Len(bs) /\ Len(a) + i \in 1..Len(ab)
        BY <1>2, <2>1, <2>2, <3>1
      <4> QED  BY <1>3, <2>2, <2>3, <4>1
    <3>2. CASE ~(i <= Len(bs))
      <4> DEFINE j == i - Len(bs)
      <4>1. j \in 1..Size(s) /\ Len(bs) + j = i /\ Len(ab) + j = Len(a) + i
        BY <1>1, <1>2, <1>3, <2>1, <2>2, <3>2
      <4> HIDE DEF j
      <4> QED  BY <1>3, <2>3, <4>1
    <3> QED  BY <3>1, <3>2
  <2>5. Len(vch) = Len(a) + Len(all)
    BY <1>1, <1>2, <1>3, <2>1, <2>2, <2>3
  <2>6. Has([vch |-> vch, nReadPos |-> Len(a)], all)
    BY <1>3, <2>1, <2>3, <2>4, <2>5, AreBytes
  <2> QED  BY <2>6 DEF ab, vch
<1> HIDE DEF all
<1>5. CASE Len(bs) <= s.nReadPos
  <2> DEFINE before == SubSeq(s.vch, 1, s.nReadPos - Len(bs))
  <2>1. IsSeq(before)
    <3>1. s.nReadPos - Len(bs) \in Nat /\ s.nReadPos - Len(bs) <= Len(s.vch) /\ 0 <= s.nReadPos - Len(bs) /\ 0 \in Nat
      BY <1>2, <1>5
    <3>2. IsSeq(SubSeq(s.vch, 0 + 1, s.nReadPos - Len(bs)))
      BY <1>2, <3>1, PartIs
    <3> QED  BY <3>2
  <2>2. InsertFront(s, bs) = [vch |-> before \o bs \o Bytes(s), nReadPos |-> Len(before)]
    BY <1>5 DEF InsertFront
  <2> HIDE DEF before
  <2> QED  BY <1>4, <2>1, <2>2 DEF all
<1>6. CASE ~(Len(bs) <= s.nReadPos)
  <2> DEFINE before == SubSeq(s.vch, 1, s.nReadPos)
  <2>1. IsSeq(before) /\ Len(before) = s.nReadPos
    <3>1. IsSeq(SubSeq(s.vch, 0 + 1, s.nReadPos)) /\ Len(SubSeq(s.vch, 0 + 1, s.nReadPos)) = s.nReadPos - 0
      BY <1>2, PartIs
    <3> QED  BY <1>2, <3>1
  <2>2. InsertFront(s, bs) = [s EXCEPT !.vch = before \o bs \o Bytes(s)]
    BY <1>6 DEF InsertFront
  <2> HIDE DEF before
  <2>3. InsertFront(s, bs) = [vch |-> before \o bs \o Bytes(s), nReadPos |-> Len(before)]
    BY <2>1, <2>2, NewBytes
  <2> QED  BY <1>4, <2>1, <2>3 DEF all
<1> QED  BY <1>5, <1>6 DEF all

\* Bytes taken from the end.
LEMMA ResizeHas ==
  ASSUME NEW s, IsStream(s), NEW n \in Nat, n <= Size(s)
  PROVE  Has(Resize(s, n), SubSeq(Bytes(s), 1, n))
<1> DEFINE vch == SubSeq(s.vch, 1, s.nReadPos + n)
           first == SubSeq(Bytes(s), 1, n)
<1>1. /\ Has(s, Bytes(s)) /\ Size(s) \in Nat /\ s.nReadPos + Size(s) = Len(s.vch)
      /\ \A i \in 1..Size(s) : Bytes(s)[i] = s.vch[s.nReadPos + i]
  BY StreamHas
<1>2. /\ IsSeq(s.vch) /\ Len(s.vch) \in Nat /\ s.nReadPos \in Nat /\ s.nReadPos + n <= Len(s.vch)
  BY <1>1, SeqIs DEF IsStream
<1>3. /\ IsSeq(vch) /\ Len(vch) = s.nReadPos + n
      /\ \A i \in 1..(s.nReadPos + n) : vch[i] = s.vch[i]
  <2>1. 0 \in Nat /\ s.nReadPos + n \in Nat /\ 0 <= s.nReadPos + n
    BY <1>2
  <2>2. /\ IsSeq(SubSeq(s.vch, 0 + 1, s.nReadPos + n))
        /\ Len(SubSeq(s.vch, 0 + 1, s.nReadPos + n)) = (s.nReadPos + n) - 0
        /\ \A i \in 1..((s.nReadPos + n) - 0) : SubSeq(s.vch, 0 + 1, s.nReadPos + n)[i] = s.vch[0 + i]
    BY <1>2, <2>1, PartIs
  <2>3. 0 + 1 = 1 /\ (s.nReadPos + n) - 0 = s.nReadPos + n /\ \A i \in 1..(s.nReadPos + n) : 0 + i = i
    BY <2>1
  <2> QED  BY <2>2, <2>3
<1>4. /\ IsSeq(first) /\ Len(first) = n /\ \A i \in 1..n : first[i] = Bytes(s)[i]
  <2>1. /\ IsSeq(SubSeq(Bytes(s), 0 + 1, n)) /\ Len(SubSeq(Bytes(s), 0 + 1, n)) = n - 0
        /\ \A i \in 1..(n - 0) : SubSeq(Bytes(s), 0 + 1, n)[i] = Bytes(s)[0 + i]
    BY <1>1, PartIs DEF Has
  <2>2. 0 + 1 = 1 /\ n - 0 = n /\ \A i \in 1..n : 0 + i = i
    OBVIOUS
  <2> QED  BY <2>1, <2>2
<1>5. Resize(s, n) = [vch |-> vch, nReadPos |-> s.nReadPos]
  <2> HIDE DEF vch
  <2> QED  BY NewBytes DEF vch, Resize
<1> HIDE DEF vch, first
<1>6. ASSUME NEW i \in 1..Len(first) PROVE vch[s.nReadPos + i] = first[i]
  <2>1. i \in 1..n /\ i \in 1..Size(s) /\ s.nReadPos + i \in 1..(s.nReadPos + n)
    BY <1>1, <1>2, <1>4
  <2> QED  BY <1>1, <1>3, <1>4, <2>1
<1>7. Has(Resize(s, n), first)
  BY <1>2, <1>3, <1>4, <1>5, <1>6, AreBytes
<1> QED  BY <1>7 DEF first

\* A byte changed.
LEMMA OverwriteHas ==
  ASSUME NEW s, IsStream(s), NEW at \in 1..Size(s), NEW b
  PROVE  Has(Overwrite(s, at, b), [Bytes(s) EXCEPT ![at] = b])
<1> DEFINE vch == [s.vch EXCEPT ![s.nReadPos + at] = b]
           bs == [Bytes(s) EXCEPT ![at] = b]
<1>1. /\ Has(s, Bytes(s)) /\ Size(s) \in Nat /\ s.nReadPos + Size(s) = Len(s.vch)
      /\ \A i \in 1..Size(s) : Bytes(s)[i] = s.vch[s.nReadPos + i]
  BY StreamHas
<1>2. /\ Len(s.vch) \in Nat /\ s.nReadPos \in Nat
      /\ s.vch = [i \in 1..Len(s.vch) |-> s.vch[i]] /\ Bytes(s) = [i \in 1..Size(s) |-> Bytes(s)[i]]
  BY <1>1, SeqIs DEF IsStream, Has
<1>3. /\ vch = [i \in 1..Len(s.vch) |-> vch[i]] /\ bs = [i \in 1..Size(s) |-> bs[i]]
      /\ \A i \in 1..Len(s.vch) : vch[i] = IF i = s.nReadPos + at THEN b ELSE s.vch[i]
      /\ \A i \in 1..Size(s) : bs[i] = IF i = at THEN b ELSE Bytes(s)[i]
  BY <1>2
<1>4. Overwrite(s, at, b) = [vch |-> vch, nReadPos |-> s.nReadPos]
  <2>1. Overwrite(s, at, b) = [s EXCEPT !.vch = vch]
    BY DEF Overwrite
  <2> HIDE DEF vch
  <2> QED  BY <2>1, NewBytes
<1> HIDE DEF vch, bs
<1>5. IsSeq(vch) /\ Len(vch) = Len(s.vch) /\ IsSeq(bs) /\ Len(bs) = Size(s)
  BY <1>1, <1>2, <1>3, FirstNumbers
<1>6. ASSUME NEW i \in 1..Len(bs) PROVE vch[s.nReadPos + i] = bs[i]
  <2>1. i \in 1..Size(s) /\ s.nReadPos + i \in 1..Len(s.vch) /\ (s.nReadPos + i = s.nReadPos + at <=> i = at)
    BY <1>1, <1>2, <1>5
  <2> QED  BY <1>1, <1>3, <2>1
<1>7. Len(vch) = s.nReadPos + Len(bs)
  BY <1>1, <1>5
<1>8. Has(Overwrite(s, at, b), bs)
  BY <1>2, <1>4, <1>5, <1>6, <1>7, AreBytes
<1> QED  BY <1>8 DEF bs

-----------------------------------------------------------------------------
\* The first two messages of the handshake of old have no checksum.
Checked(new, i) == new \/ i > 2
HeadLen(checked) == IF checked THEN 5 ELSE 4
FrameLen(m, checked) == HeadLen(checked) + Len(m.data)
\* Behind place at, the bytes P are those of m.
FrameAt(P, at, m, checked) ==
  /\ P[at + 1] = 8 /\ P[at + 2] = 9 /\ P[at + 3] = m.command /\ P[at + 4] = Len(m.data)
  /\ checked => P[at + 5] = Hash(m.data)
  /\ \A j \in 1..Len(m.data) : P[at + HeadLen(checked) + j] = m.data[j]

\* The first L of the bytes P are the messages of s behind the first d, cut into frames. They begin
\* with R, what was received; and if the receiver is open, behind it come U, what is under way, and
\* the first c of the bytes S, what is complete and has not left.
Flow(new, s, d, R, isOpen, U, S, c, P, L, cut) ==
  /\ L \in Nat /\ cut \in [Nat -> Nat] /\ cut[d] = 0 /\ cut[Len(s)] = L
  /\ \A i, j \in d..Len(s) : i <= j => cut[i] <= cut[j]
  /\ \A i \in (d + 1)..Len(s) :
       /\ cut[i] = cut[i - 1] + FrameLen(s[i], Checked(new, i))
       /\ FrameAt(P, cut[i - 1], s[i], Checked(new, i))
  /\ Len(R) <= L /\ \A i \in 1..Len(R) : P[i] = R[i]
  /\ isOpen => /\ L = Len(R) + Len(U) + c
               /\ \A i \in 1..Len(U) : P[Len(R) + i] = U[i]
               /\ \A i \in 1..c : P[Len(R) + Len(U) + i] = S[i]
FlowOK(new, s, d, R, isOpen, U, S, c) ==
  /\ s \in Seq(Messages) /\ d \in 0..Len(s) /\ IsSeq(R) /\ IsSeq(U) /\ c \in Nat
  /\ \E P, L, cut : Flow(new, s, d, R, isOpen, U, S, c, P, L, cut)

\* How long a frame is.
LEMMA FrameLenIs ==
  ASSUME NEW m \in Messages, NEW checked
  PROVE  HeadLen(checked) \in 4..5 /\ Len(m.data) \in Nat /\ FrameLen(m, checked) \in Nat
<1>1. Len(m.data) \in Nat
  BY LenProperties DEF Messages
<1>2. HeadLen(checked) = 4 \/ HeadLen(checked) = 5
  BY DEF HeadLen
<1>3. HeadLen(checked) \in 4..5
  BY <1>2
<1>4. HeadLen(checked) + Len(m.data) \in Nat
  BY <1>1, <1>3
<1> QED  BY <1>1, <1>3, <1>4 DEF FrameLen

\* A frame is within its bytes.
LEMMA SameFrame ==
  ASSUME NEW m \in Messages, NEW checked, NEW P, NEW Q, NEW at \in Nat, NEW to \in Nat, FrameAt(P, at, m, checked),
         \A i \in 1..FrameLen(m, checked) : Q[to + i] = P[at + i]
  PROVE  FrameAt(Q, to, m, checked)
<1>1. HeadLen(checked) \in 4..5 /\ Len(m.data) \in Nat /\ FrameLen(m, checked) = HeadLen(checked) + Len(m.data)
  BY FrameLenIs DEF FrameLen
<1>2. 1..4 \subseteq 1..FrameLen(m, checked) /\ (checked => 5 \in 1..FrameLen(m, checked))
  <2>1. checked => HeadLen(checked) = 5
    BY DEF HeadLen
  <2>2. 4 + Len(m.data) <= FrameLen(m, checked) /\ (checked => FrameLen(m, checked) = 5 + Len(m.data))
    BY ONLY <1>1, <2>1
  <2>3. 4 <= FrameLen(m, checked) /\ FrameLen(m, checked) \in Nat /\ (checked => 5 <= FrameLen(m, checked))
    BY ONLY <1>1, <2>2
  <2> QED  BY <2>3
<1>3. Q[to + 1] = P[at + 1] /\ Q[to + 2] = P[at + 2] /\ Q[to + 3] = P[at + 3] /\ Q[to + 4] = P[at + 4]
  BY <1>2
<1>4. checked => Q[to + 5] = P[at + 5]
  BY <1>2
<1>5. ASSUME NEW j \in 1..Len(m.data) PROVE Q[to + HeadLen(checked) + j] = m.data[j]
  <2>1. HeadLen(checked) + j \in 1..FrameLen(m, checked)
    BY <1>1
  <2>2. Q[to + (HeadLen(checked) + j)] = P[at + (HeadLen(checked) + j)]
    BY <2>1
  <2>3. to + (HeadLen(checked) + j) = to + HeadLen(checked) + j /\ at + (HeadLen(checked) + j) = at + HeadLen(checked) + j
    BY <1>1
  <2> QED  BY <2>2, <2>3 DEF FrameAt
<1> QED  BY <1>3, <1>4, <1>5 DEF FrameAt

\* A message more is complete.
LEMMA FlowSent ==
  ASSUME NEW new, NEW s, NEW d, NEW R, NEW isOpen, NEW U, NEW S, NEW c, FlowOK(new, s, d, R, isOpen, U, S, c),
         NEW m \in Messages, NEW T, \A i \in 1..c : T[i] = S[i],
         FrameAt(T, c, m, Checked(new, Len(s) + 1))
  PROVE  FlowOK(new, Append(s, m), d, R, isOpen, U, T, c + FrameLen(m, Checked(new, Len(s) + 1)))
<1> DEFINE n == FrameLen(m, Checked(new, Len(s) + 1))
           k == Len(s)
           t == Append(s, m)
<1>1. n \in Nat
  BY FrameLenIs
<1>2. k \in Nat /\ d \in 0..k /\ IsSeq(R) /\ IsSeq(U) /\ c \in Nat /\ \A i \in 1..k : s[i] \in Messages
  BY LenProperties DEF FlowOK
<1>3. t \in Seq(Messages) /\ Len(t) = k + 1 /\ t[k + 1] = m /\ \A i \in 1..k : t[i] = s[i]
  BY AppendProperties DEF FlowOK
<1>4. PICK P, L, cut : Flow(new, s, d, R, isOpen, U, S, c, P, L, cut)
  BY DEF FlowOK
<1>5. Len(R) \in Nat /\ Len(U) \in Nat
  BY <1>2, SeqIs
<1> DEFINE Q == [i \in Nat |-> IF i <= L THEN P[i] ELSE T[c + (i - L)]]
           cuts == [i \in Nat |-> IF i <= k THEN cut[i] ELSE L + n]
<1> HIDE DEF n, k, t
<1>6. L \in Nat /\ cut \in [Nat -> Nat] /\ cut[d] = 0 /\ cut[k] = L
  BY <1>4 DEF Flow, k
<1>7. /\ cuts \in [Nat -> Nat] /\ cuts[k + 1] = L + n /\ \A i \in d..k : cuts[i] = cut[i] /\ cut[i] \in Nat /\ cut[i] <= L
  <2>1. \A i, j \in d..k : i <= j => cut[i] <= cut[j]
    BY <1>4 DEF Flow, k
  <2>2. k \in d..k /\ \A i \in d..k : i \in Nat /\ i <= k /\ i # k + 1
    BY <1>2
  <2>3. \A i \in d..k : cut[i] <= L
    BY <1>6, <2>1, <2>2
  <2>4. k + 1 \in Nat /\ L + n \in Nat /\ ~(k + 1 <= k)
    <3>1. k \in Nat /\ L \in Nat
      BY <1>2, <1>6
    <3> QED  BY ONLY <1>1, <3>1
  <2>5. cuts \in [Nat -> Nat]
    BY <1>6, <2>4
  <2>6. cuts[k + 1] = L + n
    BY <2>4
  <2>7. \A i \in d..k : cuts[i] = cut[i] /\ cut[i] \in Nat
    BY <1>6, <2>2
  <2> HIDE DEF cuts
  <2> QED  BY <2>3, <2>5, <2>6, <2>7
<1>8. \A i, j \in d..(k + 1) : i <= j => cuts[i] <= cuts[j]
  <2>1. \A i, j \in d..k : i <= j => cut[i] <= cut[j]
    BY <1>4 DEF Flow, k
  <2> HIDE DEF cuts
  <2>2. \A i, j \in d..k : i <= j => cuts[i] <= cuts[j]
    BY <1>7, <2>1
  <2>3. ASSUME NEW i \in d..k PROVE cuts[i] <= cuts[k + 1]
    <3>1. cuts[i] = cut[i] /\ cut[i] \in Nat /\ cut[i] <= L /\ cuts[k + 1] = L + n
      BY <1>7
    <3>2. n \in Nat /\ L \in Nat
      BY <1>1, <1>6
    <3> QED  BY ONLY <3>1, <3>2
  <2>4. cuts[k + 1] <= cuts[k + 1]
    <3>1. cuts[k + 1] \in Nat
      BY <1>1, <1>6, <1>7
    <3> QED  BY <3>1
  <2>5. \A i \in d..(k + 1) : i \in d..k \/ i = k + 1
    BY <1>2
  <2> QED  BY <1>2, <2>2, <2>3, <2>4, <2>5
<1>9. \A i \in Nat : /\ i <= L => Q[i] = P[i]
                     /\ i > L => Q[i] = T[c + (i - L)]
  BY <1>6
<1> HIDE DEF Q, cuts
<1>10. ASSUME NEW i \in (d + 1)..(k + 1)
       PROVE  /\ cuts[i] = cuts[i - 1] + FrameLen(t[i], Checked(new, i))
              /\ FrameAt(Q, cuts[i - 1], t[i], Checked(new, i))
  <2>1. CASE i = k + 1
    <3>1. i - 1 = k /\ k \in d..k
      BY <1>2, <2>1
    <3>2. cuts[i] = cuts[i - 1] + n /\ cuts[i - 1] = L /\ t[i] = m
      BY <1>3, <1>6, <1>7, <2>1, <3>1
    <3>3. ASSUME NEW x \in 1..n PROVE Q[L + x] = T[c + x]
      <4> DEFINE y == L + x
      <4>1. y \in Nat /\ y > L /\ y - L = x
        BY <1>1, <1>6
      <4> HIDE DEF y
      <4>2. Q[y] = T[c + x]
        BY <1>9, <4>1
      <4> QED  BY <4>2 DEF y
    <3>4. FrameAt(Q, L, m, Checked(new, i))
      BY <1>2, <1>6, <2>1, <3>3, SameFrame DEF n, k
    <3> QED  BY <2>1, <3>2, <3>4 DEF n, k
  <2>2. CASE i # k + 1
    <3>1. i \in (d + 1)..k /\ i - 1 \in d..k /\ i \in d..k /\ i \in 1..k
      BY <1>2, <2>2
    <3>2. cut[i] = cut[i - 1] + FrameLen(s[i], Checked(new, i)) /\ FrameAt(P, cut[i - 1], s[i], Checked(new, i))
      BY <1>4, <3>1 DEF Flow, k
    <3>3. t[i] = s[i] /\ s[i] \in Messages /\ cuts[i] = cut[i] /\ cuts[i - 1] = cut[i - 1] /\ cut[i - 1] \in Nat /\ cut[i] <= L
      BY <1>2, <1>3, <1>7, <3>1
    <3>4. ASSUME NEW x \in 1..FrameLen(s[i], Checked(new, i)) PROVE Q[cut[i - 1] + x] = P[cut[i - 1] + x]
      <4>1. FrameLen(s[i], Checked(new, i)) \in Nat
        BY <3>3, FrameLenIs
      <4> DEFINE y == cut[i - 1] + x
      <4>2. cut[i - 1] + FrameLen(s[i], Checked(new, i)) <= L
        BY <3>2, <3>3
      <4>3. cut[i - 1] \in Nat
        BY <3>3
      <4>4. y \in Nat /\ y <= L
        <5>1. x \in 1..FrameLen(s[i], Checked(new, i)) /\ L \in Nat
          BY <1>6
        <5> QED  BY ONLY <4>1, <4>2, <4>3, <5>1
      <4> HIDE DEF y
      <4>5. Q[y] = P[y]
        BY <1>9, <4>4
      <4> QED  BY <4>5 DEF y
    <3>5. FrameAt(Q, cut[i - 1], s[i], Checked(new, i))
      <4>1. s[i] \in Messages /\ cut[i - 1] \in Nat /\ FrameAt(P, cut[i - 1], s[i], Checked(new, i))
        BY <3>2, <3>3
      <4> QED  BY ONLY <3>4, <4>1, SameFrame
    <3> QED  BY <3>2, <3>3, <3>5
  <2> QED  BY <2>1, <2>2
<1>11. Len(R) <= L + n /\ \A i \in 1..Len(R) : Q[i] = R[i]
  <2>1. Len(R) <= L /\ \A i \in 1..Len(R) : P[i] = R[i]
    BY <1>4 DEF Flow
  <2>2. ASSUME NEW i \in 1..Len(R) PROVE i \in Nat /\ i <= L
    <3>1. i \in 1..Len(R) /\ Len(R) \in Nat /\ L \in Nat /\ Len(R) <= L
      BY <1>5, <1>6, <2>1
    <3> QED  BY ONLY <3>1
  <2>3. Len(R) <= L + n
    BY <1>1, <1>5, <1>6, <2>1
  <2> QED  BY <1>9, <2>1, <2>2, <2>3
<1>12. ASSUME isOpen
       PROVE  /\ L + n = Len(R) + Len(U) + (c + n)
              /\ \A i \in 1..Len(U) : Q[Len(R) + i] = U[i]
              /\ \A i \in 1..(c + n) : Q[Len(R) + Len(U) + i] = T[i]
  <2>1. /\ L = Len(R) + Len(U) + c
        /\ \A i \in 1..Len(U) : P[Len(R) + i] = U[i]
        /\ \A i \in 1..c : P[Len(R) + Len(U) + i] = S[i]
    BY ONLY <1>4, <1>12 DEF Flow
  <2>2. ASSUME NEW i \in 1..Len(U) PROVE Q[Len(R) + i] = U[i]
    <3>1. Len(R) + i \in Nat /\ Len(R) + i <= L
      BY <1>2, <1>5, <2>1
    <3> QED  BY <1>9, <2>1, <3>1
  <2>3. ASSUME NEW i \in 1..(c + n) PROVE Q[Len(R) + Len(U) + i] = T[i]
    <3> DEFINE x == Len(R) + Len(U) + i
    <3>1. x \in Nat
      BY <1>1, <1>2, <1>5
    <3>2. CASE i <= c
      <4>1. x <= L /\ i \in 1..c
        BY <1>1, <1>2, <1>5, <2>1, <3>2
      <4>2. T[i] = S[i] /\ P[x] = S[i]
        BY <2>1, <4>1
      <4> HIDE DEF x
      <4> QED  BY <1>9, <3>1, <4>1, <4>2 DEF x
    <3>3. CASE ~(i <= c)
      <4>1. x > L /\ c + (x - L) = i
        BY <1>1, <1>2, <1>5, <2>1, <3>3
      <4> HIDE DEF x
      <4> QED  BY <1>9, <3>1, <4>1 DEF x
    <3> QED  BY <3>2, <3>3
  <2>4. L + n = Len(R) + Len(U) + (c + n)
    BY <1>1, <1>2, <1>5, <2>1
  <2> QED  BY <2>2, <2>3, <2>4
<1>13. Flow(new, t, d, R, isOpen, U, T, c + n, Q, L + n, cuts)
  <2>1. /\ L + n \in Nat /\ cuts \in [Nat -> Nat] /\ cuts[d] = 0 /\ cuts[Len(t)] = L + n
    <3>1. d \in d..k
      BY <1>2
    <3>2. L + n \in Nat
      <4>1. L \in Nat
        BY <1>6
      <4> QED  BY ONLY <1>1, <4>1
    <3>3. cuts[d] = 0
      BY <1>6, <1>7, <3>1
    <3> QED  BY <1>3, <1>7, <3>2, <3>3
  <2>2. \A i, j \in d..Len(t) : i <= j => cuts[i] <= cuts[j]
    BY <1>3, <1>8
  <2>3. \A i \in (d + 1)..Len(t) : /\ cuts[i] = cuts[i - 1] + FrameLen(t[i], Checked(new, i))
                                   /\ FrameAt(Q, cuts[i - 1], t[i], Checked(new, i))
    BY <1>3, <1>10
  <2> QED  BY ONLY <1>11, <1>12, <2>1, <2>2, <2>3 DEF Flow
<1>14. d \in 0..Len(t) /\ c + n \in Nat
  BY <1>1, <1>2, <1>3
<1> QED  BY <1>2, <1>3, <1>13, <1>14 DEF FlowOK, n, k, t

\* A receiver that is closed looks no more at what is under way.
LEMMA FlowClosed ==
  ASSUME NEW new, NEW s, NEW d, NEW R, NEW isOpen, NEW U, NEW S, NEW c, FlowOK(new, s, d, R, isOpen, U, S, c),
         NEW V, NEW T, NEW e \in Nat, IsSeq(V)
  PROVE  FlowOK(new, s, d, R, FALSE, V, T, e)
<1>1. PICK P, L, cut : Flow(new, s, d, R, isOpen, U, S, c, P, L, cut)
  BY DEF FlowOK
<1>2. Flow(new, s, d, R, FALSE, V, T, e, P, L, cut)
  BY ONLY <1>1 DEF Flow
<1> QED  BY <1>2 DEF FlowOK

\* The first k of c bytes leave S, of which T is left, and go behind U, which gives V.
Moved(k, c, S, T, U, V) ==
  /\ k \in Nat /\ k <= c /\ IsSeq(V) /\ Len(V) = Len(U) + k
  /\ \A i \in 1..Len(U) : V[i] = U[i]
  /\ \A i \in 1..k : V[Len(U) + i] = S[i]
  /\ \A i \in 1..(c - k) : T[i] = S[k + i]

\* Bytes that leave.
LEMMA FlowMoved ==
  ASSUME NEW new, NEW s, NEW d, NEW R, NEW U, NEW S, NEW c, FlowOK(new, s, d, R, TRUE, U, S, c),
         NEW k, NEW V, NEW T, Moved(k, c, S, T, U, V)
  PROVE  FlowOK(new, s, d, R, TRUE, V, T, c - k)
<1> k \in Nat /\ k <= c /\ IsSeq(V) /\ Len(V) = Len(U) + k
  BY DEF Moved
<1> (\A i \in 1..Len(U) : V[i] = U[i]) /\ (\A i \in 1..k : V[Len(U) + i] = S[i])
  BY DEF Moved
<1> \A i \in 1..(c - k) : T[i] = S[k + i]
  BY DEF Moved
<1>1. PICK P, L, cut : Flow(new, s, d, R, TRUE, U, S, c, P, L, cut)
  BY DEF FlowOK
<1>2. Len(R) \in Nat /\ Len(U) \in Nat /\ c \in Nat
  BY SeqIs DEF FlowOK
<1>3. /\ L = Len(R) + Len(U) + c
      /\ \A i \in 1..Len(U) : P[Len(R) + i] = U[i]
      /\ \A i \in 1..c : P[Len(R) + Len(U) + i] = S[i]
  BY ONLY <1>1 DEF Flow
<1>4. ASSUME NEW i \in 1..Len(V) PROVE P[Len(R) + i] = V[i]
  <2>1. CASE i <= Len(U)
    <3>1. i \in 1..Len(U)
      BY ONLY <1>2, <2>1, i \in 1..Len(V)
    <3> QED  BY <1>3, <3>1
  <2>2. CASE ~(i <= Len(U))
    <3> DEFINE j == i - Len(U)
    <3>1. j \in 1..k /\ Len(U) + j = i /\ Len(R) + Len(U) + j = Len(R) + i /\ j \in 1..c
      BY <1>2, <2>2
    <3> HIDE DEF j
    <3> QED  BY <1>3, <3>1
  <2> QED  BY <2>1, <2>2
<1>5. ASSUME NEW i \in 1..(c - k) PROVE P[Len(R) + Len(V) + i] = T[i]
  <2> DEFINE j == k + i
  <2>1. j \in 1..c /\ Len(R) + Len(U) + j = Len(R) + Len(V) + i
    BY <1>2
  <2>2. T[i] = S[j]
    OBVIOUS
  <2> HIDE DEF j
  <2> QED  BY <1>3, <2>1, <2>2
<1>6. L = Len(R) + Len(V) + (c - k) /\ c - k \in Nat
  BY <1>2, <1>3
<1>7. Flow(new, s, d, R, TRUE, V, T, c - k, P, L, cut)
  BY ONLY <1>1, <1>4, <1>5, <1>6 DEF Flow
<1> QED  BY <1>6, <1>7 DEF FlowOK

\* The first byte leaves U, of which V is left, and goes behind R, which gives Q.
Received(U, V, R, Q) ==
  /\ IsSeq(Q) /\ Len(Q) = Len(R) + 1 /\ (\A i \in 1..Len(R) : Q[i] = R[i]) /\ Q[Len(R) + 1] = U[1]
  /\ IsSeq(V) /\ Len(V) + 1 = Len(U) /\ \A i \in 1..Len(V) : V[i] = U[i + 1]

\* A byte that arrives.
LEMMA FlowReceived ==
  ASSUME NEW new, NEW s, NEW d, NEW R, NEW U, NEW S, NEW c, FlowOK(new, s, d, R, TRUE, U, S, c),
         NEW Q, NEW V, Received(U, V, R, Q)
  PROVE  FlowOK(new, s, d, Q, TRUE, V, S, c)
<1> IsSeq(Q) /\ Len(Q) = Len(R) + 1 /\ (\A i \in 1..Len(R) : Q[i] = R[i]) /\ Q[Len(R) + 1] = U[1]
  BY DEF Received
<1> IsSeq(V) /\ Len(V) + 1 = Len(U) /\ \A i \in 1..Len(V) : V[i] = U[i + 1]
  BY DEF Received
<1>1. PICK P, L, cut : Flow(new, s, d, R, TRUE, U, S, c, P, L, cut)
  BY DEF FlowOK
<1>2. Len(R) \in Nat /\ Len(U) \in Nat /\ Len(V) \in Nat /\ c \in Nat
  BY SeqIs DEF FlowOK
<1>3. /\ L = Len(R) + Len(U) + c
      /\ \A i \in 1..Len(U) : P[Len(R) + i] = U[i]
      /\ \A i \in 1..c : P[Len(R) + Len(U) + i] = S[i]
      /\ \A i \in 1..Len(R) : P[i] = R[i]
  BY ONLY <1>1 DEF Flow
<1>4. ASSUME NEW i \in 1..Len(Q) PROVE P[i] = Q[i]
  <2>1. CASE i = Len(R) + 1
    <3>1. 1 \in 1..Len(U)
      BY <1>2
    <3> QED  BY <1>3, <2>1, <3>1
  <2>2. CASE i # Len(R) + 1
    <3>1. i \in 1..Len(R)
      BY <1>2, <2>2
    <3> QED  BY <1>3, <3>1
  <2> QED  BY <2>1, <2>2
<1>5. ASSUME NEW i \in 1..Len(V) PROVE P[Len(Q) + i] = V[i]
  <2> DEFINE j == i + 1
  <2>1. j \in 1..Len(U) /\ Len(R) + j = Len(Q) + i
    BY <1>2
  <2>2. V[i] = U[j]
    OBVIOUS
  <2> HIDE DEF j
  <2> QED  BY <1>3, <2>1, <2>2
<1>6. L = Len(Q) + Len(V) + c /\ Len(Q) <= L /\ Len(Q) + Len(V) = Len(R) + Len(U)
  <2>1. L = Len(R) + Len(U) + c
    BY <1>3
  <2> QED  BY ONLY <1>2, <2>1, Len(Q) = Len(R) + 1, Len(V) + 1 = Len(U)
<1>7. \A i \in 1..c : P[Len(Q) + Len(V) + i] = S[i]
  BY <1>3, <1>6
<1>8. Flow(new, s, d, Q, TRUE, V, S, c, P, L, cut)
  BY ONLY <1>1, <1>4, <1>5, <1>6, <1>7 DEF Flow
<1> QED  BY <1>8 DEF FlowOK

\* Nothing that was sent and not taken: no bytes; and otherwise the next frame comes first.
LEMMA FirstFrame ==
  ASSUME NEW new, NEW s, NEW d, NEW R, NEW isOpen, NEW U, NEW S, NEW c, FlowOK(new, s, d, R, isOpen, U, S, c)
  PROVE  /\ d = Len(s) => Len(R) = 0
         /\ d < Len(s) => /\ s[d + 1] \in Messages
                          /\ \E P : /\ \A i \in 1..Len(R) : P[i] = R[i]
                                    /\ FrameAt(P, 0, s[d + 1], Checked(new, d + 1))
         /\ isOpen /\ Len(U) = 0 /\ c = 0 /\ d < Len(s) => Len(R) >= FrameLen(s[d + 1], Checked(new, d + 1))
<1>1. PICK P, L, cut : Flow(new, s, d, R, isOpen, U, S, c, P, L, cut)
  BY DEF FlowOK
<1>2. Len(R) \in Nat /\ d \in 0..Len(s) /\ Len(s) \in Nat /\ \A i \in 1..Len(s) : s[i] \in Messages
  BY SeqIs, LenProperties DEF FlowOK
<1>3. /\ Len(R) <= L /\ cut[d] = 0 /\ cut[Len(s)] = L /\ \A i \in 1..Len(R) : P[i] = R[i]
      /\ isOpen => L = Len(R) + Len(U) + c
  BY ONLY <1>1 DEF Flow
<1>4. d = Len(s) => Len(R) = 0
  BY <1>2, <1>3
<1>5. ASSUME d < Len(s)
      PROVE  /\ s[d + 1] \in Messages /\ FrameAt(P, 0, s[d + 1], Checked(new, d + 1))
             /\ FrameLen(s[d + 1], Checked(new, d + 1)) <= L
  <2>1. d + 1 \in (d + 1)..Len(s) /\ (d + 1) - 1 = d /\ d + 1 \in d..Len(s) /\ Len(s) \in d..Len(s) /\ d + 1 \in 1..Len(s)
    BY <1>2, <1>5
  <2>2. s[d + 1] \in Messages
    BY <1>2, <2>1
  <2>3. /\ cut[d + 1] = cut[(d + 1) - 1] + FrameLen(s[d + 1], Checked(new, d + 1))
        /\ FrameAt(P, cut[(d + 1) - 1], s[d + 1], Checked(new, d + 1))
        /\ cut[d + 1] <= cut[Len(s)]
    <3>1. /\ \A i, j \in d..Len(s) : i <= j => cut[i] <= cut[j]
          /\ \A i \in (d + 1)..Len(s) :
               /\ cut[i] = cut[i - 1] + FrameLen(s[i], Checked(new, i))
               /\ FrameAt(P, cut[i - 1], s[i], Checked(new, i))
      BY ONLY <1>1 DEF Flow
    <3>2. d + 1 <= Len(s)
      BY <1>2, <1>5
    <3> QED  BY ONLY <2>1, <3>1, <3>2
  <2>4. FrameLen(s[d + 1], Checked(new, d + 1)) \in Nat
    BY <2>2, FrameLenIs
  <2> QED  BY <1>3, <2>1, <2>2, <2>3, <2>4
<1>6. ASSUME isOpen, Len(U) = 0, c = 0, d < Len(s) PROVE Len(R) >= FrameLen(s[d + 1], Checked(new, d + 1))
  <2>1. FrameLen(s[d + 1], Checked(new, d + 1)) \in Nat
    BY <1>5, <1>6, FrameLenIs
  <2> QED  BY <1>2, <1>3, <1>5, <1>6, <2>1
<1> QED  BY <1>3, <1>4, <1>5, <1>6

\* Q is what is behind the first n of R.
Taken(Q, R, n) == IsSeq(Q) /\ Len(Q) + n = Len(R) /\ \A i \in 1..Len(Q) : Q[i] = R[n + i]

\* A message is taken.
LEMMA FlowTaken ==
  ASSUME NEW new, NEW s, NEW d, NEW R, NEW isOpen, NEW U, NEW S, NEW c, FlowOK(new, s, d, R, isOpen, U, S, c),
         d < Len(s), NEW n, n = FrameLen(s[d + 1], Checked(new, d + 1)),
         NEW Q, Taken(Q, R, n)
  PROVE  FlowOK(new, s, d + 1, Q, isOpen, U, S, c)
<1> IsSeq(Q) /\ Len(Q) + n = Len(R) /\ \A i \in 1..Len(Q) : Q[i] = R[n + i]
  BY DEF Taken
<1>1. PICK P, L, cut : Flow(new, s, d, R, isOpen, U, S, c, P, L, cut)
  BY DEF FlowOK
<1>2. /\ Len(R) \in Nat /\ Len(U) \in Nat /\ Len(Q) \in Nat /\ c \in Nat /\ d \in 0..Len(s) /\ Len(s) \in Nat
      /\ \A i \in 1..Len(s) : s[i] \in Messages
  BY SeqIs, LenProperties DEF FlowOK
<1> DEFINE k == Len(s)
<1>3. k \in Nat /\ d \in Nat /\ d + 1 \in 1..k /\ d + 1 \in 0..k
  BY <1>2
<1>4. n \in Nat
  BY <1>2, <1>3, FrameLenIs
<1>5. /\ L \in Nat /\ cut \in [Nat -> Nat] /\ cut[k] = L /\ Len(R) <= L
      /\ \A i, j \in d..k : i <= j => cut[i] <= cut[j]
      /\ \A i \in 1..Len(R) : P[i] = R[i]
      /\ isOpen => L = Len(R) + Len(U) + c
      /\ isOpen => \A i \in 1..Len(U) : P[Len(R) + i] = U[i]
      /\ isOpen => \A i \in 1..c : P[Len(R) + Len(U) + i] = S[i]
  BY ONLY <1>1 DEF Flow
<1>6. ASSUME NEW i \in (d + 1)..k
      PROVE  /\ cut[i] = cut[i - 1] + FrameLen(s[i], Checked(new, i))
             /\ FrameAt(P, cut[i - 1], s[i], Checked(new, i))
  BY <1>1 DEF Flow
<1>7. cut[d + 1] = n
  <2>1. d + 1 \in (d + 1)..k /\ (d + 1) - 1 = d /\ cut[d] = 0
    BY <1>1, <1>3 DEF Flow
  <2> QED  BY <1>4, <1>6, <2>1
<1> HIDE DEF k
<1>8. \A i \in (d + 1)..k : i \in Nat /\ cut[i] \in Nat /\ n <= cut[i]
  <2>1. \A i \in (d + 1)..k : i \in d..k /\ d + 1 \in d..k /\ i \in Nat /\ d + 1 <= i
    BY <1>3
  <2> QED  BY <1>5, <1>7, <2>1
<1> DEFINE W == [i \in Nat |-> P[n + i]]
           cuts == [i \in Nat |-> IF n <= cut[i] THEN cut[i] - n ELSE 0]
<1>9. cuts \in [Nat -> Nat] /\ \A i \in (d + 1)..k : cuts[i] = cut[i] - n
  <2>1. \A i \in Nat : cut[i] \in Nat
    BY <1>5
  <2> QED  BY <1>4, <1>8, <2>1
<1>10. \A i \in Nat : W[i] = P[n + i]
  OBVIOUS
<1> HIDE DEF W, cuts
<1>11. k \in (d + 1)..k /\ d + 1 \in (d + 1)..k
  BY <1>3
<1>12. L - n \in Nat /\ cuts[d + 1] = 0 /\ cuts[k] = L - n
  <2>1. cuts[d + 1] = n - n /\ cuts[k] = L - n /\ n <= L
    BY <1>5, <1>7, <1>8, <1>9, <1>11
  <2>2. L \in Nat
    BY <1>5
  <2> QED  BY ONLY <1>4, <2>1, <2>2
<1>13. \A i, j \in (d + 1)..k : i <= j => cuts[i] <= cuts[j]
  <2> TAKE i, j \in (d + 1)..k
  <2>1. i \in d..k /\ j \in d..k
    BY <1>3
  <2>2. i <= j => cut[i] <= cut[j]
    BY <1>5, <2>1
  <2>3. cuts[i] = cut[i] - n /\ cuts[j] = cut[j] - n /\ cut[i] \in Nat /\ cut[j] \in Nat
    BY <1>8, <1>9
  <2> QED  BY ONLY <1>4, <2>2, <2>3
<1>14. ASSUME NEW i \in ((d + 1) + 1)..k
       PROVE  /\ cuts[i] = cuts[i - 1] + FrameLen(s[i], Checked(new, i))
              /\ FrameAt(W, cuts[i - 1], s[i], Checked(new, i))
  <2>1. i \in (d + 1)..k /\ i - 1 \in (d + 1)..k /\ i \in 1..k
    BY <1>3
  <2>2. s[i] \in Messages
    BY <1>2, <2>1 DEF k
  <2>3. FrameLen(s[i], Checked(new, i)) \in Nat
    BY <2>2, FrameLenIs
  <2>4. /\ cut[i] = cut[i - 1] + FrameLen(s[i], Checked(new, i))
        /\ FrameAt(P, cut[i - 1], s[i], Checked(new, i))
    BY <1>6, <2>1
  <2>5. /\ cuts[i] = cut[i] - n /\ cuts[i - 1] = cut[i - 1] - n /\ cut[i] \in Nat /\ cut[i - 1] \in Nat
        /\ n <= cut[i - 1]
    BY <1>8, <1>9, <2>1
  <2>6. cuts[i] = cuts[i - 1] + FrameLen(s[i], Checked(new, i)) /\ cuts[i - 1] \in Nat
    BY ONLY <1>4, <2>3, <2>4, <2>5
  <2>7. ASSUME NEW x \in 1..FrameLen(s[i], Checked(new, i)) PROVE W[cuts[i - 1] + x] = P[cut[i - 1] + x]
    <3> DEFINE y == cuts[i - 1] + x
    <3>1. x \in 1..FrameLen(s[i], Checked(new, i))
      BY <2>7
    <3>2. y \in Nat /\ n + y = cut[i - 1] + x
      BY ONLY <1>4, <2>3, <2>5, <2>6, <3>1
    <3> HIDE DEF y
    <3>3. W[y] = P[n + y]
      BY <1>10, <3>2
    <3> QED  BY <3>2, <3>3 DEF y
  <2>8. FrameAt(W, cuts[i - 1], s[i], Checked(new, i))
    <3>1. cut[i - 1] \in Nat /\ cuts[i - 1] \in Nat /\ FrameAt(P, cut[i - 1], s[i], Checked(new, i))
      BY <2>4, <2>5, <2>6
    <3> DEFINE from == cut[i - 1]
               to == cuts[i - 1]
               m == s[i]
               checked == Checked(new, i)
    <3>2. /\ from \in Nat /\ to \in Nat /\ FrameAt(P, from, m, checked) /\ m \in Messages
          /\ \A x \in 1..FrameLen(m, checked) : W[to + x] = P[from + x]
      BY <2>2, <2>7, <3>1
    <3> HIDE DEF from, to, m, checked
    <3>3. FrameAt(W, to, m, checked)
      BY ONLY <3>2, SameFrame
    <3> QED  BY <3>3 DEF to, m, checked
  <2> QED  BY <2>6, <2>8
<1>15. Len(Q) <= L - n /\ \A i \in 1..Len(Q) : W[i] = Q[i]
  <2>1. Len(Q) <= L - n
    BY ONLY <1>2, <1>4, <1>5, Len(Q) + n = Len(R)
  <2>2. ASSUME NEW i \in 1..Len(Q) PROVE W[i] = Q[i]
    <3>1. i \in Nat /\ n + i \in 1..Len(R)
      BY <1>2, <1>4
    <3> QED  BY <1>5, <1>10, <3>1
  <2> QED  BY <2>1, <2>2
<1>16. ASSUME isOpen
       PROVE  /\ L - n = Len(Q) + Len(U) + c
              /\ \A i \in 1..Len(U) : W[Len(Q) + i] = U[i]
              /\ \A i \in 1..c : W[Len(Q) + Len(U) + i] = S[i]
  <2>1. /\ L = Len(R) + Len(U) + c /\ \A i \in 1..Len(U) : P[Len(R) + i] = U[i]
        /\ \A i \in 1..c : P[Len(R) + Len(U) + i] = S[i]
    BY <1>5, <1>16
  <2>2. L - n = Len(Q) + Len(U) + c
    <3>1. L = Len(R) + Len(U) + c
      BY <2>1
    <3> QED  BY ONLY <1>2, <1>4, <3>1, Len(Q) + n = Len(R)
  <2>3. ASSUME NEW i \in 1..Len(U) PROVE W[Len(Q) + i] = U[i]
    <3> DEFINE y == Len(Q) + i
    <3>1. y \in Nat /\ n + y = Len(R) + i
      <4>1. i \in 1..Len(U)
        BY <2>3
      <4> QED  BY ONLY <1>2, <1>4, <4>1, Len(Q) + n = Len(R)
    <3> HIDE DEF y
    <3>2. W[y] = P[n + y]
      BY <1>10, <3>1
    <3> QED  BY <2>1, <3>1, <3>2 DEF y
  <2>4. ASSUME NEW i \in 1..c PROVE W[Len(Q) + Len(U) + i] = S[i]
    <3> DEFINE y == Len(Q) + Len(U) + i
    <3>1. y \in Nat /\ n + y = Len(R) + Len(U) + i
      <4>1. i \in 1..c
        BY <2>4
      <4> QED  BY ONLY <1>2, <1>4, <4>1, Len(Q) + n = Len(R)
    <3> HIDE DEF y
    <3>2. W[y] = P[n + y]
      BY <1>10, <3>1
    <3> QED  BY <2>1, <3>1, <3>2 DEF y
  <2> QED  BY <2>2, <2>3, <2>4
<1>17. Flow(new, s, d + 1, Q, isOpen, U, S, c, W, L - n, cuts)
  BY ONLY <1>9, <1>12, <1>13, <1>14, <1>15, <1>16 DEF Flow, k
<1> QED  BY <1>3, <1>17 DEF FlowOK, k

\* One byte and two.
LEMMA FewBytes ==
  /\ \A x : IsSeq(<<x>>) /\ Len(<<x>>) = 1 /\ <<x>>[1] = x
  /\ \A x, y : IsSeq(<<x, y>>) /\ Len(<<x, y>>) = 2 /\ <<x, y>>[1] = x /\ <<x, y>>[2] = y
<1>1. ASSUME NEW x PROVE IsSeq(<<x>>) /\ Len(<<x>>) = 1 /\ <<x>>[1] = x
  <2>1. <<x>> \in Seq({x}) /\ Len(<<x>>) = 1 /\ <<x>>[1] = x
    OBVIOUS
  <2> QED  BY <2>1, AnySeq
<1>2. ASSUME NEW x, NEW y PROVE IsSeq(<<x, y>>) /\ Len(<<x, y>>) = 2 /\ <<x, y>>[1] = x /\ <<x, y>>[2] = y
  <2>1. <<x, y>> \in Seq({x, y}) /\ Len(<<x, y>>) = 2 /\ <<x, y>>[1] = x /\ <<x, y>>[2] = y
    OBVIOUS
  <2> QED  BY <2>1, AnySeq
<1> QED  BY <1>1, <1>2

\* A header, before it is filled in.
LEMMA HeaderIs ==
  ASSUME NEW command, NEW v
  PROVE  /\ IsSeq(Header(command, v)) /\ Len(Header(command, v)) = HeadLen(HasChecksum(v))
         /\ Header(command, v)[1] = 8 /\ Header(command, v)[2] = 9 /\ Header(command, v)[3] = command
<1> DEFINE a == pchMessageStart
           b == <<command, 0>>
           c == IF HasChecksum(v) THEN <<0>> ELSE <<>>
<1>1. IsSeq(a) /\ Len(a) = 2 /\ a[1] = 8 /\ a[2] = 9
  BY FewBytes DEF pchMessageStart
<1>2. IsSeq(b) /\ Len(b) = 2 /\ b[1] = command
  BY FewBytes
<1>3. IsSeq(c) /\ Len(c) = HeadLen(HasChecksum(v)) - 4
  <2>1. CASE HasChecksum(v)
    <3>1. IsSeq(<<0>>) /\ Len(<<0>>) = 1
      BY FewBytes
    <3> QED  BY <2>1, <3>1 DEF HeadLen
  <2>2. CASE ~HasChecksum(v)
    BY <2>2, NoneIs DEF HeadLen
  <2> QED  BY <2>1, <2>2
<1>4. Header(command, v) = a \o b \o c
  BY DEF Header
<1> HIDE DEF a, b, c
<1> DEFINE d == a \o b
           e == d \o c
<1>5. IsSeq(d) /\ Len(d) = 4 /\ d[1] = 8 /\ d[2] = 9 /\ d[3] = command
  <2>1. /\ IsSeq(d) /\ Len(d) = Len(a) + Len(b) /\ \A i \in 1..Len(a) : d[i] = a[i]
        /\ \A i \in 1..Len(b) : d[Len(a) + i] = b[i]
    <3>1. IsSeq(a) /\ IsSeq(b)
      BY <1>1, <1>2
    <3> QED  BY <3>1, ConcatIs
  <2> HIDE DEF d
  <2>2. 1 \in 1..Len(a) /\ 2 \in 1..Len(a) /\ 1 \in 1..Len(b) /\ Len(a) + 1 = 3
    BY <1>1, <1>2
  <2>3. d[Len(a) + 1] = command
    BY <1>2, <2>1, <2>2
  <2> QED  BY <1>1, <1>2, <2>1, <2>2, <2>3
<1>6. IsSeq(e) /\ Len(e) = HeadLen(HasChecksum(v)) /\ e[1] = 8 /\ e[2] = 9 /\ e[3] = command
  <2> HIDE DEF d
  <2>1. IsSeq(e) /\ Len(e) = Len(d) + Len(c) /\ \A i \in 1..Len(d) : e[i] = d[i]
    <3>1. IsSeq(c) /\ IsSeq(d)
      BY <1>3, <1>5
    <3> QED  BY <3>1, ConcatIs
  <2> HIDE DEF e
  <2>2. HeadLen(HasChecksum(v)) \in Nat
    BY DEF HeadLen
  <2>3. Len(e) = HeadLen(HasChecksum(v))
    BY <1>3, <1>5, <2>1, <2>2
  <2>4. 1 \in 1..Len(d) /\ 2 \in 1..Len(d) /\ 3 \in 1..Len(d)
    BY <1>5
  <2> QED  BY <1>5, <2>1, <2>3, <2>4
<1> QED  BY <1>4, <1>6

\* A message in its frame.
LEMMA FramedIs ==
  ASSUME NEW m \in Messages, NEW v
  PROVE  /\ IsSeq(Framed(m, v)) /\ Len(Framed(m, v)) = FrameLen(m, HasChecksum(v))
         /\ FrameAt(Framed(m, v), 0, m, HasChecksum(v))
<1> DEFINE header == Header(m.command, v)
           sized == [header EXCEPT ![4] = Len(m.data)]
           full == IF HasChecksum(v) THEN [sized EXCEPT ![5] = Hash(m.data)] ELSE sized
           h == HeadLen(HasChecksum(v))
           bs == full \o m.data
<1>1. IsSeq(m.data) /\ Len(m.data) \in Nat
  BY AnySeq, LenProperties DEF Messages
<1>2. h \in 4..5 /\ (HasChecksum(v) => h = 5)
  <2>1. h = 4 \/ h = 5
    BY DEF HeadLen
  <2>2. HasChecksum(v) => h = 5
    BY DEF HeadLen
  <2> QED  BY <2>1, <2>2
<1>3. /\ header = [i \in 1..h |-> header[i]]
      /\ header[1] = 8 /\ header[2] = 9 /\ header[3] = m.command
  BY HeaderIs, SeqIs
<1>4. Framed(m, v) = bs
  BY DEF Framed
<1> HIDE DEF header, h
<1>5. /\ sized = [i \in 1..h |-> sized[i]]
      /\ sized[1] = 8 /\ sized[2] = 9 /\ sized[3] = m.command /\ sized[4] = Len(m.data)
  <2>1. \A i \in 1..h : sized[i] = IF i = 4 THEN Len(m.data) ELSE header[i]
    BY <1>3
  <2>2. 1 \in 1..h /\ 2 \in 1..h /\ 3 \in 1..h /\ 4 \in 1..h
    BY <1>2
  <2>3. sized = [i \in 1..h |-> sized[i]]
    BY <1>3
  <2> HIDE DEF sized
  <2> QED  BY <1>3, <2>1, <2>2, <2>3
<1> HIDE DEF sized
<1>6. /\ full = [i \in 1..h |-> full[i]]
      /\ full[1] = 8 /\ full[2] = 9 /\ full[3] = m.command /\ full[4] = Len(m.data)
      /\ HasChecksum(v) => full[5] = Hash(m.data)
  <2>1. CASE HasChecksum(v)
    <3> DEFINE g == [sized EXCEPT ![5] = Hash(m.data)]
    <3>1. \A i \in 1..h : g[i] = IF i = 5 THEN Hash(m.data) ELSE sized[i]
      BY <1>5
    <3>2. 1 \in 1..h /\ 2 \in 1..h /\ 3 \in 1..h /\ 4 \in 1..h /\ 5 \in 1..h
      BY <1>2, <2>1
    <3>3. g = [i \in 1..h |-> g[i]]
      BY <1>5
    <3>4. full = g
      BY <2>1
    <3> HIDE DEF g, full
    <3> QED  BY <1>5, <3>1, <3>2, <3>3, <3>4
  <2>2. CASE ~HasChecksum(v)
    <3>1. full = sized
      BY <2>2
    <3> HIDE DEF full
    <3> QED  BY <1>5, <2>2, <3>1
  <2> QED  BY <2>1, <2>2
<1> HIDE DEF full
<1>7. IsSeq(full) /\ Len(full) = h /\ h \in Nat
  BY <1>2, <1>6, FirstNumbers
<1>8. /\ IsSeq(bs) /\ Len(bs) = h + Len(m.data)
      /\ \A i \in 1..h : bs[i] = full[i] /\ \A j \in 1..Len(m.data) : bs[h + j] = m.data[j]
  <2>1. /\ IsSeq(bs) /\ Len(bs) = Len(full) + Len(m.data)
        /\ \A i \in 1..Len(full) : bs[i] = full[i]
        /\ \A j \in 1..Len(m.data) : bs[Len(full) + j] = m.data[j]
    <3> DEFINE data == m.data
    <3>1. IsSeq(full) /\ IsSeq(data)
      BY <1>1, <1>7
    <3> HIDE DEF data
    <3>2. /\ IsSeq(full \o data) /\ Len(full \o data) = Len(full) + Len(data)
          /\ \A i \in 1..Len(full) : (full \o data)[i] = full[i]
          /\ \A i \in 1..Len(data) : (full \o data)[Len(full) + i] = data[i]
      BY ONLY <3>1, ConcatIs
    <3> QED  BY <3>2 DEF data
  <2> HIDE DEF bs
  <2> QED  BY <1>7, <2>1
<1> HIDE DEF bs
<1>9. FrameAt(bs, 0, m, HasChecksum(v))
  <2>1. 1 \in 1..h /\ 2 \in 1..h /\ 3 \in 1..h /\ 4 \in 1..h /\ (HasChecksum(v) => 5 \in 1..h)
    BY <1>2
  <2>2. /\ bs[0 + 1] = 8 /\ bs[0 + 2] = 9 /\ bs[0 + 3] = m.command /\ bs[0 + 4] = Len(m.data)
        /\ HasChecksum(v) => bs[0 + 5] = Hash(m.data)
    <3>1. bs[1] = full[1] /\ bs[2] = full[2] /\ bs[3] = full[3] /\ bs[4] = full[4]
      BY <1>8, <2>1
    <3>2. HasChecksum(v) => bs[5] = full[5]
      BY <1>8, <2>1
    <3> HIDE DEF full
    <3> QED  BY <1>6, <3>1, <3>2
  <2>3. ASSUME NEW j \in 1..Len(m.data) PROVE bs[0 + h + j] = m.data[j]
    <3>1. 0 + h + j = h + j /\ 1 \in 1..h
      BY <1>2
    <3> QED  BY <1>8, <3>1
  <2> QED  BY <2>2, <2>3 DEF FrameAt, h
<1> QED  BY <1>4, <1>8, <1>9 DEF FrameLen, h

-----------------------------------------------------------------------------
\* Where a message starts the scan finds its start, once there are two bytes of it.
LEMMA StartIsFound ==
  ASSUME NEW bs, IsSeq(bs), Len(bs) > 0, bs[1] = 8, Len(bs) > 1 => bs[2] = 9
  PROVE  IF Len(bs) = 1 THEN ScanForStart(bs) = 1 ELSE ScanForStart(bs) = 0
<1>1. IsSeq(pchMessageStart) /\ Len(pchMessageStart) = 2 /\ pchMessageStart[1] = 8 /\ pchMessageStart[2] = 9
  BY FewBytes DEF pchMessageStart
<1>2. Len(bs) \in Nat
  BY SeqIs
<1> DEFINE found == {i \in 0..Len(bs) - Len(pchMessageStart) : StartsAt(bs, i)}
<1>3. ScanForStart(bs) = IF found = {} THEN Len(bs) ELSE CHOOSE i \in found : \A j \in found : i <= j
  BY DEF ScanForStart
<1>4. CASE Len(bs) = 1
  <2>1. found = {}
    BY <1>1, <1>4
  <2> HIDE DEF found
  <2> QED  BY <1>3, <1>4, <2>1
<1>5. CASE Len(bs) # 1
  <2>1. Len(bs) >= 2
    BY <1>2, <1>5
  <2>2. SubSeq(bs, 0 + 1, 2) = pchMessageStart
    <3> DEFINE t == SubSeq(bs, 0 + 1, 2)
    <3>1. IsSeq(t) /\ Len(t) = 2 - 0 /\ \A i \in 1..(2 - 0) : t[i] = bs[0 + i]
      BY <2>1, PartIs
    <3> HIDE DEF t
    <3>2. Len(t) = 2 /\ t[1] = 8 /\ t[2] = 9
      BY <2>1, <3>1
    <3>3. \A i \in 1..2 : t[i] = pchMessageStart[i]
      <4>1. \A i \in 1..2 : i = 1 \/ i = 2
        OBVIOUS
      <4> QED  BY <1>1, <3>2, <4>1
    <3> QED  BY <1>1, <3>1, <3>2, <3>3, SameSeq DEF t
  <2>3. 0 \in found
    <3>1. 0 \in 0..Len(bs) - Len(pchMessageStart)
      BY <1>1, <1>2, <2>1
    <3>2. StartsAt(bs, 0)
      <4>1. 0 + Len(pchMessageStart) = 2
        BY <1>1
      <4> QED  BY <2>2, <4>1 DEF StartsAt
    <3> QED  BY <3>1, <3>2
  <2>4. \A j \in found : j \in Nat
    BY <1>1, <1>2
  <2> HIDE DEF found
  <2>5. \A j \in found : 0 <= j
    BY <2>4
  <2>6. \A i \in found : (\A j \in found : i <= j) => i = 0
    BY <2>3, <2>4
  <2> DEFINE first == CHOOSE i \in found : \A j \in found : i <= j
  <2>7. first \in found /\ \A j \in found : first <= j
    BY <2>3, <2>5
  <2>8. first = 0
    BY <2>6, <2>7
  <2> QED  BY <1>3, <1>5, <2>3, <2>8
<1> QED  BY <1>4, <1>5

-----------------------------------------------------------------------------
\* What a turn of the loop does where a message starts: it takes the message if it is whole, and
\* waits for the rest of it otherwise.
LEMMA TurnIs ==
  ASSUME NEW n, NEW R, Has(vRecv[n], R), Len(R) > 0,
         NEW m \in Messages, NEW P, \A i \in 1..Len(R) : P[i] = R[i],
         NEW ck, ck <=> HasChecksum(recvVersion[n]), FrameAt(P, 0, m, ck), MAX_SIZE \in Nat
  PROVE  /\ Len(R) < FrameLen(m, ck) =>
              ~Turn(n).on /\ Turn(n).m.command = -1 /\ Has(Turn(n).rest, R)
         /\ Len(R) >= FrameLen(m, ck) =>
              /\ Turn(n).on /\ Turn(n).m = m
              /\ \E Q : Has(Turn(n).rest, Q) /\ Taken(Q, R, FrameLen(m, ck))
<1> DEFINE s == vRecv[n]
           h == HeaderSize(recvVersion[n])
           start == ScanForStart(Bytes(s))
           left == EraseFront(s, start)
           header == SubSeq(Bytes(left), 1, h)
           behind == Ignore(left, h)
           data == SubSeq(Bytes(behind), 1, header[4])
           none == [command |-> -1]
           Result(rest, on, x) == [rest |-> rest, on |-> on, m |-> x]
           f == FrameLen(m, ck)
           len == Len(m.data)
<1>1. /\ h = HeadLen(ck) /\ h \in 4..5 /\ (ck => h = 5) /\ len \in Nat /\ f = h + len /\ f \in Nat
  <2>1. h = HeadLen(ck) /\ (ck => HeadLen(ck) = 5)
    BY DEF HeaderSize, HeadLen
  <2>2. HeadLen(ck) \in 4..5 /\ len \in Nat /\ f \in Nat
    BY FrameLenIs
  <2> QED  BY <2>1, <2>2 DEF FrameLen
<1>2. /\ IsStream(s) /\ IsSeq(R) /\ Bytes(s) = R /\ Size(s) = Len(R) /\ Len(R) \in Nat
  BY SeqIs DEF Has
<1>3. /\ R[1] = 8 /\ (Len(R) > 1 => R[2] = 9)
      /\ Len(R) >= 4 => R[3] = m.command /\ R[4] = len
      /\ ck /\ Len(R) >= 5 => R[5] = Hash(m.data)
      /\ \A j \in 1..len : h + j <= Len(R) => R[h + j] = m.data[j]
  <2>1. /\ P[1] = 8 /\ P[2] = 9 /\ P[3] = m.command /\ P[4] = len /\ (ck => P[5] = Hash(m.data))
        /\ \A j \in 1..len : P[0 + h + j] = m.data[j]
    BY <1>1 DEF FrameAt
  <2>2. /\ 1 \in 1..Len(R) /\ (Len(R) > 1 => 2 \in 1..Len(R))
        /\ (Len(R) >= 4 => 3 \in 1..Len(R) /\ 4 \in 1..Len(R)) /\ (Len(R) >= 5 => 5 \in 1..Len(R))
    BY <1>2
  <2>3. ASSUME NEW j \in 1..len, h + j <= Len(R) PROVE R[h + j] = m.data[j]
    <3>1. h + j \in 1..Len(R) /\ 0 + h + j = h + j
      BY <1>1, <1>2, <2>3
    <3> QED  BY <2>1, <3>1
  <2> HIDE DEF h, len
  <2> QED  BY <2>1, <2>2, <2>3
<1>4. start = IF Len(R) = 1 THEN 1 ELSE 0
  BY <1>2, <1>3, StartIsFound
<1>5. Turn(n) =
        IF Size(s) - start < h
        THEN Result(IF Size(s) > h THEN EraseFront(s, Size(s) - h) ELSE s, FALSE, none)
        ELSE IF ~IsValid(header) THEN Result(behind, TRUE, none)
        ELSE IF header[4] > Size(behind) THEN Result(InsertFront(behind, header), FALSE, none)
        ELSE IF HasChecksum(recvVersion[n]) /\ Hash(data) # header[5] THEN Result(behind, TRUE, none)
        ELSE Result(Ignore(behind, header[4]), TRUE, Message(header[3], data))
  BY DEF Turn
<1> HIDE DEF start
<1>6. CASE Len(R) < h
  <2> HIDE DEF s, h, left, header, behind, data, f, len
  <2>1. Turn(n) = Result(s, FALSE, none)
    <3>1. Size(s) - start < h /\ ~(Size(s) > h)
      BY <1>1, <1>2, <1>4, <1>6
    <3> QED  BY <1>5, <3>1
  <2>2. Len(R) < f
    BY <1>1, <1>2, <1>6
  <2>3. ~Turn(n).on /\ Turn(n).m.command = -1 /\ Turn(n).rest = s
    BY <2>1
  <2>4. ~(Len(R) >= f)
    BY <1>1, <1>2, <2>2
  <2> QED  BY <2>3, <2>4 DEF s, f
<1>7. CASE ~(Len(R) < h)
  <2>1. Len(R) >= 4 /\ (ck => Len(R) >= 5) /\ start = 0 /\ ~(Size(s) - start < h) /\ h <= Len(R) /\ h \in Nat
    <3> HIDE DEF s, h
    <3> QED  BY <1>1, <1>2, <1>4, <1>7
  <2>2. Has(left, R)
    <3>1. 0 \in Nat /\ 0 <= Size(s)
      BY <1>2
    <3>2. Has(EraseFront(s, 0), SubSeq(Bytes(s), 0 + 1, Size(s)))
      BY <1>2, <3>1, EraseHas
    <3> DEFINE t == SubSeq(R, 0 + 1, Len(R))
    <3>3. IsSeq(t) /\ Len(t) = Len(R) - 0 /\ \A i \in 1..(Len(R) - 0) : t[i] = R[0 + i]
      BY <1>2, <3>1, PartIs
    <3>4. Bytes(s) = R /\ Size(s) = Len(R)
      BY <1>2
    <3> HIDE DEF t
    <3>5. Len(t) = Len(R) /\ \A i \in 1..Len(R) : t[i] = R[i]
      BY <1>2, <3>3
    <3>6. t = R
      BY <1>2, <3>3, <3>5, SameSeq
    <3> HIDE DEF s
    <3> QED  BY <2>1, <3>2, <3>4, <3>6 DEF t, left
  <2> DEFINE front == SubSeq(R, 0 + 1, h)
             tail == SubSeq(R, h + 1, Len(R))
  <2>3. /\ header = front /\ IsSeq(front) /\ Len(front) = h
        /\ \A i \in 1..h : front[i] = R[i]
    <3>1. IsSeq(front) /\ Len(front) = h - 0 /\ \A i \in 1..(h - 0) : front[i] = R[0 + i]
      <4>1. 0 \in Nat /\ 0 <= h
        BY <2>1
      <4> QED  BY <1>2, <2>1, <4>1, PartIs
    <3>2. Bytes(left) = R
      BY <2>2 DEF Has
    <3> HIDE DEF left
    <3>3. header = front
      BY <3>2
    <3> HIDE DEF front, h, header
    <3> QED  BY <2>1, <3>1, <3>3
  <2>4. Has(behind, tail)
    <3>1. IsStream(left) /\ Bytes(left) = R /\ Size(left) = Len(R)
      BY <2>2 DEF Has
    <3> HIDE DEF left, h
    <3>2. Has(EraseFront(left, h), SubSeq(Bytes(left), h + 1, Size(left)))
      BY <2>1, <3>1, EraseHas
    <3> QED  BY <3>1, <3>2 DEF Ignore
  <2>5. IsSeq(tail) /\ Len(tail) = Len(R) - h /\ \A i \in 1..(Len(R) - h) : tail[i] = R[h + i]
    <3>1. h <= Len(R) /\ Len(R) <= Len(R)
      BY <1>2, <2>1
    <3> HIDE DEF h
    <3> QED  BY <1>2, <2>1, <3>1, PartIs
  <2> HIDE DEF h, left, header, behind, front, tail, s, f, len
  <2>6. header[3] = m.command /\ header[4] = len /\ (ck => header[5] = Hash(m.data))
    <3>1. 3 \in 1..h /\ 4 \in 1..h /\ (ck => 5 \in 1..h)
      BY <1>1
    <3> QED  BY <1>3, <2>1, <2>3, <3>1
  <2>7. IsValid(header)
    <3>1. m.command \in Commands /\ len <= MAX_SIZE
      BY DEF Messages, len
    <3> QED  BY <2>6, <3>1 DEF IsValid
  <2>8. IsStream(behind) /\ Bytes(behind) = tail /\ Size(behind) = Len(R) - h
    BY <2>4, <2>5 DEF Has
  <2>9. Turn(n) =
          IF len > Len(R) - h THEN Result(InsertFront(behind, header), FALSE, none)
          ELSE IF ck /\ Hash(data) # header[5] THEN Result(behind, TRUE, none)
          ELSE Result(Ignore(behind, len), TRUE, Message(m.command, data))
    <3> HIDE DEF data
    <3> QED  BY <1>5, <2>1, <2>6, <2>7, <2>8
  <2>10. CASE len > Len(R) - h
    <3>1. Turn(n) = Result(InsertFront(behind, header), FALSE, none)
      BY <2>9, <2>10
    <3>2. ~Turn(n).on /\ Turn(n).m.command = -1 /\ Turn(n).rest = InsertFront(behind, header)
      BY <3>1
    <3>3. Has(InsertFront(behind, header), front \o tail)
      BY <2>3, <2>8, InsertHas
    <3> DEFINE both == front \o tail
    <3>4. /\ IsSeq(both) /\ Len(both) = h + Len(tail)
          /\ \A i \in 1..h : both[i] = front[i]
          /\ \A i \in 1..Len(tail) : both[h + i] = tail[i]
      <4>1. /\ IsSeq(both) /\ Len(both) = Len(front) + Len(tail)
            /\ \A i \in 1..Len(front) : both[i] = front[i]
            /\ \A i \in 1..Len(tail) : both[Len(front) + i] = tail[i]
        BY <2>3, <2>5, ConcatIs
      <4> HIDE DEF both
      <4> QED  BY <2>3, <4>1
    <3> HIDE DEF both
    <3>5. Len(both) = Len(R)
      BY <1>2, <2>1, <2>5, <3>4
    <3>6. ASSUME NEW i \in 1..Len(R) PROVE both[i] = R[i]
      <4>1. CASE i <= h
        <5>1. i \in 1..h
          BY <2>1, <4>1
        <5> QED  BY <2>3, <3>4, <5>1
      <4>2. CASE ~(i <= h)
        <5> DEFINE j == i - h
        <5>1. j \in 1..(Len(R) - h) /\ j \in 1..Len(tail) /\ h + j = i
          BY <1>2, <2>1, <2>5, <4>2
        <5> HIDE DEF j
        <5>2. both[h + j] = tail[j] /\ tail[j] = R[h + j]
          BY <2>5, <3>4, <5>1
        <5> QED  BY <5>1, <5>2
      <4> QED  BY <4>1, <4>2
    <3>7. both = R
      BY <1>2, <3>4, <3>5, <3>6, SameSeq
    <3>8. ~(Len(R) >= f)
      BY <1>1, <1>2, <2>10
    <3> QED  BY <3>2, <3>3, <3>7, <3>8 DEF both, f
  <2>11. CASE ~(len > Len(R) - h)
    <3>1. len <= Len(R) - h /\ Len(R) >= f
      BY <1>1, <1>2, <2>11
    <3>2. data = m.data
      <4> DEFINE t == SubSeq(tail, 0 + 1, len)
      <4>1. IsSeq(t) /\ Len(t) = len - 0 /\ \A i \in 1..(len - 0) : t[i] = tail[0 + i]
        <5>1. 0 \in Nat /\ 0 <= len /\ len <= Len(tail) /\ len \in Nat /\ IsSeq(tail)
          BY <1>1, <2>5, <3>1
        <5> HIDE DEF len
        <5> QED  BY ONLY <5>1, PartIs
      <4>2. data = t
        BY <2>6, <2>8
      <4> HIDE DEF t, data
      <4>3. Len(t) = len
        BY <1>1, <4>1
      <4>4. ASSUME NEW i \in 1..len PROVE t[i] = m.data[i]
        <5>1. i \in 1..(len - 0) /\ 0 + i = i /\ i \in 1..(Len(R) - h) /\ h + i <= Len(R)
          BY <1>1, <1>2, <2>1, <3>1
        <5>2. t[i] = tail[i] /\ tail[i] = R[h + i]
          BY <2>5, <4>1, <5>1
        <5> QED  BY <1>3, <5>1, <5>2
      <4>5. IsSeq(m.data) /\ Len(m.data) = len
        BY AnySeq DEF Messages, len
      <4> QED  BY <4>1, <4>2, <4>3, <4>4, <4>5, SameSeq
    <3> HIDE DEF data
    <3>3. Turn(n) = Result(Ignore(behind, len), TRUE, Message(m.command, data))
      BY <2>6, <2>9, <2>11, <3>2
    <3>4. Message(m.command, data) = m
      BY <3>2 DEF Message, Messages
    <3>5. Turn(n).on /\ Turn(n).m = m /\ Turn(n).rest = Ignore(behind, len)
      BY <3>3, <3>4
    <3> DEFINE Q == SubSeq(tail, len + 1, Len(tail))
    <3>6. len <= Len(tail) /\ Len(tail) <= Len(tail) /\ Len(tail) \in Nat
      BY <1>1, <1>2, <2>1, <2>5, <3>1
    <3>7. IsSeq(Q) /\ Len(Q) = Len(tail) - len /\ \A i \in 1..(Len(tail) - len) : Q[i] = tail[len + i]
      BY <1>1, <2>5, <3>6, PartIs
    <3>8. Has(Ignore(behind, len), Q)
      <4>1. Has(EraseFront(behind, len), SubSeq(Bytes(behind), len + 1, Size(behind)))
        <5>1. len \in Nat /\ len <= Size(behind)
          BY <1>1, <2>8, <3>1
        <5> QED  BY <2>8, <5>1, EraseHas
      <4>2. Bytes(behind) = tail /\ Size(behind) = Len(tail)
        BY <2>5, <2>8
      <4> QED  BY <4>1, <4>2 DEF Ignore
    <3> HIDE DEF Q
    <3>9. /\ h \in Nat /\ len \in Nat /\ Len(R) \in Nat /\ Len(tail) \in Nat /\ f = h + len
          /\ Len(tail) = Len(R) - h /\ Len(Q) = Len(tail) - len /\ len <= Len(tail)
      BY <1>1, <1>2, <2>1, <2>5, <3>6, <3>7
    <3>10. Len(Q) + f = Len(R)
      BY ONLY <3>9
    <3>11. ASSUME NEW i \in 1..Len(Q) PROVE Q[i] = R[f + i]
      <4> DEFINE j == len + i
      <4>1. i \in 1..(Len(tail) - len) /\ j \in 1..(Len(R) - h) /\ h + j = f + i
        BY ONLY <3>9, i \in 1..Len(Q)
      <4>2. Q[i] = tail[j]
        BY <3>7, <4>1
      <4> HIDE DEF j
      <4>3. tail[j] = R[h + j]
        BY <2>5, <4>1
      <4> QED  BY <4>1, <4>2, <4>3
    <3>12. ~(Len(R) < f)
      BY <1>1, <1>2, <3>1
    <3>13. Taken(Q, R, f)
      BY <3>7, <3>11, <3>10 DEF Taken
    <3> QED  BY <3>1, <3>5, <3>8, <3>12, <3>13 DEF f
  <2> QED  BY <2>10, <2>11
<1> QED  BY <1>6, <1>7

-----------------------------------------------------------------------------
(* The connection as a whole. *)
OnEnds(f) == f = [n \in Ends |-> f[n]]
OnThreads(f) == f = [t \in Threads |-> f[t]]

\* The data of a message that was begun are behind a header with room for its size and checksum.
Begun(S, a, b, size, m, checked) ==
  /\ m \in Messages /\ a \in Nat /\ b = a + HeadLen(checked) /\ size = a + FrameLen(m, checked)
  /\ S[a + 1] = 8 /\ S[a + 2] = 9 /\ S[a + 3] = m.command
  /\ \A j \in 1..Len(m.data) : S[b + j] = m.data[j]

EndIs(n) ==
  /\ IsStream(vSend[n]) /\ IsStream(vRecv[n]) /\ IsSeq(underway[n])
  /\ sent[n] \in Seq(Messages) /\ delivered[n] \in Seq(Messages)
  /\ OnThreads(todo[n]) /\ OnThreads(step[n])
  /\ \A t \in Threads : todo[n][t] \in Seq(Messages \cup {SetVersion})

\* Who holds cs_vSend has begun its message.
HoldIs(n) ==
  /\ holder[n] \in Threads \cup {"none"}
  /\ \A t \in Threads : step[n][t] = "end" <=> holder[n] = t
  /\ \A t \in Threads : holder[n] = t =>
       /\ todo[n][t] # <<>>
       /\ Begun(Bytes(vSend[n]), nHeaderStart[n], nMessageStart[n], Size(vSend[n]), Head(todo[n][t]),
                HasChecksum(sendVersion[n]))

\* How much of vSend is complete.
Clean(n) == IF holder[n] = "none" THEN Size(vSend[n]) ELSE nHeaderStart[n]
FlowIs(n) ==
  /\ FlowOK(past, sent[Peer(n)], Len(delivered[n]), Bytes(vRecv[n]), hSocket[n], underway[n],
            Bytes(vSend[Peer(n)]), Clean(Peer(n)))
  /\ \A i \in 1..Len(delivered[n]) : delivered[n][i] = sent[Peer(n)][i]

\* Of old: how far the answer to a version has come.
Stage(q, sentLen, v) ==
  \/ q = <<OurVersion, Verack, SetVersion, Ping>> /\ sentLen = 0 /\ v = 0
  \/ q = <<Verack, SetVersion, Ping>> /\ sentLen = 1 /\ v = 0
  \/ q = <<SetVersion, Ping>> /\ sentLen = 2 /\ v = 0
  \/ q = <<Ping>> /\ sentLen = 2 /\ v = VERSION
  \/ q = <<>> /\ sentLen = 3 /\ v = VERSION
Spoken(i) == CASE i = 1 -> OurVersion [] i = 2 -> Verack [] i = 3 -> Ping
OldIs(n) ==
  /\ todo[n]["ui"] = <<>>
  /\ Len(sent[n]) <= 3 /\ \A i \in 1..Len(sent[n]) : sent[n][i] = Spoken(i)
  /\ recvVersion[n] = IF Len(delivered[n]) >= 2 THEN VERSION ELSE 0
  /\ nVersion[n] = 0 <=> Len(delivered[n]) = 0
  /\ nVersion[n] = 0 => /\ todo[n]["msg"] = <<>> /\ sendVersion[n] = 0
                        /\ Len(sent[n]) = IF n = Outbound THEN 1 ELSE 0
  /\ nVersion[n] # 0 => Stage(todo[n]["msg"], Len(sent[n]), sendVersion[n])
VersionIs(n) ==
  /\ past => HasChecksum(sendVersion[n]) /\ HasChecksum(recvVersion[n])
  /\ ~past => OldIs(n)

WireInv ==
  /\ OnEnds(vSend) /\ OnEnds(vRecv) /\ OnEnds(sendVersion) /\ OnEnds(recvVersion)
  /\ OnEnds(nHeaderStart) /\ OnEnds(nMessageStart) /\ OnEnds(holder) /\ OnEnds(todo) /\ OnEnds(step)
  /\ OnEnds(nVersion) /\ OnEnds(hSocket) /\ OnEnds(underway) /\ OnEnds(sent) /\ OnEnds(delivered)
  /\ \A n \in Ends : EndIs(n) /\ HoldIs(n) /\ FlowIs(n) /\ VersionIs(n)

\* Two ends.
LEMMA Peers ==
  ASSUME WireAssumption, NEW n \in Ends
  PROVE  /\ Peer(n) \in Ends /\ Peer(n) # n /\ Peer(Peer(n)) = n
         /\ \A m \in Ends : m # n => m = Peer(n)
<1>1. PICK a \in Ends, b \in Ends : a # b /\ Ends = {a, b}
  BY DEF WireAssumption
<1>2. \A x \in Ends : \E m \in Ends : m # x
  BY <1>1
<1>3. \A x \in Ends : Peer(x) \in Ends /\ Peer(x) # x
  BY <1>2 DEF Peer
<1>4. \A x, y, z \in Ends : x # y /\ z # y => x = z
  BY <1>1
<1> HIDE DEF Peer
<1>5. Peer(n) \in Ends /\ Peer(n) # n /\ Peer(Peer(n)) \in Ends /\ Peer(Peer(n)) # Peer(n)
  BY <1>3
<1> QED  BY <1>4, <1>5

\* What was said of a form of the header that is the same.
LEMMA SameForm ==
  ASSUME NEW a, NEW b, a <=> b
  PROVE  /\ HeadLen(a) = HeadLen(b) /\ \A m : FrameLen(m, a) = FrameLen(m, b)
         /\ \A P, at, m : FrameAt(P, at, m, a) <=> FrameAt(P, at, m, b)
<1>1. HeadLen(a) = HeadLen(b)
  BY DEF HeadLen
<1> HIDE DEF HeadLen
<1>2. ASSUME NEW P, NEW at, NEW m PROVE FrameAt(P, at, m, a) <=> FrameAt(P, at, m, b)
  BY <1>1 DEF FrameAt
<1>3. \A m : FrameLen(m, a) = FrameLen(m, b)
  BY <1>1 DEF FrameLen
<1> QED  BY <1>1, <1>2, <1>3

\* What is not complete may change.
LEMMA FlowKept ==
  ASSUME NEW new, NEW s, NEW d, NEW R, NEW isOpen, NEW U, NEW S, NEW c, FlowOK(new, s, d, R, isOpen, U, S, c),
         NEW T, \A i \in 1..c : T[i] = S[i]
  PROVE  FlowOK(new, s, d, R, isOpen, U, T, c)
<1>1. PICK P, L, cut : Flow(new, s, d, R, isOpen, U, S, c, P, L, cut)
  BY DEF FlowOK
<1>2. Flow(new, s, d, R, isOpen, U, T, c, P, L, cut)
  BY <1>1 DEF Flow
<1> QED  BY <1>2 DEF FlowOK

\* The messages of the handshake.
LEMMA Words ==
  ASSUME WireAssumption
  PROVE  /\ OurVersion \in Messages /\ Verack \in Messages /\ Ping \in Messages /\ SetVersion \notin Messages
         /\ OurVersion.command = 1 /\ Verack.command = 2 /\ Ping.command = 3
         /\ SetVersion # OurVersion /\ SetVersion # Verack /\ SetVersion # Ping
<1>1. MAX_SIZE \in Nat /\ MAX_SIZE >= 1
  BY DEF WireAssumption
<1>2. <<3>> \in Seq(Nat) /\ Len(<<3>>) = 1 /\ <<>> \in Seq(Nat) /\ Len(<<>>) = 0
  OBVIOUS
<1>3. OurVersion = [command |-> 1, data |-> <<3>>] /\ Verack = [command |-> 2, data |-> <<>>]
      /\ Ping = [command |-> 3, data |-> <<>>] /\ SetVersion = [command |-> 0, data |-> <<>>]
  BY DEF OurVersion, Verack, Ping, SetVersion, Message
<1>4. 1 \in Commands /\ 2 \in Commands /\ 3 \in Commands /\ 0 \notin Commands
  BY DEF Commands
<1>5. OurVersion \in Messages /\ Verack \in Messages /\ Ping \in Messages
  BY <1>1, <1>2, <1>3, <1>4 DEF Messages
<1>6. OurVersion.command = 1 /\ Verack.command = 2 /\ Ping.command = 3 /\ SetVersion.command = 0
  BY <1>3
<1>7. SetVersion \notin Messages
  BY <1>4, <1>6 DEF Messages
<1> QED  BY <1>5, <1>6, <1>7

\* A message that was begun behind what the stream has.
LEMMA BegunIs ==
  ASSUME NEW m \in Messages, NEW v, NEW S, IsSeq(S)
  PROVE  LET bs == Header(m.command, v) \o m.data
             T == S \o bs
         IN  /\ IsSeq(bs) /\ \A i \in 1..Len(S) : T[i] = S[i]
             /\ Begun(T, Len(S), Len(S) + Len(Header(m.command, v)), Len(T), m, HasChecksum(v))
<1> DEFINE header == Header(m.command, v)
           bs == header \o m.data
           T == S \o bs
           h == HeadLen(HasChecksum(v))
           len == Len(m.data)
           a == Len(S)
<1>1. IsSeq(header) /\ Len(header) = h /\ header[1] = 8 /\ header[2] = 9 /\ header[3] = m.command
  BY HeaderIs
<1>2. IsSeq(m.data) /\ len \in Nat /\ a \in Nat /\ h \in 4..5
  BY AnySeq, SeqIs, FrameLenIs DEF Messages
<1> HIDE DEF header, h
<1>3. /\ IsSeq(bs) /\ Len(bs) = h + len
      /\ \A i \in 1..h : bs[i] = header[i]
      /\ \A j \in 1..len : bs[h + j] = m.data[j]
  <2>1. /\ IsSeq(bs) /\ Len(bs) = Len(header) + len
        /\ \A i \in 1..Len(header) : bs[i] = header[i]
        /\ \A j \in 1..len : bs[Len(header) + j] = m.data[j]
    <3> DEFINE data == m.data
    <3>1. IsSeq(header) /\ IsSeq(data)
      BY <1>1, <1>2
    <3> HIDE DEF data
    <3>2. /\ IsSeq(header \o data) /\ Len(header \o data) = Len(header) + Len(data)
          /\ \A i \in 1..Len(header) : (header \o data)[i] = header[i]
          /\ \A i \in 1..Len(data) : (header \o data)[Len(header) + i] = data[i]
      BY ONLY <3>1, ConcatIs
    <3> QED  BY <3>2 DEF data
  <2> HIDE DEF bs, len
  <2> QED  BY <1>1, <2>1
<1> HIDE DEF bs
<1>4. /\ IsSeq(T) /\ Len(T) = a + Len(bs)
      /\ \A i \in 1..a : T[i] = S[i]
      /\ \A i \in 1..Len(bs) : T[a + i] = bs[i]
  <2>1. IsSeq(S) /\ IsSeq(bs)
    BY <1>3
  <2> QED  BY ONLY <2>1, ConcatIs
<1> HIDE DEF T, len, a
<1>5. T[a + 1] = 8 /\ T[a + 2] = 9 /\ T[a + 3] = m.command
  <2>1. /\ 1 \in 1..h /\ 2 \in 1..h /\ 3 \in 1..h
        /\ 1 \in 1..Len(bs) /\ 2 \in 1..Len(bs) /\ 3 \in 1..Len(bs)
    BY <1>2, <1>3
  <2> QED  BY <1>1, <1>3, <1>4, <2>1
<1>6. ASSUME NEW j \in 1..len PROVE T[(a + h) + j] = m.data[j]
  <2> DEFINE k == h + j
  <2>1. k \in 1..Len(bs) /\ a + k = (a + h) + j
    BY <1>2, <1>3
  <2>2. bs[k] = m.data[j]
    BY <1>3
  <2> HIDE DEF k
  <2> QED  BY <1>4, <2>1, <2>2
<1>7. Len(T) = a + (h + len)
  BY <1>3, <1>4
<1>8. Begun(T, a, a + h, Len(T), m, HasChecksum(v))
  BY <1>2, <1>5, <1>6, <1>7 DEF Begun, FrameLen, h, len
<1> QED  BY <1>1, <1>3, <1>4, <1>8 DEF T, a, bs, header

\* What EndMessage makes of vSend.
Ended(s, a, b, v) ==
  LET data == SubSeq(Bytes(s), b + 1, Size(s))
      sized == Overwrite(s, a + 4, Len(data))
  IN  IF HasChecksum(v) THEN Overwrite(sized, a + 5, Hash(data)) ELSE sized

\* A message that is ended is a frame.
LEMMA EndedIs ==
  ASSUME NEW s, IsStream(s), NEW a, NEW b, NEW m, NEW v,
         Begun(Bytes(s), a, b, Size(s), m, HasChecksum(v))
  PROVE  \E T : /\ Has(Ended(s, a, b, v), T) /\ Len(T) = a + FrameLen(m, HasChecksum(v))
                /\ FrameAt(T, a, m, HasChecksum(v))
                /\ \A i \in 1..a : T[i] = Bytes(s)[i]
<1> DEFINE S == Bytes(s)
           data == SubSeq(S, b + 1, Size(s))
           sized == Overwrite(s, a + 4, Len(data))
           full == IF HasChecksum(v) THEN Overwrite(sized, a + 5, Hash(data)) ELSE sized
           h == HeadLen(HasChecksum(v))
           len == Len(m.data)
<1>1. /\ m \in Messages /\ a \in Nat /\ b = a + h /\ Size(s) = b + len /\ Size(s) \in Nat
      /\ S[a + 1] = 8 /\ S[a + 2] = 9 /\ S[a + 3] = m.command
      /\ \A j \in 1..len : S[b + j] = m.data[j]
      /\ len \in Nat /\ h \in 4..5 /\ b \in Nat
  <2>1. /\ m \in Messages /\ a \in Nat /\ b = a + h /\ Size(s) = a + FrameLen(m, HasChecksum(v))
        /\ S[a + 1] = 8 /\ S[a + 2] = 9 /\ S[a + 3] = m.command
        /\ \A j \in 1..len : S[b + j] = m.data[j]
    BY DEF Begun
  <2>2. len \in Nat /\ h \in 4..5 /\ FrameLen(m, HasChecksum(v)) = h + len
    BY <2>1, FrameLenIs DEF FrameLen
  <2> HIDE DEF h, len
  <2>3. b \in Nat /\ Size(s) = b + len /\ Size(s) \in Nat
    BY <2>1, <2>2
  <2> QED  BY <2>1, <2>2, <2>3
<1>2. IsSeq(S) /\ Len(S) = Size(s)
  BY StreamHas DEF Has
<1>3. HasChecksum(v) => h = 5
  BY DEF HeadLen
<1>4. data = m.data
  <2>1. b <= Size(s) /\ Size(s) <= Len(S)
    <3> HIDE DEF S, h, len
    <3> QED  BY <1>1, <1>2
  <2>2. IsSeq(data) /\ Len(data) = Size(s) - b /\ \A i \in 1..(Size(s) - b) : data[i] = S[b + i]
    <3>1. IsSeq(S) /\ b \in Nat /\ Size(s) \in Nat
      BY <1>1, <1>2
    <3> HIDE DEF S
    <3> QED  BY <2>1, <3>1, PartIs
  <2> HIDE DEF S, h, data, len
  <2>3. Len(data) = len /\ \A i \in 1..len : data[i] = m.data[i]
    <3>1. Size(s) = b + len /\ b \in Nat /\ len \in Nat
      BY <1>1
    <3>2. Size(s) - b = len
      BY ONLY <3>1
    <3> QED  BY <1>1, <2>2, <3>2
  <2>4. IsSeq(m.data)
    BY <1>1, AnySeq DEF Messages
  <2> QED  BY <2>2, <2>3, <2>4, SameSeq DEF len
<1> HIDE DEF data
<1> DEFINE T1 == [S EXCEPT ![a + 4] = len]
<1>5. Has(sized, T1) /\ T1 = [i \in 1..Size(s) |-> IF i = a + 4 THEN len ELSE S[i]]
  <2>1. a + 4 \in 1..Size(s)
    <3> HIDE DEF S, h, len
    <3> QED  BY <1>1
  <2>2. sized = Overwrite(s, a + 4, len)
    BY <1>4
  <2>3. Has(Overwrite(s, a + 4, len), T1)
    BY <2>1, OverwriteHas
  <2>4. S = [i \in 1..Size(s) |-> S[i]]
    BY <1>2, SeqIs
  <2> HIDE DEF S, len
  <2> QED  BY <2>2, <2>3, <2>4
<1> HIDE DEF T1, sized
<1> DEFINE T2 == [T1 EXCEPT ![a + 5] = Hash(m.data)]
           T == IF HasChecksum(v) THEN T2 ELSE T1
<1>6. HasChecksum(v) => Has(full, T2) /\ T2 = [i \in 1..Size(s) |-> IF i = a + 5 THEN Hash(m.data) ELSE T1[i]]
  <2> SUFFICES ASSUME HasChecksum(v)
               PROVE  Has(full, T2) /\ T2 = [i \in 1..Size(s) |-> IF i = a + 5 THEN Hash(m.data) ELSE T1[i]]
    OBVIOUS
  <2>1. IsStream(sized) /\ Bytes(sized) = T1 /\ Size(sized) = Len(T1) /\ IsSeq(T1)
    BY <1>5 DEF Has
  <2>2. T1 = [i \in 1..Size(s) |-> T1[i]]
    BY <1>5
  <2>3. Len(T1) = Size(s)
    BY <1>1, <2>2, FirstNumbers
  <2>4. a + 5 \in 1..Size(sized)
    <3> HIDE DEF S, h, len
    <3> QED  BY <1>1, <1>3, <2>1, <2>3
  <2>5. Has(Overwrite(sized, a + 5, Hash(m.data)), [Bytes(sized) EXCEPT ![a + 5] = Hash(m.data)])
    BY <2>1, <2>4, OverwriteHas
  <2>6. full = Overwrite(sized, a + 5, Hash(m.data))
    BY <1>4
  <2> HIDE DEF full
  <2>7. Has(full, T2)
    BY <2>1, <2>5, <2>6
  <2> QED  BY <2>2, <2>7
<1>7. Has(full, T)
  <2>1. CASE HasChecksum(v)
    BY <1>6, <2>1
  <2>2. CASE ~HasChecksum(v)
    BY <1>5, <2>2
  <2> QED  BY <2>1, <2>2
<1>8. ASSUME NEW i \in 1..Size(s)
      PROVE  T[i] = IF HasChecksum(v) /\ i = a + 5 THEN Hash(m.data) ELSE IF i = a + 4 THEN len ELSE S[i]
  <2>1. T1[i] = IF i = a + 4 THEN len ELSE S[i]
    BY <1>5
  <2>2. CASE HasChecksum(v)
    <3>1. T2[i] = IF i = a + 5 THEN Hash(m.data) ELSE T1[i]
      BY <1>6, <2>2
    <3>2. T = T2
      BY <2>2
    <3> HIDE DEF T2, T, S, len
    <3> QED  BY <2>1, <2>2, <3>1, <3>2
  <2>3. CASE ~HasChecksum(v)
    <3>1. T = T1
      BY <2>3
    <3> HIDE DEF T2, T, S, len
    <3> QED  BY <2>1, <2>3, <3>1
  <2> QED  BY <2>2, <2>3
<1>9. Len(T) = Size(s)
  <2>1. CASE HasChecksum(v)
    <3>1. T2 = [i \in 1..Size(s) |-> T2[i]]
      BY <1>6, <2>1
    <3> QED  BY <1>1, <2>1, <3>1, FirstNumbers
  <2>2. CASE ~HasChecksum(v)
    <3>1. T1 = [i \in 1..Size(s) |-> T1[i]]
      BY <1>5
    <3> QED  BY <1>1, <2>2, <3>1, FirstNumbers
  <2> QED  BY <2>1, <2>2
<1> HIDE DEF T, T2, S, full, h, len
<1>10. /\ a + 1 \in 1..Size(s) /\ a + 2 \in 1..Size(s) /\ a + 3 \in 1..Size(s) /\ a + 4 \in 1..Size(s)
       /\ HasChecksum(v) => a + 5 \in 1..Size(s)
       /\ a + 1 # a + 4 /\ a + 2 # a + 4 /\ a + 3 # a + 4
       /\ a + 1 # a + 5 /\ a + 2 # a + 5 /\ a + 3 # a + 5 /\ a + 4 # a + 5
  <2>1. a \in Nat /\ Size(s) = (a + h) + len /\ h \in 4..5 /\ len \in Nat /\ (HasChecksum(v) => h = 5)
    BY <1>1, <1>3
  <2>2. a + 4 <= Size(s) /\ (HasChecksum(v) => a + 5 <= Size(s)) /\ Size(s) \in Nat
    BY ONLY <2>1
  <2> QED  BY ONLY <2>1, <2>2
<1>11. T[a + 1] = 8 /\ T[a + 2] = 9 /\ T[a + 3] = m.command /\ T[a + 4] = len /\ (HasChecksum(v) => T[a + 5] = Hash(m.data))
  BY <1>1, <1>8, <1>10
<1>12. ASSUME NEW j \in 1..len PROVE T[a + h + j] = m.data[j]
  <2> DEFINE k == b + j
  <2>1. k \in 1..Size(s) /\ k # a + 4 /\ (HasChecksum(v) => k # a + 5) /\ k = a + h + j
    <3>1. a \in Nat /\ b = a + h /\ Size(s) = b + len /\ h \in 4..5 /\ len \in Nat /\ (HasChecksum(v) => h = 5)
      BY <1>1, <1>3
    <3> QED  BY ONLY <3>1, j \in 1..len
  <2>2. S[k] = m.data[j]
    BY <1>1
  <2> HIDE DEF k
  <2> QED  BY <1>8, <2>1, <2>2
<1>13. FrameAt(T, a, m, HasChecksum(v))
  BY <1>11, <1>12 DEF FrameAt, h, len
<1>14. ASSUME NEW i \in 1..a PROVE T[i] = S[i]
  <2>1. i \in 1..Size(s) /\ i # a + 4 /\ i # a + 5
    <3>1. a \in Nat /\ Size(s) = (a + h) + len /\ h \in 4..5 /\ len \in Nat
      BY <1>1
    <3> QED  BY ONLY <3>1, i \in 1..a
  <2> QED  BY <1>8, <2>1
<1>15. Len(T) = a + FrameLen(m, HasChecksum(v))
  <2>1. a \in Nat /\ Size(s) = (a + h) + len /\ h \in 4..5 /\ len \in Nat
    BY <1>1
  <2>2. Size(s) = a + (h + len)
    BY ONLY <2>1
  <2> QED  BY <1>9, <2>2 DEF FrameLen, h, len
<1> QED  BY <1>7, <1>13, <1>14, <1>15 DEF Ended, full, sized, data, S

-----------------------------------------------------------------------------
\* What an action leaves alone stays as it was.
LEMMA HoldSame ==
  ASSUME NEW n, HoldIs(n), step'[n] = step[n], holder'[n] = holder[n], todo'[n] = todo[n],
         nHeaderStart'[n] = nHeaderStart[n], nMessageStart'[n] = nMessageStart[n],
         vSend'[n] = vSend[n], sendVersion'[n] = sendVersion[n]
  PROVE  HoldIs(n)'
BY DEF HoldIs

\* So does how messages come,
LEMMA FlowSame ==
  ASSUME NEW n, FlowIs(n), past' = past, sent'[Peer(n)] = sent[Peer(n)], delivered'[n] = delivered[n],
         vRecv'[n] = vRecv[n], hSocket'[n] = hSocket[n], underway'[n] = underway[n],
         vSend'[Peer(n)] = vSend[Peer(n)], holder'[Peer(n)] = holder[Peer(n)],
         nHeaderStart'[Peer(n)] = nHeaderStart[Peer(n)]
  PROVE  FlowIs(n)'
<1>1. Clean(Peer(n))' = Clean(Peer(n))
  BY DEF Clean
<1> QED  BY <1>1 DEF FlowIs

\* and what was agreed.
LEMMA VersionSame ==
  ASSUME NEW n, VersionIs(n), past' = past, sent'[n] = sent[n], delivered'[n] = delivered[n],
         sendVersion'[n] = sendVersion[n], recvVersion'[n] = recvVersion[n], nVersion'[n] = nVersion[n],
         todo'[n] = todo[n]
  PROVE  VersionIs(n)'
BY DEF VersionIs, OldIs

\* The functions stay functions of the ends.
LEMMA Functions ==
  ASSUME WireInv
  PROVE  /\ OnEnds(vSend) /\ OnEnds(vRecv) /\ OnEnds(sendVersion) /\ OnEnds(recvVersion)
         /\ OnEnds(nHeaderStart) /\ OnEnds(nMessageStart) /\ OnEnds(holder) /\ OnEnds(todo) /\ OnEnds(step)
         /\ OnEnds(nVersion) /\ OnEnds(hSocket) /\ OnEnds(underway) /\ OnEnds(sent) /\ OnEnds(delivered)
BY DEF WireInv

\* What is first among what a thread has yet to push.
LEMMA FirstOf ==
  ASSUME NEW q \in Seq(Messages \cup {SetVersion}), q # <<>>
  PROVE  /\ Head(q) \in Messages \cup {SetVersion} /\ Tail(q) \in Seq(Messages \cup {SetVersion})
         /\ Head(q) # SetVersion => Head(q) \in Messages
BY HeadTailProperties

\* A thread enters and begins a message.
LEMMA BeginMessageKeeps ==
  ASSUME WireAssumption, WireInv, NEW n \in Ends, NEW t \in Threads, BeginMessage(n, t)
  PROVE  WireInv'
<1> DEFINE m == Head(todo[n][t])
           v == sendVersion[n]
           S == Bytes(vSend[n])
           bs == Header(m.command, v) \o m.data
           T == S \o bs
<1>1. EndIs(n) /\ HoldIs(n) /\ FlowIs(n) /\ VersionIs(n)
  BY DEF WireInv
<1>2. /\ todo[n][t] # <<>> /\ step[n][t] = "begin" /\ m # SetVersion /\ holder[n] = "none"
      /\ holder' = [holder EXCEPT ![n] = t]
      /\ nHeaderStart' = [nHeaderStart EXCEPT ![n] = Size(vSend[n])]
      /\ nMessageStart' = [nMessageStart EXCEPT ![n] = Size(vSend[n]) + Len(Header(m.command, v))]
      /\ vSend' = [vSend EXCEPT ![n] = Write(vSend[n], bs)]
      /\ step' = [step EXCEPT ![n][t] = "end"]
      /\ UNCHANGED <<vRecv, takenVars, todo, reading, hSocket, underway, sent, delivered, past>>
  BY DEF BeginMessage, Pushing, Enter, NextStep
<1>3. UNCHANGED <<vRecv, sendVersion, recvVersion, nVersion, todo, hSocket, underway, sent, delivered, past>>
  BY <1>2 DEF takenVars
<1>4. m \in Messages
  BY <1>1, <1>2, FirstOf DEF EndIs
<1>5. IsStream(vSend[n]) /\ Has(vSend[n], S) /\ IsSeq(S) /\ Size(vSend[n]) = Len(S)
  <2>1. IsStream(vSend[n])
    BY <1>1 DEF EndIs
  <2> QED  BY <2>1, StreamHas DEF Has
<1>6. /\ IsSeq(bs) /\ \A i \in 1..Len(S) : T[i] = S[i]
      /\ Begun(T, Len(S), Len(S) + Len(Header(m.command, v)), Len(T), m, HasChecksum(v))
  <2> HIDE DEF m, v, S
  <2> QED  BY <1>4, <1>5, BegunIs
<1>7. Has(Write(vSend[n], bs), T)
  <2> HIDE DEF bs
  <2> QED  BY <1>5, <1>6, WriteHas
<1> HIDE DEF m, v, S, bs, T
<1>8. /\ OnEnds(vSend') /\ vSend'[n] = Write(vSend[n], bs)
      /\ \A k \in Ends : k # n => vSend'[k] = vSend[k]
  BY <1>2, Functions DEF OnEnds
<1>9. /\ OnEnds(holder') /\ holder'[n] = t /\ \A k \in Ends : k # n => holder'[k] = holder[k]
  BY <1>2, Functions DEF OnEnds
<1>10. /\ OnEnds(nHeaderStart') /\ nHeaderStart'[n] = Len(S)
       /\ \A k \in Ends : k # n => nHeaderStart'[k] = nHeaderStart[k]
  BY <1>2, <1>5, Functions DEF OnEnds
<1>11. /\ OnEnds(nMessageStart') /\ nMessageStart'[n] = Len(S) + Len(Header(m.command, v))
       /\ \A k \in Ends : k # n => nMessageStart'[k] = nMessageStart[k]
  BY <1>2, <1>5, Functions DEF OnEnds
<1>12. /\ OnEnds(step') /\ OnThreads(step'[n]) /\ step'[n][t] = "end"
       /\ \A u \in Threads : u # t => step'[n][u] = step[n][u]
       /\ \A k \in Ends : k # n => step'[k] = step[k]
  <2>1. OnThreads(step[n])
    BY <1>1 DEF EndIs
  <2> QED  BY <1>2, <2>1, Functions DEF OnEnds, OnThreads
<1>13. HoldIs(n)'
  <2>1. t # "none"
    BY DEF Threads
  <2>2. holder'[n] \in Threads \cup {"none"}
    BY <1>9
  <2>3. \A u \in Threads : step'[n][u] = "end" <=> holder'[n] = u
    <3>1. \A u \in Threads : step[n][u] = "end" <=> holder[n] = u
      BY <1>1 DEF HoldIs
    <3>2. \A u \in Threads : u # "none"
      BY DEF Threads
    <3> QED  BY <1>2, <1>9, <1>12, <3>1, <3>2
  <2>4. Bytes(vSend'[n]) = T /\ Size(vSend'[n]) = Len(T)
    BY <1>7, <1>8 DEF Has
  <2>5. Begun(Bytes(vSend'[n]), nHeaderStart'[n], nMessageStart'[n], Size(vSend'[n]), Head(todo'[n][t]),
              HasChecksum(sendVersion'[n]))
    BY <1>3, <1>6, <1>10, <1>11, <2>4 DEF m, v
  <2>6. \A u \in Threads : holder'[n] = u => u = t
    BY <1>9
  <2> QED  BY <1>2, <1>3, <2>2, <2>3, <2>5, <2>6 DEF HoldIs
<1>14. ASSUME NEW k \in Ends PROVE EndIs(k)'
  <2>1. EndIs(k)
    BY DEF WireInv
  <2>2. IsStream(vSend'[k]) /\ OnThreads(step'[k])
    <3>1. CASE k = n
      BY <1>7, <1>8, <1>12, <3>1 DEF Has
    <3>2. CASE k # n
      BY <1>8, <1>12, <2>1, <3>2 DEF EndIs
    <3> QED  BY <3>1, <3>2
  <2> QED  BY <1>3, <2>1, <2>2 DEF EndIs
<1>15. ASSUME NEW k \in Ends PROVE HoldIs(k)'
  <2>1. CASE k = n
    BY <1>13, <2>1
  <2>2. CASE k # n
    <3>1. HoldIs(k)
      BY DEF WireInv
    <3> QED  BY <1>3, <1>8, <1>9, <1>10, <1>11, <1>12, <2>2, <3>1, HoldSame
  <2> QED  BY <2>1, <2>2
<1>16. ASSUME NEW k \in Ends PROVE FlowIs(k)'
  <2>1. FlowIs(k) /\ Peer(k) \in Ends
    BY Peers DEF WireInv
  <2>2. CASE Peer(k) # n
    BY <1>3, <1>8, <1>9, <1>10, <2>1, <2>2, FlowSame
  <2>3. CASE Peer(k) = n
    <3>1. Clean(n) = Len(S) /\ Clean(n)' = Len(S)
      <4>1. t # "none"
        BY DEF Threads
      <4> QED  BY <1>2, <1>5, <1>9, <1>10, <4>1 DEF Clean
    <3>2. FlowOK(past, sent[n], Len(delivered[k]), Bytes(vRecv[k]), hSocket[k], underway[k], S, Len(S))
      BY <2>1, <2>3, <3>1 DEF FlowIs, S
    <3>3. FlowOK(past, sent[n], Len(delivered[k]), Bytes(vRecv[k]), hSocket[k], underway[k], T, Len(S))
      BY <1>6, <3>2, FlowKept
    <3>4. Bytes(vSend'[n]) = T
      BY <1>7, <1>8 DEF Has
    <3> QED  BY <1>3, <2>1, <2>3, <3>1, <3>3, <3>4 DEF FlowIs
  <2> QED  BY <2>2, <2>3
<1>17. ASSUME NEW k \in Ends PROVE VersionIs(k)'
  <2>1. VersionIs(k)
    BY DEF WireInv
  <2> QED  BY <1>3, <2>1, VersionSame
<1>18. OnEnds(vSend)' /\ OnEnds(holder)' /\ OnEnds(nHeaderStart)' /\ OnEnds(nMessageStart)' /\ OnEnds(step)'
  BY <1>8, <1>9, <1>10, <1>11, <1>12 DEF OnEnds
<1>19. /\ OnEnds(vRecv)' /\ OnEnds(sendVersion)' /\ OnEnds(recvVersion)' /\ OnEnds(todo)' /\ OnEnds(nVersion)'
       /\ OnEnds(hSocket)' /\ OnEnds(underway)' /\ OnEnds(sent)' /\ OnEnds(delivered)'
  BY <1>3, Functions DEF OnEnds
<1> QED  BY <1>14, <1>15, <1>16, <1>17, <1>18, <1>19 DEF WireInv

\* Of old the user interface sends nothing before the handshake is over, so that the thread that
\* holds cs_vSend is the one of the messages; and the form of the header is the one that the other
\* end expects.
LEMMA FormIs ==
  ASSUME WireAssumption, NEW n \in Ends, NEW t \in Threads, EndIs(n), HoldIs(n), VersionIs(n), holder[n] = t
  PROVE  HasChecksum(sendVersion[n]) <=> Checked(past, Len(sent[n]) + 1)
<1>1. CASE past
  BY <1>1 DEF VersionIs, Checked
<1>2. CASE ~past
  <2>1. OldIs(n) /\ todo[n][t] # <<>> /\ Head(todo[n][t]) \in Messages
    BY <1>2 DEF VersionIs, HoldIs, Begun
  <2>2. t = "msg" /\ nVersion[n] # 0 /\ Stage(todo[n]["msg"], Len(sent[n]), sendVersion[n])
    BY <2>1 DEF OldIs, Threads
  <2>3. Head(todo[n]["msg"]) # SetVersion
    BY <2>1, <2>2, Words
  <2>4. Head(<<SetVersion, Ping>>) = SetVersion
    OBVIOUS
  <2>5. \/ Len(sent[n]) = 0 /\ sendVersion[n] = 0
        \/ Len(sent[n]) = 1 /\ sendVersion[n] = 0
        \/ Len(sent[n]) = 2 /\ sendVersion[n] = VERSION
    BY <2>1, <2>2, <2>3, <2>4 DEF Stage
  <2>6. ~HasChecksum(0) /\ HasChecksum(VERSION)
    BY DEF HasChecksum, VERSION
  <2>7. ~Checked(past, 0 + 1) /\ ~Checked(past, 1 + 1) /\ Checked(past, 2 + 1)
    BY <1>2 DEF Checked
  <2> QED  BY <2>5, <2>6, <2>7
<1> QED  BY <1>1, <1>2

\* A stage of the answer and the next.
LEMMA NextStage ==
  ASSUME WireAssumption, NEW q, NEW len, NEW v, Stage(q, len, v), q # <<>>
  PROVE  /\ Head(q) # SetVersion => Stage(Tail(q), len + 1, v) /\ Head(q) = Spoken(len + 1) /\ len + 1 <= 3
         /\ Head(q) = SetVersion => Stage(Tail(q), len, VERSION)
<1> DEFINE a == OurVersion
           b == Verack
           c == SetVersion
           d == Ping
<1>1. c # a /\ c # b /\ c # d
  BY Words
<1>2. Spoken(1) = a /\ Spoken(2) = b /\ Spoken(3) = d
  BY DEF Spoken
<1>3. \/ q = <<a, b, c, d>> /\ len = 0 /\ v = 0
      \/ q = <<b, c, d>> /\ len = 1 /\ v = 0
      \/ q = <<c, d>> /\ len = 2 /\ v = 0
      \/ q = <<d>> /\ len = 2 /\ v = VERSION
  BY DEF Stage
<1>4. Stage(<<b, c, d>>, 1, 0) /\ Stage(<<c, d>>, 2, 0) /\ Stage(<<d>>, 2, VERSION) /\ Stage(<<>>, 3, VERSION)
  BY DEF Stage
<1> HIDE DEF a, b, c, d
<1>5. CASE q = <<a, b, c, d>> /\ len = 0 /\ v = 0
  <2>1. Head(q) = a /\ Tail(q) = <<b, c, d>>
    BY <1>5
  <2> QED  BY <1>1, <1>2, <1>4, <1>5, <2>1 DEF c
<1>6. CASE q = <<b, c, d>> /\ len = 1 /\ v = 0
  <2>1. Head(q) = b /\ Tail(q) = <<c, d>>
    BY <1>6
  <2> QED  BY <1>1, <1>2, <1>4, <1>6, <2>1 DEF c
<1>7. CASE q = <<c, d>> /\ len = 2 /\ v = 0
  <2>1. Head(q) = c /\ Tail(q) = <<d>>
    BY <1>7
  <2> QED  BY <1>4, <1>7, <2>1 DEF c
<1>8. CASE q = <<d>> /\ len = 2 /\ v = VERSION
  <2>1. Head(q) = d /\ Tail(q) = <<>>
    BY <1>8
  <2> QED  BY <1>1, <1>2, <1>4, <1>8, <2>1 DEF c
<1> QED  BY <1>3, <1>5, <1>6, <1>7, <1>8

\* A thread ends its message and leaves: the message is complete.
LEMMA EndMessageKeeps ==
  ASSUME WireAssumption, WireInv, NEW n \in Ends, NEW t \in Threads, EndMessage(n, t)
  PROVE  WireInv'
<1> DEFINE m == Head(todo[n][t])
           v == sendVersion[n]
           s == vSend[n]
           a == nHeaderStart[n]
           b == nMessageStart[n]
           full == Ended(s, a, b, v)
           ck == HasChecksum(v)
           ext == Append(sent[n], m)
<1>1. EndIs(n) /\ HoldIs(n) /\ FlowIs(n) /\ VersionIs(n)
  BY DEF WireInv
<1>2. /\ todo[n][t] # <<>> /\ step[n][t] = "end"
      /\ vSend' = [vSend EXCEPT ![n] = full]
      /\ sent' = [sent EXCEPT ![n] = ext]
      /\ holder' = [holder EXCEPT ![n] = "none"]
      /\ nHeaderStart' = [nHeaderStart EXCEPT ![n] = -1]
      /\ nMessageStart' = [nMessageStart EXCEPT ![n] = -1]
      /\ step' = [step EXCEPT ![n][t] = "begin"]
      /\ todo' = [todo EXCEPT ![n][t] = Tail(todo[n][t])]
      /\ UNCHANGED <<vRecv, takenVars, reading, hSocket, underway, delivered, past>>
  BY DEF EndMessage, Pushing, Leave, Done, NextStep, Ended
<1>3. UNCHANGED <<vRecv, sendVersion, recvVersion, nVersion, hSocket, underway, delivered, past>>
  BY <1>2 DEF takenVars
<1>4. holder[n] = t /\ Begun(Bytes(s), a, b, Size(s), m, ck) /\ IsStream(s) /\ m \in Messages
  BY <1>1, <1>2 DEF HoldIs, EndIs, Begun
<1>5. PICK T : /\ Has(full, T) /\ Len(T) = a + FrameLen(m, ck) /\ FrameAt(T, a, m, ck)
               /\ \A i \in 1..a : T[i] = Bytes(s)[i]
  <2> HIDE DEF m, v, s, a, b
  <2> QED  BY <1>4, EndedIs
<1>6. ck <=> Checked(past, Len(sent[n]) + 1)
  BY <1>1, <1>4, FormIs
<1> HIDE DEF m, v, s, a, b, full, ck, ext
<1>7. /\ OnEnds(vSend') /\ vSend'[n] = full /\ \A k \in Ends : k # n => vSend'[k] = vSend[k]
  BY <1>2, Functions DEF OnEnds
<1>8. /\ OnEnds(holder') /\ holder'[n] = "none" /\ \A k \in Ends : k # n => holder'[k] = holder[k]
  BY <1>2, Functions DEF OnEnds
<1>9. /\ OnEnds(nHeaderStart') /\ \A k \in Ends : k # n => nHeaderStart'[k] = nHeaderStart[k]
  BY <1>2, Functions DEF OnEnds
<1>10. /\ OnEnds(nMessageStart') /\ \A k \in Ends : k # n => nMessageStart'[k] = nMessageStart[k]
  BY <1>2, Functions DEF OnEnds
<1>11. /\ OnEnds(sent') /\ sent'[n] = ext /\ \A k \in Ends : k # n => sent'[k] = sent[k]
  BY <1>2, Functions DEF OnEnds
<1>12. /\ OnEnds(step') /\ OnThreads(step'[n]) /\ step'[n][t] = "begin"
       /\ \A u \in Threads : u # t => step'[n][u] = step[n][u]
       /\ \A k \in Ends : k # n => step'[k] = step[k]
  <2>1. OnThreads(step[n])
    BY <1>1 DEF EndIs
  <2> QED  BY <1>2, <2>1, Functions DEF OnEnds, OnThreads
<1>13. /\ OnEnds(todo') /\ OnThreads(todo'[n]) /\ todo'[n][t] = Tail(todo[n][t])
       /\ \A u \in Threads : u # t => todo'[n][u] = todo[n][u]
       /\ \A k \in Ends : k # n => todo'[k] = todo[k]
  <2>1. OnThreads(todo[n])
    BY <1>1 DEF EndIs
  <2> QED  BY <1>2, <2>1, Functions DEF OnEnds, OnThreads
<1>14. /\ sent[n] \in Seq(Messages) /\ ext \in Seq(Messages) /\ Len(ext) = Len(sent[n]) + 1
       /\ Len(sent[n]) \in Nat /\ ext[Len(sent[n]) + 1] = m /\ \A i \in 1..Len(sent[n]) : ext[i] = sent[n][i]
  <2>1. sent[n] \in Seq(Messages)
    BY <1>1 DEF EndIs
  <2> QED  BY <1>4, <2>1, AppendProperties, LenProperties DEF ext
<1>15. ASSUME NEW k \in Ends PROVE EndIs(k)'
  <2>1. EndIs(k)
    BY DEF WireInv
  <2>2. /\ IsStream(vSend'[k]) /\ OnThreads(step'[k]) /\ OnThreads(todo'[k]) /\ sent'[k] \in Seq(Messages)
        /\ \A u \in Threads : todo'[k][u] \in Seq(Messages \cup {SetVersion})
    <3>1. CASE k = n
      <4>1. todo'[n][t] \in Seq(Messages \cup {SetVersion})
        BY <1>1, <1>2, <1>13, FirstOf DEF EndIs
      <4>2. \A u \in Threads : todo'[n][u] \in Seq(Messages \cup {SetVersion})
        BY <1>1, <1>13, <4>1 DEF EndIs
      <4> QED  BY <1>5, <1>7, <1>11, <1>12, <1>13, <1>14, <3>1, <4>2 DEF Has
    <3>2. CASE k # n
      BY <1>7, <1>11, <1>12, <1>13, <2>1, <3>2 DEF EndIs
    <3> QED  BY <3>1, <3>2
  <2> QED  BY <1>3, <2>1, <2>2 DEF EndIs
<1>16. ASSUME NEW k \in Ends PROVE HoldIs(k)'
  <2>1. CASE k = n
    <3>1. \A u \in Threads : u # "none"
      BY DEF Threads
    <3>2. \A u \in Threads : step[n][u] = "end" <=> holder[n] = u
      BY <1>1 DEF HoldIs
    <3>3. \A u \in Threads : step'[n][u] # "end"
      BY <1>4, <1>12, <3>2
    <3> QED  BY <1>8, <2>1, <3>1, <3>3 DEF HoldIs
  <2>2. CASE k # n
    <3>1. HoldIs(k)
      BY DEF WireInv
    <3> QED  BY <1>3, <1>7, <1>8, <1>9, <1>10, <1>12, <1>13, <2>2, <3>1, HoldSame
  <2> QED  BY <2>1, <2>2
<1>17. ASSUME NEW k \in Ends PROVE FlowIs(k)'
  <2>1. FlowIs(k) /\ Peer(k) \in Ends
    BY Peers DEF WireInv
  <2>2. CASE Peer(k) # n
    BY <1>3, <1>7, <1>8, <1>9, <1>11, <2>1, <2>2, FlowSame
  <2>3. CASE Peer(k) = n
    <3> DEFINE d == Len(delivered[k])
               R == Bytes(vRecv[k])
               U == underway[k]
               S == Bytes(s)
               f == FrameLen(m, Checked(past, Len(sent[n]) + 1))
    <3>1. Clean(n) = a /\ Clean(n)' = Len(T)
      <4>1. t # "none"
        BY DEF Threads
      <4>2. Size(vSend'[n]) = Len(T)
        BY <1>5, <1>7 DEF Has
      <4> QED  BY <1>4, <1>8, <4>1, <4>2 DEF Clean, a
    <3>2. FlowOK(past, sent[n], d, R, hSocket[k], U, S, a)
      BY <2>1, <2>3, <3>1 DEF FlowIs, s
    <3>3. FrameAt(T, a, m, Checked(past, Len(sent[n]) + 1)) /\ Len(T) = a + f
      BY <1>5, <1>6, SameForm
    <3>4. FlowOK(past, ext, d, R, hSocket[k], U, T, a + f)
      <4> HIDE DEF d, R, U, S
      <4> QED  BY <1>4, <1>5, <3>2, <3>3, FlowSent DEF ext, S
    <3>5. Bytes(vSend'[n]) = T
      BY <1>5, <1>7 DEF Has
    <3>6. ASSUME NEW i \in 1..d PROVE delivered[k][i] = ext[i]
      <4>1. d \in 0..Len(sent[n])
        BY <3>2 DEF FlowOK
      <4>2. i \in 1..Len(sent[n])
        <5> HIDE DEF d
        <5> QED  BY <1>14, <4>1
      <4>3. delivered[k][i] = sent[n][i]
        BY <2>1, <2>3 DEF FlowIs
      <4> QED  BY <1>14, <4>2, <4>3
    <3> QED  BY <1>3, <1>11, <2>3, <3>1, <3>3, <3>4, <3>5, <3>6 DEF FlowIs
  <2> QED  BY <2>2, <2>3
<1>18. ASSUME NEW k \in Ends PROVE VersionIs(k)'
  <2>1. VersionIs(k)
    BY DEF WireInv
  <2>2. CASE k # n
    BY <1>3, <1>11, <1>13, <2>1, <2>2, VersionSame
  <2>3. CASE k = n
    <3>1. CASE past
      BY <1>1, <1>3, <2>3, <3>1 DEF VersionIs
    <3>2. CASE ~past
      <4>1. OldIs(n)
        BY <1>1, <3>2 DEF VersionIs
      <4>2. t = "msg" /\ nVersion[n] # 0 /\ Stage(todo[n][t], Len(sent[n]), sendVersion[n])
        BY <1>2, <4>1 DEF OldIs, Threads
      <4>3. m # SetVersion
        BY <1>4, Words
      <4>4. /\ Stage(Tail(todo[n][t]), Len(sent[n]) + 1, sendVersion[n])
            /\ m = Spoken(Len(sent[n]) + 1) /\ Len(sent[n]) + 1 <= 3
        BY <1>2, <4>2, <4>3, NextStage DEF m
      <4>5. todo'[n]["ui"] = <<>>
        BY <1>13, <4>1, <4>2 DEF OldIs, Threads
      <4>6. ASSUME NEW i \in 1..Len(ext) PROVE ext[i] = Spoken(i)
        <5>1. i \in 1..Len(sent[n]) \/ i = Len(sent[n]) + 1
          BY <1>14
        <5> QED  BY <1>14, <4>1, <4>4, <5>1 DEF OldIs
      <4>7. Stage(todo'[n]["msg"], Len(sent'[n]), sendVersion'[n])
        BY <1>3, <1>11, <1>13, <1>14, <4>2, <4>4
      <4>8. Len(sent'[n]) <= 3 /\ \A i \in 1..Len(sent'[n]) : sent'[n][i] = Spoken(i)
        BY <1>11, <1>14, <4>4, <4>6
      <4>9. OldIs(n)'
        BY <1>3, <4>1, <4>2, <4>5, <4>7, <4>8 DEF OldIs
      <4> QED  BY <1>3, <2>3, <3>2, <4>9 DEF VersionIs
    <3> QED  BY <3>1, <3>2
  <2> QED  BY <2>2, <2>3
<1>19. OnEnds(vSend)' /\ OnEnds(holder)' /\ OnEnds(nHeaderStart)' /\ OnEnds(nMessageStart)' /\ OnEnds(step)'
       /\ OnEnds(todo)' /\ OnEnds(sent)'
  BY <1>7, <1>8, <1>9, <1>10, <1>11, <1>12, <1>13 DEF OnEnds
<1>20. /\ OnEnds(vRecv)' /\ OnEnds(sendVersion)' /\ OnEnds(recvVersion)' /\ OnEnds(nVersion)'
       /\ OnEnds(hSocket)' /\ OnEnds(underway)' /\ OnEnds(delivered)'
  BY <1>3, Functions DEF OnEnds
<1> QED  BY <1>15, <1>16, <1>17, <1>18, <1>19, <1>20 DEF WireInv

\* A thread gives its message up: what is complete stays.
LEMMA AbortMessageKeeps ==
  ASSUME WireAssumption, WireInv, NEW n \in Ends, NEW t \in Threads, AbortMessage(n, t)
  PROVE  WireInv'
<1> DEFINE m == Head(todo[n][t])
           s == vSend[n]
           a == nHeaderStart[n]
           S == Bytes(s)
           T == SubSeq(S, 1, a)
<1>1. EndIs(n) /\ HoldIs(n) /\ FlowIs(n) /\ VersionIs(n)
  BY DEF WireInv
<1>2. /\ past /\ todo[n][t] # <<>> /\ step[n][t] = "end"
      /\ vSend' = [vSend EXCEPT ![n] = Resize(s, a)]
      /\ holder' = [holder EXCEPT ![n] = "none"]
      /\ nHeaderStart' = [nHeaderStart EXCEPT ![n] = -1]
      /\ nMessageStart' = [nMessageStart EXCEPT ![n] = -1]
      /\ step' = [step EXCEPT ![n][t] = "begin"]
      /\ todo' = [todo EXCEPT ![n][t] = Tail(todo[n][t])]
      /\ UNCHANGED <<vRecv, takenVars, reading, hSocket, underway, sent, delivered, past>>
  BY DEF AbortMessage, Pushing, Leave, Done, NextStep
<1>3. UNCHANGED <<vRecv, sendVersion, recvVersion, nVersion, hSocket, underway, sent, delivered, past>>
  BY <1>2 DEF takenVars
<1>4. /\ holder[n] = t /\ IsStream(s) /\ m \in Messages /\ a \in Nat
      /\ Size(s) = a + FrameLen(m, HasChecksum(sendVersion[n]))
  BY <1>1, <1>2 DEF HoldIs, EndIs, Begun
<1> HIDE DEF m, s, a
<1>5. a <= Size(s) /\ Size(s) \in Nat
  <2>1. FrameLen(m, HasChecksum(sendVersion[n])) \in Nat
    BY <1>4, FrameLenIs
  <2> QED  BY <1>4, <2>1
<1>6. Has(Resize(s, a), T)
  BY <1>4, <1>5, ResizeHas
<1>7. Len(T) = a /\ \A i \in 1..a : T[i] = S[i]
  <2> DEFINE Q == SubSeq(S, 0 + 1, a)
  <2>1. IsSeq(S) /\ Len(S) = Size(s) /\ 0 \in Nat /\ 0 <= a
    BY <1>4, StreamHas DEF Has
  <2>2. Len(Q) = a - 0 /\ \A i \in 1..(a - 0) : Q[i] = S[0 + i]
    <3> HIDE DEF S
    <3> QED  BY <1>4, <1>5, <2>1, PartIs
  <2>3. Q = T
    OBVIOUS
  <2> HIDE DEF Q, T, S
  <2> QED  BY <1>4, <2>2, <2>3
<1> HIDE DEF S, T
<1>8. /\ OnEnds(vSend') /\ vSend'[n] = Resize(s, a) /\ \A k \in Ends : k # n => vSend'[k] = vSend[k]
  BY <1>2, Functions DEF OnEnds
<1>9. /\ OnEnds(holder') /\ holder'[n] = "none" /\ \A k \in Ends : k # n => holder'[k] = holder[k]
  BY <1>2, Functions DEF OnEnds
<1>10. /\ OnEnds(nHeaderStart') /\ \A k \in Ends : k # n => nHeaderStart'[k] = nHeaderStart[k]
  BY <1>2, Functions DEF OnEnds
<1>11. /\ OnEnds(nMessageStart') /\ \A k \in Ends : k # n => nMessageStart'[k] = nMessageStart[k]
  BY <1>2, Functions DEF OnEnds
<1>12. /\ OnEnds(step') /\ OnThreads(step'[n]) /\ step'[n][t] = "begin"
       /\ \A u \in Threads : u # t => step'[n][u] = step[n][u]
       /\ \A k \in Ends : k # n => step'[k] = step[k]
  <2>1. OnThreads(step[n])
    BY <1>1 DEF EndIs
  <2> QED  BY <1>2, <2>1, Functions DEF OnEnds, OnThreads
<1>13. /\ OnEnds(todo') /\ OnThreads(todo'[n]) /\ todo'[n][t] = Tail(todo[n][t])
       /\ \A u \in Threads : u # t => todo'[n][u] = todo[n][u]
       /\ \A k \in Ends : k # n => todo'[k] = todo[k]
  <2>1. OnThreads(todo[n])
    BY <1>1 DEF EndIs
  <2> QED  BY <1>2, <2>1, Functions DEF OnEnds, OnThreads
<1>14. ASSUME NEW k \in Ends PROVE EndIs(k)'
  <2>1. EndIs(k)
    BY DEF WireInv
  <2>2. /\ IsStream(vSend'[k]) /\ OnThreads(step'[k]) /\ OnThreads(todo'[k])
        /\ \A u \in Threads : todo'[k][u] \in Seq(Messages \cup {SetVersion})
    <3>1. CASE k = n
      <4>1. todo'[n][t] \in Seq(Messages \cup {SetVersion})
        BY <1>1, <1>2, <1>13, FirstOf DEF EndIs
      <4>2. \A u \in Threads : todo'[n][u] \in Seq(Messages \cup {SetVersion})
        BY <1>1, <1>13, <4>1 DEF EndIs
      <4> QED  BY <1>6, <1>8, <1>12, <1>13, <3>1, <4>2 DEF Has
    <3>2. CASE k # n
      BY <1>8, <1>12, <1>13, <2>1, <3>2 DEF EndIs
    <3> QED  BY <3>1, <3>2
  <2> QED  BY <1>3, <2>1, <2>2 DEF EndIs
<1>15. ASSUME NEW k \in Ends PROVE HoldIs(k)'
  <2>1. CASE k = n
    <3>1. \A u \in Threads : u # "none"
      BY DEF Threads
    <3>2. \A u \in Threads : step[n][u] = "end" <=> holder[n] = u
      BY <1>1 DEF HoldIs
    <3>3. \A u \in Threads : step'[n][u] # "end"
      BY <1>4, <1>12, <3>2
    <3> QED  BY <1>9, <2>1, <3>1, <3>3 DEF HoldIs
  <2>2. CASE k # n
    <3>1. HoldIs(k)
      BY DEF WireInv
    <3> QED  BY <1>3, <1>8, <1>9, <1>10, <1>11, <1>12, <1>13, <2>2, <3>1, HoldSame
  <2> QED  BY <2>1, <2>2
<1>16. ASSUME NEW k \in Ends PROVE FlowIs(k)'
  <2>1. FlowIs(k) /\ Peer(k) \in Ends
    BY Peers DEF WireInv
  <2>2. CASE Peer(k) # n
    BY <1>3, <1>8, <1>9, <1>10, <2>1, <2>2, FlowSame
  <2>3. CASE Peer(k) = n
    <3>1. Clean(n) = a /\ Clean(n)' = a
      <4>1. t # "none"
        BY DEF Threads
      <4>2. Size(vSend'[n]) = a
        BY <1>6, <1>7, <1>8 DEF Has
      <4> QED  BY <1>4, <1>9, <4>1, <4>2 DEF Clean, a
    <3>2. FlowOK(past, sent[n], Len(delivered[k]), Bytes(vRecv[k]), hSocket[k], underway[k], S, a)
      BY <2>1, <2>3, <3>1 DEF FlowIs, S, s
    <3>3. FlowOK(past, sent[n], Len(delivered[k]), Bytes(vRecv[k]), hSocket[k], underway[k], T, a)
      BY <1>7, <3>2, FlowKept
    <3>4. Bytes(vSend'[n]) = T
      BY <1>6, <1>8 DEF Has
    <3> QED  BY <1>3, <2>1, <2>3, <3>1, <3>3, <3>4 DEF FlowIs
  <2> QED  BY <2>2, <2>3
<1>17. ASSUME NEW k \in Ends PROVE VersionIs(k)'
  <2>1. VersionIs(k)
    BY DEF WireInv
  <2> QED  BY <1>2, <1>3, <2>1 DEF VersionIs
<1>18. OnEnds(vSend)' /\ OnEnds(holder)' /\ OnEnds(nHeaderStart)' /\ OnEnds(nMessageStart)' /\ OnEnds(step)'
       /\ OnEnds(todo)'
  BY <1>8, <1>9, <1>10, <1>11, <1>12, <1>13 DEF OnEnds
<1>19. /\ OnEnds(vRecv)' /\ OnEnds(sendVersion)' /\ OnEnds(recvVersion)' /\ OnEnds(nVersion)'
       /\ OnEnds(hSocket)' /\ OnEnds(underway)' /\ OnEnds(sent)' /\ OnEnds(delivered)'
  BY <1>3, Functions DEF OnEnds
<1> QED  BY <1>14, <1>15, <1>16, <1>17, <1>18, <1>19 DEF WireInv

\* The version handler changes the form of the headers to come, while nobody is in the middle of a
\* message in the form of before.
LEMMA ChangeVersionKeeps ==
  ASSUME WireAssumption, WireInv, NEW n \in Ends, ChangeVersion(n)
  PROVE  WireInv'
<1>1. EndIs(n) /\ HoldIs(n) /\ VersionIs(n) /\ "msg" \in Threads
  BY DEF WireInv, Threads
<1>2. /\ todo[n]["msg"] # <<>> /\ step[n]["msg"] = "begin" /\ Head(todo[n]["msg"]) = SetVersion
      /\ sendVersion' = [sendVersion EXCEPT ![n] = VERSION]
      /\ step' = [step EXCEPT ![n]["msg"] = "begin"]
      /\ todo' = [todo EXCEPT ![n]["msg"] = Tail(todo[n]["msg"])]
      /\ UNCHANGED <<vRecv, streamVars, recvVersion, nVersion, reading, hSocket, underway, sent, delivered, past>>
  BY DEF ChangeVersion, Pushing, Done, NextStep
<1>3. UNCHANGED <<vRecv, vSend, nHeaderStart, nMessageStart, holder, recvVersion, nVersion, hSocket, underway,
                  sent, delivered, past>>
  BY <1>2 DEF streamVars
<1>4. /\ OnEnds(sendVersion') /\ sendVersion'[n] = VERSION
      /\ \A k \in Ends : k # n => sendVersion'[k] = sendVersion[k]
  BY <1>2, Functions DEF OnEnds
<1>5. /\ OnEnds(step') /\ OnThreads(step'[n]) /\ \A u \in Threads : step'[n][u] = step[n][u]
      /\ \A k \in Ends : k # n => step'[k] = step[k]
  <2>1. OnThreads(step[n])
    BY <1>1 DEF EndIs
  <2> QED  BY <1>1, <1>2, <2>1, Functions DEF OnEnds, OnThreads
<1>6. /\ OnEnds(todo') /\ OnThreads(todo'[n]) /\ todo'[n]["msg"] = Tail(todo[n]["msg"])
      /\ \A u \in Threads : u # "msg" => todo'[n][u] = todo[n][u]
      /\ \A k \in Ends : k # n => todo'[k] = todo[k]
  <2>1. OnThreads(todo[n])
    BY <1>1 DEF EndIs
  <2> QED  BY <1>1, <1>2, <2>1, Functions DEF OnEnds, OnThreads
<1>7. HasChecksum(VERSION)
  BY DEF HasChecksum, VERSION
<1>8. holder[n] # "msg" /\ (past \/ holder[n] = "none")
  <2>1. holder[n] # "msg"
    BY <1>1, <1>2 DEF HoldIs
  <2>2. CASE ~past
    <3>1. todo[n]["ui"] = <<>>
      BY <1>1, <2>2 DEF VersionIs, OldIs
    <3>2. holder[n] # "ui"
      BY <1>1, <3>1 DEF HoldIs, Threads
    <3> QED  BY <1>1, <2>1, <3>2 DEF HoldIs, Threads
  <2> QED  BY <2>1, <2>2
<1>9. ASSUME NEW k \in Ends PROVE EndIs(k)'
  <2>1. EndIs(k)
    BY DEF WireInv
  <2>2. /\ OnThreads(step'[k]) /\ OnThreads(todo'[k])
        /\ \A u \in Threads : todo'[k][u] \in Seq(Messages \cup {SetVersion})
    <3>1. CASE k = n
      <4>1. todo'[n]["msg"] \in Seq(Messages \cup {SetVersion})
        BY <1>1, <1>2, <1>6, FirstOf DEF EndIs
      <4>2. \A u \in Threads : todo'[n][u] \in Seq(Messages \cup {SetVersion})
        BY <1>1, <1>6, <4>1 DEF EndIs
      <4> QED  BY <1>5, <1>6, <3>1, <4>2
    <3>2. CASE k # n
      BY <1>5, <1>6, <2>1, <3>2 DEF EndIs
    <3> QED  BY <3>1, <3>2
  <2> QED  BY <1>3, <2>1, <2>2 DEF EndIs
<1>10. ASSUME NEW k \in Ends PROVE HoldIs(k)'
  <2>1. CASE k = n
    <3>1. ASSUME NEW u \in Threads, holder[n] = u
          PROVE  /\ todo'[n][u] # <<>>
                 /\ Begun(Bytes(vSend[n]), nHeaderStart[n], nMessageStart[n], Size(vSend[n]), Head(todo'[n][u]),
                          HasChecksum(sendVersion'[n]))
      <4>1. past /\ todo'[n][u] = todo[n][u]
        BY <1>6, <1>8, <3>1 DEF Threads
      <4>2. HasChecksum(sendVersion[n]) /\ HasChecksum(sendVersion'[n])
        BY <1>1, <1>4, <1>7, <4>1 DEF VersionIs
      <4>3. /\ todo[n][u] # <<>>
            /\ Begun(Bytes(vSend[n]), nHeaderStart[n], nMessageStart[n], Size(vSend[n]), Head(todo[n][u]),
                     HasChecksum(sendVersion[n]))
        BY <1>1, <3>1 DEF HoldIs
      <4>4. HasChecksum(sendVersion[n]) <=> HasChecksum(sendVersion'[n])
        BY <4>2
      <4> QED  BY <4>1, <4>3, <4>4, SameForm DEF Begun
    <3> QED  BY <1>1, <1>3, <1>5, <2>1, <3>1 DEF HoldIs
  <2>2. CASE k # n
    <3>1. HoldIs(k)
      BY DEF WireInv
    <3> QED  BY <1>3, <1>4, <1>5, <1>6, <2>2, <3>1, HoldSame
  <2> QED  BY <2>1, <2>2
<1>11. ASSUME NEW k \in Ends PROVE FlowIs(k)'
  <2>1. FlowIs(k)
    BY DEF WireInv
  <2> QED  BY <1>3, <2>1, FlowSame
<1>12. ASSUME NEW k \in Ends PROVE VersionIs(k)'
  <2>1. VersionIs(k)
    BY DEF WireInv
  <2>2. CASE k # n
    BY <1>3, <1>4, <1>6, <2>1, <2>2, VersionSame
  <2>3. CASE k = n
    <3>1. CASE past
      BY <1>1, <1>3, <1>4, <1>7, <2>3, <3>1 DEF VersionIs
    <3>2. CASE ~past
      <4>1. OldIs(n)
        BY <1>1, <3>2 DEF VersionIs
      <4>2. nVersion[n] # 0 /\ Stage(todo[n]["msg"], Len(sent[n]), sendVersion[n])
        BY <1>2, <4>1 DEF OldIs
      <4>3. Stage(todo'[n]["msg"], Len(sent[n]), VERSION)
        BY <1>2, <1>6, <4>2, NextStage
      <4>4. todo'[n]["ui"] = <<>>
        BY <1>6, <4>1 DEF OldIs, Threads
      <4>5. OldIs(n)'
        BY <1>3, <1>4, <4>1, <4>2, <4>3, <4>4 DEF OldIs
      <4> QED  BY <1>3, <2>3, <3>2, <4>5 DEF VersionIs
    <3> QED  BY <3>1, <3>2
  <2> QED  BY <2>2, <2>3
<1>13. OnEnds(sendVersion)' /\ OnEnds(step)' /\ OnEnds(todo)'
  BY <1>4, <1>5, <1>6 DEF OnEnds
<1>14. /\ OnEnds(vSend)' /\ OnEnds(holder)' /\ OnEnds(nHeaderStart)' /\ OnEnds(nMessageStart)'
       /\ OnEnds(vRecv)' /\ OnEnds(recvVersion)' /\ OnEnds(nVersion)'
       /\ OnEnds(hSocket)' /\ OnEnds(underway)' /\ OnEnds(sent)' /\ OnEnds(delivered)'
  BY <1>3, Functions DEF OnEnds
<1> QED  BY <1>9, <1>10, <1>11, <1>12, <1>13, <1>14 DEF WireInv

\* Open is open.
LEMMA SameOpen ==
  ASSUME NEW new, NEW s, NEW d, NEW R, NEW isOpen, NEW U, NEW S, NEW c, FlowOK(new, s, d, R, isOpen, U, S, c),
         NEW still, still => isOpen
  PROVE  FlowOK(new, s, d, R, still, U, S, c)
<1>1. PICK P, L, cut : Flow(new, s, d, R, isOpen, U, S, c, P, L, cut)
  BY DEF FlowOK
<1>2. Flow(new, s, d, R, still, U, S, c, P, L, cut)
  BY <1>1 DEF Flow
<1> QED  BY <1>2 DEF FlowOK

\* The socket thread sends a piece of what is complete; it may find that too much is left.
LEMMA SocketSendKeeps ==
  ASSUME WireAssumption, WireInv, NEW n \in Ends, SocketSend(n)
  PROVE  WireInv'
<1> DEFINE p == Peer(n)
           s == vSend[n]
           S == Bytes(s)
<1>1. EndIs(n) /\ HoldIs(n) /\ FlowIs(n) /\ VersionIs(n)
  BY DEF WireInv
<1>2. p \in Ends /\ p # n /\ Peer(p) = n /\ \A m \in Ends : m # n => m = p
  BY Peers
<1>3. PICK k \in {3, Size(s)} :
        /\ k <= Size(s)
        /\ underway' = [underway EXCEPT ![p] = IF hSocket[p] THEN underway[p] \o SubSeq(S, 1, k) ELSE underway[p]]
        /\ vSend' = [vSend EXCEPT ![n] = EraseFront(s, k)]
  BY DEF SocketSend
<1>4. /\ hSocket[n] /\ holder[n] = "none"
      /\ UNCHANGED <<vRecv, takenVars, nHeaderStart, nMessageStart, holder, todo, step, reading, sent,
                     delivered, past>>
      /\ \E x : hSocket' = [hSocket EXCEPT ![n] = x]
  BY DEF SocketSend
<1>5. UNCHANGED <<vRecv, sendVersion, recvVersion, nVersion, nHeaderStart, nMessageStart, holder, todo, step, sent,
                  delivered, past>>
  BY <1>4 DEF takenVars
<1> HIDE DEF p
<1>6. /\ IsStream(s) /\ IsSeq(S) /\ Size(s) = Len(S) /\ Len(S) \in Nat /\ k \in Nat /\ k <= Len(S)
  <2>1. IsStream(s)
    BY <1>1 DEF EndIs
  <2>2. IsSeq(S) /\ Size(s) = Len(S) /\ Size(s) \in Nat
    BY <2>1, StreamHas DEF Has
  <2> HIDE DEF s, S
  <2> QED  BY <1>3, <2>1, <2>2
<1> DEFINE T == SubSeq(S, k + 1, Len(S))
           piece == SubSeq(S, 0 + 1, k)
<1>7. Has(EraseFront(s, k), T)
  <2>1. Has(EraseFront(s, k), SubSeq(S, k + 1, Size(s)))
    <3> HIDE DEF s
    <3> QED  BY <1>6, EraseHas
  <2> QED  BY <1>6, <2>1
<1> HIDE DEF s, S
<1>8. IsSeq(T) /\ Len(T) = Len(S) - k /\ \A i \in 1..(Len(S) - k) : T[i] = S[k + i]
  <2>1. Len(S) <= Len(S)
    BY <1>6
  <2> QED  BY <1>6, <2>1, PartIs
<1>9. IsSeq(piece) /\ Len(piece) = k /\ (\A i \in 1..k : piece[i] = S[i]) /\ piece = SubSeq(S, 1, k)
  <2>1. 0 \in Nat /\ 0 <= k
    BY <1>6
  <2>2. IsSeq(piece) /\ Len(piece) = k - 0 /\ \A i \in 1..(k - 0) : piece[i] = S[0 + i]
    BY <1>6, <2>1, PartIs
  <2>3. piece = SubSeq(S, 1, k)
    OBVIOUS
  <2> HIDE DEF piece
  <2> QED  BY <1>6, <2>2, <2>3
<1> HIDE DEF T, piece
<1>10. /\ OnEnds(vSend') /\ vSend'[n] = EraseFront(s, k) /\ \A m \in Ends : m # n => vSend'[m] = vSend[m]
  BY <1>3, Functions DEF OnEnds
<1>11. /\ OnEnds(underway')
       /\ underway'[p] = IF hSocket[p] THEN underway[p] \o piece ELSE underway[p]
       /\ \A m \in Ends : m # p => underway'[m] = underway[m]
  BY <1>2, <1>3, <1>9, Functions DEF OnEnds
<1>12. OnEnds(hSocket') /\ \A m \in Ends : m # n => hSocket'[m] = hSocket[m]
  BY <1>4, Functions DEF OnEnds
<1>13. EndIs(p) /\ FlowIs(p)
  BY <1>2 DEF WireInv
<1>14. /\ IsSeq(underway[p]) /\ IsSeq(underway[p] \o piece)
       /\ Len(underway[p] \o piece) = Len(underway[p]) + k
       /\ \A i \in 1..Len(underway[p]) : (underway[p] \o piece)[i] = underway[p][i]
       /\ \A i \in 1..k : (underway[p] \o piece)[Len(underway[p]) + i] = S[i]
  <2> DEFINE U == underway[p]
             V == U \o piece
  <2>1. IsSeq(U)
    BY <1>13 DEF EndIs
  <2> HIDE DEF U
  <2>2. /\ IsSeq(V) /\ Len(V) = Len(U) + Len(piece)
        /\ \A i \in 1..Len(U) : V[i] = U[i]
        /\ \A i \in 1..Len(piece) : V[Len(U) + i] = piece[i]
    <3>1. IsSeq(U) /\ IsSeq(piece)
      BY <1>9, <2>1
    <3> QED  BY <3>1, ConcatIs
  <2> HIDE DEF V
  <2>3. \A i \in 1..k : V[Len(U) + i] = S[i]
    BY <1>9, <2>2
  <2> QED  BY <1>9, <2>1, <2>2, <2>3 DEF U, V
<1>15. IsSeq(underway'[p])
  BY <1>11, <1>14
<1>16. Bytes(vSend'[n]) = T /\ Size(vSend'[n]) = Len(S) - k /\ Len(S) - k \in Nat /\ IsStream(vSend'[n])
  <2>1. Len(S) - k \in Nat
    BY <1>6
  <2> QED  BY <1>7, <1>8, <1>10, <2>1 DEF Has
<1>17. Clean(n) = Len(S) /\ Clean(n)' = Len(S) - k
  BY <1>4, <1>5, <1>6, <1>16 DEF Clean, s
<1>18. FlowIs(p)'
  <2> DEFINE d == Len(delivered[p])
             R == Bytes(vRecv[p])
             U == underway[p]
             V == U \o piece
  <2>1. FlowOK(past, sent[n], d, R, hSocket[p], U, S, Len(S))
    BY <1>2, <1>13, <1>17 DEF FlowIs, S, s
  <2>2. FlowOK(past, sent[n], d, R, hSocket[p], underway'[p], T, Len(S) - k)
    <3>1. CASE hSocket[p]
      <4> HIDE DEF d, R
      <4>1. FlowOK(past, sent[n], d, R, TRUE, U, S, Len(S))
        BY <2>1, <3>1, SameOpen
      <4> HIDE DEF V, U
      <4>2. Moved(k, Len(S), S, T, U, V)
        BY <1>6, <1>8, <1>14 DEF Moved, V, U
      <4>3. FlowOK(past, sent[n], d, R, TRUE, V, T, Len(S) - k)
        BY <4>1, <4>2, FlowMoved
      <4>4. FlowOK(past, sent[n], d, R, hSocket[p], V, T, Len(S) - k)
        BY <4>3, SameOpen
      <4> QED  BY <1>11, <3>1, <4>4 DEF V, U
    <3>2. CASE ~hSocket[p]
      <4> HIDE DEF d, R, U
      <4>1. FlowOK(past, sent[n], d, R, FALSE, underway'[p], T, Len(S) - k)
        BY <1>15, <1>16, <2>1, FlowClosed
      <4> QED  BY <3>2, <4>1, SameOpen
    <3> QED  BY <3>1, <3>2
  <2>3. hSocket'[p] = hSocket[p]
    BY <1>2, <1>12
  <2> QED  BY <1>2, <1>5, <1>13, <1>16, <1>17, <2>2, <2>3 DEF FlowIs
<1>19. FlowIs(n)'
  <2>1. /\ underway'[n] = underway[n] /\ vSend'[p] = vSend[p] /\ Clean(p)' = Clean(p)
    BY <1>2, <1>5, <1>10, <1>11 DEF Clean
  <2>2. FlowOK(past, sent[p], Len(delivered[n]), Bytes(vRecv[n]), hSocket[n], underway[n], Bytes(vSend[p]), Clean(p))
    BY <1>1 DEF FlowIs, p
  <2>3. FlowOK(past, sent[p], Len(delivered[n]), Bytes(vRecv[n]), hSocket'[n], underway[n], Bytes(vSend[p]), Clean(p))
    BY <1>4, <2>2, SameOpen
  <2> QED  BY <1>1, <1>5, <2>1, <2>3 DEF FlowIs, p
<1>20. ASSUME NEW m \in Ends PROVE EndIs(m)' /\ HoldIs(m)' /\ FlowIs(m)' /\ VersionIs(m)'
  <2>1. EndIs(m) /\ HoldIs(m) /\ VersionIs(m)
    BY DEF WireInv
  <2>2. IsStream(vSend'[m])
    BY <1>10, <1>16, <2>1 DEF EndIs
  <2>3. IsSeq(underway'[m])
    BY <1>11, <1>15, <2>1 DEF EndIs
  <2>4. EndIs(m)'
    BY <1>5, <2>1, <2>2, <2>3 DEF EndIs
  <2>5. HoldIs(m)'
    <3>1. CASE m = n
      <4>1. \A t \in Threads : t # "none"
        BY DEF Threads
      <4> QED  BY <1>4, <1>5, <2>1, <3>1, <4>1 DEF HoldIs
    <3>2. CASE m # n
      BY <1>5, <1>10, <2>1, <3>2, HoldSame
    <3> QED  BY <3>1, <3>2
  <2>6. VersionIs(m)'
    BY <1>5, <2>1, VersionSame
  <2>7. FlowIs(m)'
    BY <1>2, <1>18, <1>19
  <2> QED  BY <2>4, <2>5, <2>6, <2>7
<1>21. OnEnds(vSend)' /\ OnEnds(underway)' /\ OnEnds(hSocket)'
  BY <1>10, <1>11, <1>12 DEF OnEnds
<1>22. /\ OnEnds(holder)' /\ OnEnds(nHeaderStart)' /\ OnEnds(nMessageStart)' /\ OnEnds(step)' /\ OnEnds(todo)'
       /\ OnEnds(vRecv)' /\ OnEnds(sendVersion)' /\ OnEnds(recvVersion)' /\ OnEnds(nVersion)'
       /\ OnEnds(sent)' /\ OnEnds(delivered)'
  BY <1>5, Functions DEF OnEnds
<1> QED  BY <1>20, <1>21, <1>22 DEF WireInv

\* The socket thread receives a byte, or closes.
LEMMA SocketRecvKeeps ==
  ASSUME WireAssumption, WireInv, NEW n \in Ends, SocketRecv(n)
  PROVE  WireInv'
<1> DEFINE p == Peer(n)
           s == vRecv[n]
           R == Bytes(s)
           U == underway[n]
           d == Len(delivered[n])
           S == Bytes(vSend[p])
<1>1. EndIs(n) /\ FlowIs(n)
  BY DEF WireInv
<1>2. /\ hSocket[n]
      /\ UNCHANGED <<streamVars, takenVars, todo, step, sent, delivered, past>>
      /\ \/ hSocket' = [hSocket EXCEPT ![n] = FALSE] /\ UNCHANGED <<underway, vRecv>>
         \/ /\ U # <<>> /\ UNCHANGED hSocket
            /\ vRecv' = [vRecv EXCEPT ![n] = Write(s, <<Head(U)>>)]
            /\ underway' = [underway EXCEPT ![n] = Tail(U)]
  BY DEF SocketRecv
<1>3. UNCHANGED <<vSend, nHeaderStart, nMessageStart, holder, sendVersion, recvVersion, nVersion, todo, step, sent,
                  delivered, past>>
  BY <1>2 DEF takenVars, streamVars
<1>4. FlowOK(past, sent[p], d, R, hSocket[n], U, S, Clean(p)) /\ Clean(p)' = Clean(p)
  BY <1>1, <1>3 DEF FlowIs, Clean
<1>5. IsStream(s) /\ IsSeq(R) /\ IsSeq(U) /\ Clean(p) \in Nat
  BY <1>1, <1>4, StreamHas DEF EndIs, FlowOK, Has
<1> HIDE DEF p, S, U, R, s, d
<1>6. /\ OnEnds(vRecv') /\ OnEnds(underway') /\ OnEnds(hSocket') /\ IsStream(vRecv'[n]) /\ IsSeq(underway'[n])
      /\ \A m \in Ends : m # n =>
           vRecv'[m] = vRecv[m] /\ underway'[m] = underway[m] /\ hSocket'[m] = hSocket[m]
      /\ FlowOK(past, sent[p], d, Bytes(vRecv'[n]), hSocket'[n], underway'[n], S, Clean(p))
  <2>1. CASE hSocket' = [hSocket EXCEPT ![n] = FALSE] /\ UNCHANGED <<underway, vRecv>>
    <3>1. OnEnds(hSocket') /\ hSocket'[n] = FALSE /\ \A m \in Ends : m # n => hSocket'[m] = hSocket[m]
      BY <2>1, Functions DEF OnEnds
    <3>2. FlowOK(past, sent[p], d, R, FALSE, U, S, Clean(p))
      BY <1>4, <1>5, FlowClosed
    <3>3. vRecv'[n] = s /\ underway'[n] = U /\ Bytes(s) = R
      BY <2>1 DEF s, U, R
    <3>4. OnEnds(vRecv') /\ OnEnds(underway')
      BY <2>1, Functions DEF OnEnds
    <3> QED  BY <1>5, <2>1, <3>1, <3>2, <3>3, <3>4
  <2>2. CASE /\ U # <<>> /\ UNCHANGED hSocket
             /\ vRecv' = [vRecv EXCEPT ![n] = Write(s, <<Head(U)>>)]
             /\ underway' = [underway EXCEPT ![n] = Tail(U)]
    <3>1. /\ OnEnds(vRecv') /\ vRecv'[n] = Write(s, <<Head(U)>>)
          /\ \A m \in Ends : m # n => vRecv'[m] = vRecv[m]
      BY <2>2, Functions DEF OnEnds
    <3>2. OnEnds(underway') /\ underway'[n] = Tail(U) /\ \A m \in Ends : m # n => underway'[m] = underway[m]
      BY <2>2, Functions DEF OnEnds
    <3> DEFINE x == <<Head(U)>>
               Q == R \o x
               V == Tail(U)
    <3>3. IsSeq(x) /\ Len(x) = 1 /\ x[1] = Head(U)
      BY FewBytes
    <3>4. Head(U) = U[1] /\ IsSeq(V) /\ Len(U) # 0 /\ Len(V) = Len(U) - 1 /\ \A i \in 1..(Len(U) - 1) : V[i] = U[i + 1]
      BY <1>5, <2>2, TailIs
    <3> HIDE DEF x, V
    <3>5. Has(Write(s, x), Q)
      BY <1>5, <3>3, WriteHas DEF R
    <3>6. /\ IsSeq(Q) /\ Len(Q) = Len(R) + Len(x) /\ (\A i \in 1..Len(R) : Q[i] = R[i])
          /\ \A i \in 1..Len(x) : Q[Len(R) + i] = x[i]
      <4>1. IsSeq(R) /\ IsSeq(x)
        BY <1>5, <3>3
      <4> QED  BY <4>1, ConcatIs
    <3> HIDE DEF Q
    <3>7. Len(Q) = Len(R) + 1 /\ Q[Len(R) + 1] = U[1]
      <4>1. 1 \in 1..Len(x)
        BY <3>3
      <4> QED  BY <3>3, <3>4, <3>6, <4>1
    <3>8. Len(V) + 1 = Len(U) /\ \A i \in 1..Len(V) : V[i] = U[i + 1]
      <4>1. Len(U) \in Nat
        BY <1>5, SeqIs
      <4> QED  BY <3>4, <4>1
    <3>9. FlowOK(past, sent[p], d, R, TRUE, U, S, Clean(p))
      BY <1>2, <1>4, SameOpen
    <3>10. FlowOK(past, sent[p], d, Q, TRUE, V, S, Clean(p))
      <4>1. Received(U, V, R, Q)
        BY <3>4, <3>6, <3>7, <3>8 DEF Received
      <4> QED  BY <3>9, <4>1, FlowReceived
    <3>11. FlowOK(past, sent[p], d, Q, hSocket'[n], V, S, Clean(p))
      BY <3>10, SameOpen
    <3>12. IsStream(vRecv'[n]) /\ Bytes(vRecv'[n]) = Q
      BY <3>1, <3>5 DEF Has, x
    <3>13. OnEnds(hSocket')
      BY <2>2, Functions
    <3> QED  BY <2>2, <3>1, <3>2, <3>4, <3>11, <3>12, <3>13 DEF V
  <2> QED  BY <1>2, <2>1, <2>2
<1>7. FlowIs(n)'
  BY <1>1, <1>3, <1>4, <1>6 DEF FlowIs, p, S, d
<1>8. ASSUME NEW m \in Ends PROVE EndIs(m)' /\ HoldIs(m)' /\ FlowIs(m)' /\ VersionIs(m)'
  <2>1. EndIs(m) /\ HoldIs(m) /\ FlowIs(m) /\ VersionIs(m)
    BY DEF WireInv
  <2>2. IsStream(vRecv'[m]) /\ IsSeq(underway'[m])
    BY <1>6, <2>1 DEF EndIs
  <2>3. EndIs(m)'
    BY <1>3, <2>1, <2>2 DEF EndIs
  <2>4. HoldIs(m)'
    BY <1>3, <2>1, HoldSame
  <2>5. VersionIs(m)'
    BY <1>3, <2>1, VersionSame
  <2>6. CASE m # n
    <3>1. FlowIs(m)'
      BY <1>3, <1>6, <2>1, <2>6, FlowSame
    <3> QED  BY <2>3, <2>4, <2>5, <3>1
  <2> QED  BY <1>7, <2>3, <2>4, <2>5, <2>6
<1>9. OnEnds(vRecv)' /\ OnEnds(underway)' /\ OnEnds(hSocket)'
  BY <1>6 DEF OnEnds
<1>10. /\ OnEnds(vSend)' /\ OnEnds(holder)' /\ OnEnds(nHeaderStart)' /\ OnEnds(nMessageStart)' /\ OnEnds(step)'
       /\ OnEnds(todo)' /\ OnEnds(sendVersion)' /\ OnEnds(recvVersion)' /\ OnEnds(nVersion)'
       /\ OnEnds(sent)' /\ OnEnds(delivered)'
  BY <1>3, Functions DEF OnEnds
<1> QED  BY <1>8, <1>9, <1>10 DEF WireInv

\* u has the elements of s and behind them those of t.
Joins(s, t, u) ==
  /\ Len(u) = Len(s) + Len(t)
  /\ \A i \in 1..Len(s) : u[i] = s[i]
  /\ \A i \in 1..Len(t) : u[Len(s) + i] = t[i]

\* What has the elements of two sequences is those two.
LEMMA IsConcat ==
  ASSUME NEW S, NEW s \in Seq(S), NEW t \in Seq(S), NEW u \in Seq(S), Joins(s, t, u)
  PROVE  s \o t = u
<1> /\ Len(u) = Len(s) + Len(t) /\ (\A i \in 1..Len(s) : u[i] = s[i])
    /\ \A i \in 1..Len(t) : u[Len(s) + i] = t[i]
  BY DEF Joins
<1>1. IsSeq(s) /\ IsSeq(t) /\ IsSeq(u) /\ Len(s) \in Nat /\ Len(t) \in Nat
  BY AnySeq, LenProperties
<1> DEFINE v == s \o t
<1>2. /\ IsSeq(v) /\ Len(v) = Len(s) + Len(t) /\ (\A i \in 1..Len(s) : v[i] = s[i])
      /\ \A i \in 1..Len(t) : v[Len(s) + i] = t[i]
  BY <1>1, ConcatIs
<1> HIDE DEF v
<1>3. ASSUME NEW i \in 1..Len(v) PROVE v[i] = u[i]
  <2>1. CASE i <= Len(s)
    <3>1. i \in 1..Len(s)
      BY <1>1, <2>1
    <3> QED  BY <1>2, <3>1
  <2>2. CASE ~(i <= Len(s))
    <3> DEFINE j == i - Len(s)
    <3>1. j \in 1..Len(t) /\ Len(s) + j = i
      BY <1>1, <1>2, <2>2
    <3> HIDE DEF j
    <3> QED  BY <1>2, <3>1
  <2> QED  BY <2>1, <2>2
<1>4. v = u
  BY <1>1, <1>2, <1>3, SameSeq
<1> QED  BY <1>4 DEF v

\* What the version handler pushes, of old, is the first stage of what was left to say.
LEMMA FirstStage ==
  ASSUME WireAssumption, NEW isOutbound
  PROVE  LET q == (IF isOutbound THEN <<>> ELSE <<OurVersion>>) \o Answer \o <<Ping>>
         IN  /\ q \in Seq(Messages \cup {SetVersion})
             /\ Stage(q, IF isOutbound THEN 1 ELSE 0, 0)
<1> DEFINE a == OurVersion
           b == Verack
           c == SetVersion
           d == Ping
<1>1. a \in Messages \cup {SetVersion} /\ b \in Messages \cup {SetVersion} /\ d \in Messages \cup {SetVersion}
      /\ c \in Messages \cup {SetVersion}
  BY Words
<1>2. Answer = <<b, c>>
  BY DEF Answer
<1> HIDE DEF a, b, c, d
<1> DEFINE S == {a, b, c, d}
           bc == <<b, c>>
           abc == <<a, b, c>>
           bcd == <<b, c, d>>
           abcd == <<a, b, c, d>>
           one == <<a>>
           last == <<d>>
<1>3. /\ bc \in Seq(S) /\ Len(bc) = 2 /\ bc[1] = b /\ bc[2] = c
      /\ abc \in Seq(S) /\ Len(abc) = 3 /\ abc[1] = a /\ abc[2] = b /\ abc[3] = c
      /\ bcd \in Seq(S) /\ Len(bcd) = 3 /\ bcd[1] = b /\ bcd[2] = c /\ bcd[3] = d
      /\ abcd \in Seq(S) /\ Len(abcd) = 4 /\ abcd[1] = a /\ abcd[2] = b /\ abcd[3] = c /\ abcd[4] = d
      /\ one \in Seq(S) /\ Len(one) = 1 /\ last \in Seq(S) /\ Len(last) = 1 /\ <<>> \in Seq(S)
      /\ Len(<<>>) = 0 /\ one[1] = a /\ last[1] = d
  <2>1. bc \in Seq(S) /\ Len(bc) = 2 /\ bc[1] = b /\ bc[2] = c
    OBVIOUS
  <2>2. abc \in Seq(S) /\ Len(abc) = 3 /\ abc[1] = a /\ abc[2] = b /\ abc[3] = c
    OBVIOUS
  <2>3. bcd \in Seq(S) /\ Len(bcd) = 3 /\ bcd[1] = b /\ bcd[2] = c /\ bcd[3] = d
    OBVIOUS
  <2>4. abcd \in Seq(S) /\ Len(abcd) = 4 /\ abcd[1] = a /\ abcd[2] = b /\ abcd[3] = c /\ abcd[4] = d
    OBVIOUS
  <2>5. /\ one \in Seq(S) /\ Len(one) = 1 /\ last \in Seq(S) /\ Len(last) = 1 /\ <<>> \in Seq(S)
        /\ Len(<<>>) = 0 /\ one[1] = a /\ last[1] = d
    OBVIOUS
  <2> HIDE DEF S, bc, abc, bcd, abcd, one, last
  <2> QED  BY <2>1, <2>2, <2>3, <2>4, <2>5
<1> HIDE DEF S, bc, abc, bcd, abcd, one, last
<1>4. \A i : /\ i \in 1..1 <=> i = 1
             /\ i \in 1..2 <=> i = 1 \/ i = 2
             /\ i \in 1..3 <=> i = 1 \/ i = 2 \/ i = 3
  OBVIOUS
<1>5. <<>> \o bc = bc
  <2>1. (\A i \in 1..0 : bc[i] = <<>>[i]) /\ \A i \in 1..2 : bc[0 + i] = bc[i]
    OBVIOUS
  <2>2. Joins(<<>>, bc, bc)
    BY <1>3, <2>1 DEF Joins
  <2> QED  BY <1>3, <2>2, IsConcat
<1>6. bc \o last = bcd
  <2>1. (\A i \in 1..2 : bcd[i] = bc[i]) /\ \A i \in 1..1 : bcd[2 + i] = last[i]
    BY <1>3, <1>4
  <2>2. Joins(bc, last, bcd)
    BY <1>3, <2>1 DEF Joins
  <2> QED  BY <1>3, <2>2, IsConcat
<1>7. one \o bc = abc
  <2>1. (\A i \in 1..1 : abc[i] = one[i]) /\ \A i \in 1..2 : abc[1 + i] = bc[i]
    BY <1>3, <1>4
  <2>2. Joins(one, bc, abc)
    BY <1>3, <2>1 DEF Joins
  <2> QED  BY <1>3, <2>2, IsConcat
<1>8. abc \o last = abcd
  <2>1. (\A i \in 1..3 : abcd[i] = abc[i]) /\ \A i \in 1..1 : abcd[3 + i] = last[i]
    BY <1>3, <1>4
  <2>2. Joins(abc, last, abcd)
    BY <1>3, <2>1 DEF Joins
  <2> QED  BY <1>3, <2>2, IsConcat
<1>9. <<>> \o <<b, c>> \o <<d>> = <<b, c, d>>
  BY <1>5, <1>6 DEF bc, bcd, last
<1>10. <<a>> \o <<b, c>> \o <<d>> = <<a, b, c, d>>
  BY <1>7, <1>8 DEF bc, abcd, one, last
<1>11. <<b, c, d>> \in Seq(Messages \cup {SetVersion}) /\ <<a, b, c, d>> \in Seq(Messages \cup {SetVersion})
  BY <1>1
<1>12. Stage(<<b, c, d>>, 1, 0) /\ Stage(<<a, b, c, d>>, 0, 0)
  BY DEF Stage, a, b, c, d
<1>13. CASE isOutbound
  BY <1>2, <1>9, <1>11, <1>12, <1>13 DEF d
<1>14. CASE ~isOutbound
  BY <1>2, <1>10, <1>11, <1>12, <1>14 DEF a, d
<1> QED  BY <1>13, <1>14

\* The receiver looks for the next header in its form.
LEMMA FormAhead ==
  ASSUME NEW n, VersionIs(n), Len(delivered[n]) \in Nat
  PROVE  Checked(past, Len(delivered[n]) + 1) <=> HasChecksum(recvVersion[n])
<1> DEFINE d == Len(delivered[n])
<1>1. CASE past
  BY <1>1 DEF VersionIs, Checked
<1>2. CASE ~past
  <2>1. recvVersion[n] = IF d >= 2 THEN VERSION ELSE 0
    BY <1>2 DEF VersionIs, OldIs
  <2>2. HasChecksum(VERSION) /\ ~HasChecksum(0)
    BY DEF HasChecksum, VERSION
  <2> HIDE DEF d
  <2>3. Checked(past, d + 1) <=> d >= 2
    BY <1>2 DEF Checked, d
  <2>4. Checked(past, d + 1) <=> HasChecksum(recvVersion[n])
    BY <2>1, <2>2, <2>3
  <2> QED  BY <2>4 DEF d
<1> QED  BY <1>1, <1>2

\* The message thread takes the next message, if it is whole, and handles it.
LEMMA ProcessMessagesKeeps ==
  ASSUME WireAssumption, WireInv, NEW n \in Ends, ProcessMessages(n)
  PROVE  WireInv'
<1> DEFINE p == Peer(n)
           R == Bytes(vRecv[n])
           d == Len(delivered[n])
           s == sent[p]
           m == s[d + 1]
           ck == Checked(past, d + 1)
           f == FrameLen(m, ck)
           turn == Turn(n)
           said == (IF n = Outbound THEN <<>> ELSE <<OurVersion>>) \o Answer \o <<Ping>>
<1>1. EndIs(n) /\ HoldIs(n) /\ FlowIs(n) /\ VersionIs(n)
  BY DEF WireInv
<1>2. p \in Ends /\ p # n /\ Peer(p) = n /\ \A k \in Ends : k # n => k = p
  BY Peers
<1>3. EndIs(p) /\ VersionIs(p)
  BY <1>2 DEF WireInv
<1>4. /\ Size(vRecv[n]) > 0 /\ todo[n]["msg"] = <<>>
      /\ vRecv' = [vRecv EXCEPT ![n] = IF turn.on THEN turn.rest ELSE Compact(turn.rest)]
      /\ IF turn.m.command = -1 THEN UNCHANGED <<nVersion, todo, recvVersion, delivered>>
         ELSE /\ ProcessMessage(n, turn.m)
              /\ delivered' = [delivered EXCEPT ![n] = Append(delivered[n], turn.m)]
      /\ UNCHANGED <<streamVars, sendVersion, step, hSocket, underway, sent, past>>
  BY DEF ProcessMessages
<1>5. UNCHANGED <<vSend, nHeaderStart, nMessageStart, holder, sendVersion, step, hSocket, underway, sent, past>>
  BY <1>4 DEF streamVars
<1>6. Has(vRecv[n], R) /\ IsSeq(R) /\ Len(R) \in Nat /\ Len(R) > 0
  <2>1. Has(vRecv[n], R)
    BY <1>1, StreamHas DEF EndIs
  <2> QED  BY <1>4, <2>1, SeqIs DEF Has
<1>7. FlowOK(past, s, d, R, hSocket[n], underway[n], Bytes(vSend[p]), Clean(p)) /\ Clean(p)' = Clean(p)
  BY <1>1, <1>5 DEF FlowIs, Clean
<1> HIDE DEF p, R, s, turn, said
<1>8. d \in Nat /\ d < Len(s) /\ Len(s) \in Nat /\ s \in Seq(Messages)
  <2>1. d \in 0..Len(s) /\ s \in Seq(Messages) /\ Len(s) \in Nat
    BY <1>7, LenProperties DEF FlowOK
  <2>2. d # Len(s)
    <3> HIDE DEF d
    <3> QED  BY <1>6, <1>7, FirstFrame
  <2> QED  BY <2>1, <2>2
<1>9. m \in Messages /\ \E P : (\A i \in 1..Len(R) : P[i] = R[i]) /\ FrameAt(P, 0, m, ck)
  <2> HIDE DEF d
  <2> QED  BY <1>7, <1>8, FirstFrame
<1>10. ck <=> HasChecksum(recvVersion[n])
  BY <1>1, <1>8, FormAhead
<1> HIDE DEF d, ck, m, f
<1>11. /\ Len(R) < f => ~turn.on /\ turn.m.command = -1 /\ Has(turn.rest, R)
       /\ Len(R) >= f => turn.on /\ turn.m = m /\ \E Q : Has(turn.rest, Q) /\ Taken(Q, R, f)
  <2>1. MAX_SIZE \in Nat
    BY DEF WireAssumption
  <2>2. PICK P : (\A i \in 1..Len(R) : P[i] = R[i]) /\ FrameAt(P, 0, m, ck)
    BY <1>9
  <2> QED  BY <1>6, <1>9, <1>10, <2>1, <2>2, TurnIs DEF turn, f
<1>12. f \in Nat
  BY <1>9, FrameLenIs DEF f
<1>13. /\ OnEnds(vRecv') /\ vRecv'[n] = IF turn.on THEN turn.rest ELSE Compact(turn.rest)
       /\ \A k \in Ends : k # n => vRecv'[k] = vRecv[k]
  BY <1>4, Functions DEF OnEnds
\* What is not at this end.
<1>14. ASSUME /\ OnEnds(todo') /\ OnEnds(delivered') /\ OnEnds(nVersion') /\ OnEnds(recvVersion')
              /\ \A k \in Ends : k # n => /\ todo'[k] = todo[k] /\ delivered'[k] = delivered[k]
                                          /\ nVersion'[k] = nVersion[k] /\ recvVersion'[k] = recvVersion[k]
              /\ todo'[n]["ui"] = todo[n]["ui"] /\ EndIs(n)' /\ FlowIs(n)' /\ VersionIs(n)'
       PROVE  WireInv'
  <2>1. HoldIs(n)'
    <3>1. \A t \in Threads : holder[n] = t => t = "ui"
      BY <1>1, <1>4 DEF HoldIs, Threads
    <3>2. \A t \in Threads : holder[n] = t => todo'[n][t] = todo[n][t]
      BY <1>14, <3>1
    <3> QED  BY <1>1, <1>5, <3>2 DEF HoldIs
  <2>2. ASSUME NEW k \in Ends, k # n PROVE EndIs(k)' /\ HoldIs(k)' /\ FlowIs(k)' /\ VersionIs(k)'
    <3>1. EndIs(k) /\ HoldIs(k) /\ FlowIs(k) /\ VersionIs(k)
      BY DEF WireInv
    <3>2. EndIs(k)'
      BY <1>5, <1>13, <1>14, <2>2, <3>1 DEF EndIs
    <3>3. HoldIs(k)'
      BY <1>5, <1>14, <2>2, <3>1, HoldSame
    <3>4. FlowIs(k)'
      BY <1>5, <1>13, <1>14, <2>2, <3>1, FlowSame
    <3>5. VersionIs(k)'
      BY <1>5, <1>14, <2>2, <3>1, VersionSame
    <3> QED  BY <3>2, <3>3, <3>4, <3>5
  <2>3. OnEnds(vRecv)' /\ OnEnds(todo)' /\ OnEnds(delivered)' /\ OnEnds(nVersion)' /\ OnEnds(recvVersion)'
    BY <1>13, <1>14 DEF OnEnds
  <2>4. /\ OnEnds(vSend)' /\ OnEnds(nHeaderStart)' /\ OnEnds(nMessageStart)' /\ OnEnds(holder)'
        /\ OnEnds(sendVersion)' /\ OnEnds(step)' /\ OnEnds(hSocket)' /\ OnEnds(underway)' /\ OnEnds(sent)'
    BY <1>5, Functions DEF OnEnds
  <2> QED  BY <1>14, <2>1, <2>2, <2>3, <2>4 DEF WireInv
<1>15. CASE Len(R) < f
  <2>1. ~turn.on /\ turn.m.command = -1 /\ Has(turn.rest, R)
    BY <1>11, <1>15
  <2>2. UNCHANGED <<nVersion, todo, recvVersion, delivered>>
    BY <1>4, <2>1
  <2>3. Has(vRecv'[n], R)
    <3>1. vRecv'[n] = Stream(R)
      BY <1>13, <2>1 DEF Compact, Has
    <3> QED  BY <1>6, <3>1, NewStream
  <2>4. EndIs(n)'
    BY <1>1, <1>5, <2>2, <2>3 DEF EndIs, Has
  <2>5. FlowIs(n)'
    BY <1>1, <1>5, <1>7, <2>2, <2>3 DEF FlowIs, Has, p, s, d
  <2>6. VersionIs(n)'
    BY <1>1, <1>5, <2>2, VersionSame
  <2>7. OnEnds(todo') /\ OnEnds(delivered') /\ OnEnds(nVersion') /\ OnEnds(recvVersion')
    BY <2>2, Functions
  <2> QED  BY <1>14, <2>2, <2>4, <2>5, <2>6, <2>7
<1>16. CASE Len(R) >= f
  <2>1. turn.on /\ turn.m = m
    BY <1>11, <1>16
  <2>2. PICK Q : Has(turn.rest, Q) /\ Taken(Q, R, f)
    BY <1>11, <1>16
  <2>3. m.command \in 1..7 /\ m.command # -1
    <3>1. m.command \in 1..7
      BY <1>9 DEF Messages, Commands
    <3> QED  BY <3>1
  <2>4. ProcessMessage(n, m) /\ delivered' = [delivered EXCEPT ![n] = Append(delivered[n], m)]
    BY <1>4, <2>1, <2>3
  <2>5. Has(vRecv'[n], Q)
    BY <1>13, <2>1, <2>2
  <2> DEFINE ext == Append(delivered[n], m)
  <2>6. OnEnds(delivered') /\ delivered'[n] = ext /\ \A k \in Ends : k # n => delivered'[k] = delivered[k]
    BY <2>4, Functions DEF OnEnds
  <2>7. /\ ext \in Seq(Messages) /\ Len(ext) = d + 1 /\ ext[d + 1] = m
        /\ \A i \in 1..d : ext[i] = delivered[n][i]
    <3>1. delivered[n] \in Seq(Messages)
      BY <1>1 DEF EndIs
    <3> QED  BY <1>9, <3>1, AppendProperties DEF d
  <2> HIDE DEF ext
  <2>8. FlowOK(past, s, d + 1, Q, hSocket[n], underway[n], Bytes(vSend[p]), Clean(p))
    <3>1. f = FrameLen(s[d + 1], Checked(past, d + 1))
      BY DEF f, m, ck
    <3> QED  BY <1>7, <1>8, <2>2, <3>1, FlowTaken
  <2>9. FlowIs(n)'
    <3>1. ASSUME NEW i \in 1..(d + 1) PROVE ext[i] = s[i]
      <4>1. CASE i = d + 1
        BY <2>7, <4>1 DEF m
      <4>2. CASE i # d + 1
        <5>1. i \in 1..d
          BY <1>8, <4>2
        <5> QED  BY <1>1, <2>7, <5>1 DEF FlowIs, s, p, d
      <4> QED  BY <4>1, <4>2
    <3> QED  BY <1>5, <1>7, <2>5, <2>6, <2>7, <2>8, <3>1 DEF FlowIs, Has, p, s
  <2>10. /\ OnEnds(todo') /\ OnEnds(nVersion') /\ OnEnds(recvVersion')
         /\ \A k \in Ends : k # n => todo'[k] = todo[k] /\ nVersion'[k] = nVersion[k] /\ recvVersion'[k] = recvVersion[k]
         /\ OnThreads(todo'[n]) /\ todo'[n]["ui"] = todo[n]["ui"]
         /\ \/ /\ m.command = 1 /\ nVersion[n] = 0 /\ nVersion'[n] = VERSION
               /\ todo'[n]["msg"] = said /\ recvVersion'[n] = recvVersion[n]
            \/ /\ m.command = 2 /\ nVersion[n] # 0 /\ recvVersion'[n] = VERSION
               /\ nVersion'[n] = nVersion[n] /\ todo'[n]["msg"] = todo[n]["msg"]
            \/ /\ ~(m.command = 1 /\ nVersion[n] = 0) /\ ~(m.command = 2 /\ nVersion[n] # 0)
               /\ nVersion'[n] = nVersion[n] /\ todo'[n]["msg"] = todo[n]["msg"] /\ recvVersion'[n] = recvVersion[n]
    <3>1. OnThreads(todo[n]) /\ "msg" \in Threads /\ "ui" \in Threads
      BY <1>1 DEF EndIs, Threads
    <3>2. CASE /\ m.command = 1 /\ nVersion[n] = 0
               /\ nVersion' = [nVersion EXCEPT ![n] = VERSION]
               /\ todo' = [todo EXCEPT ![n]["msg"] = said]
               /\ UNCHANGED recvVersion
      <4>1. OnEnds(nVersion') /\ nVersion'[n] = VERSION /\ \A k \in Ends : k # n => nVersion'[k] = nVersion[k]
        BY <3>2, Functions DEF OnEnds
      <4>2. /\ OnEnds(todo') /\ (\A k \in Ends : k # n => todo'[k] = todo[k])
            /\ OnThreads(todo'[n]) /\ todo'[n]["ui"] = todo[n]["ui"] /\ todo'[n]["msg"] = said
        BY <3>1, <3>2, Functions DEF OnEnds, OnThreads
      <4>3. OnEnds(recvVersion')
        BY <3>2, Functions
      <4> QED  BY <3>2, <4>1, <4>2, <4>3
    <3>3. CASE /\ m.command = 2 /\ nVersion[n] # 0
               /\ recvVersion' = [recvVersion EXCEPT ![n] = VERSION]
               /\ UNCHANGED <<nVersion, todo>>
      <4>1. /\ OnEnds(recvVersion') /\ recvVersion'[n] = VERSION
            /\ \A k \in Ends : k # n => recvVersion'[k] = recvVersion[k]
        BY <3>3, Functions DEF OnEnds
      <4>2. OnEnds(nVersion') /\ OnEnds(todo')
        BY <3>3, Functions
      <4> QED  BY <3>1, <3>3, <4>1, <4>2
    <3>4. CASE /\ ~(m.command = 1 /\ nVersion[n] = 0) /\ ~(m.command = 2 /\ nVersion[n] # 0)
               /\ UNCHANGED <<nVersion, todo, recvVersion>>
      BY <3>1, <3>4, Functions
    <3> QED  BY <2>4, <3>2, <3>3, <3>4 DEF ProcessMessage, said
  <2>11. /\ said \in Seq(Messages \cup {SetVersion})
         /\ Stage(said, IF n = Outbound THEN 1 ELSE 0, 0)
    BY FirstStage DEF said
  <2>12. EndIs(n)'
    <3>1. todo'[n]["msg"] \in Seq(Messages \cup {SetVersion})
      BY <1>1, <2>10, <2>11 DEF EndIs, Threads
    <3>2. \A t \in Threads : todo'[n][t] \in Seq(Messages \cup {SetVersion})
      BY <1>1, <2>10, <3>1 DEF EndIs, Threads
    <3> QED  BY <1>1, <1>5, <2>5, <2>6, <2>7, <2>10, <3>2 DEF EndIs, Has
  <2>13. VersionIs(n)'
    <3>1. HasChecksum(VERSION) /\ VERSION # 0
      BY DEF HasChecksum, VERSION
    <3>2. CASE past
      BY <1>1, <1>5, <2>10, <3>1, <3>2 DEF VersionIs
    <3>3. CASE ~past
      <4>1. OldIs(n) /\ OldIs(p)
        BY <1>1, <1>3, <3>3 DEF VersionIs
      <4>2. m = Spoken(d + 1) /\ d + 1 <= 3
        <5>1. Len(s) <= 3 /\ d + 1 \in 1..Len(s) /\ \A i \in 1..Len(s) : s[i] = Spoken(i)
          BY <1>8, <4>1 DEF OldIs, s
        <5> QED  BY <1>8, <5>1 DEF m
      <4>3. Spoken(1) = OurVersion /\ Spoken(2) = Verack /\ Spoken(3) = Ping
        BY DEF Spoken
      <4>4. d = 0 \/ d = 1 \/ d = 2
        BY <1>8, <4>2
      <4>5. /\ d = 0 => m.command = 1 /\ nVersion[n] = 0
            /\ d = 1 => m.command = 2 /\ nVersion[n] # 0
            /\ d = 2 => m.command = 3 /\ nVersion[n] # 0
        <5>1. nVersion[n] = 0 <=> d = 0
          BY <4>1 DEF OldIs, d
        <5>2. d = 0 => m = OurVersion
          BY <4>2, <4>3
        <5>3. d = 1 => m = Verack
          BY <4>2, <4>3
        <5>4. d = 2 => m = Ping
          BY <4>2, <4>3
        <5>5. OurVersion.command = 1 /\ Verack.command = 2 /\ Ping.command = 3
          BY DEF OurVersion, Verack, Ping, Message
        <5> HIDE DEF m, d
        <5> QED  BY <5>1, <5>2, <5>3, <5>4, <5>5
      <4>6. recvVersion[n] = IF d >= 2 THEN VERSION ELSE 0
        BY <4>1 DEF OldIs, d
      <4>7. recvVersion'[n] = IF d + 1 >= 2 THEN VERSION ELSE 0
        BY <2>10, <4>4, <4>5, <4>6
      <4>8. nVersion'[n] # 0
        BY <2>10, <3>1, <4>4, <4>5
      <4>9. Stage(todo'[n]["msg"], Len(sent[n]), sendVersion[n])
        <5>1. CASE d = 0
          <6>1. todo'[n]["msg"] = said /\ nVersion[n] = 0
            BY <2>10, <4>5, <5>1
          <6>2. sendVersion[n] = 0 /\ Len(sent[n]) = IF n = Outbound THEN 1 ELSE 0
            BY <4>1, <6>1 DEF OldIs
          <6> QED  BY <2>11, <6>1, <6>2
        <5>2. CASE d # 0
          <6>1. nVersion[n] # 0 /\ todo'[n]["msg"] = todo[n]["msg"]
            BY <2>10, <4>4, <4>5, <5>2
          <6> QED  BY <4>1, <6>1 DEF OldIs
        <5> QED  BY <5>1, <5>2
      <4>10. Len(delivered'[n]) = d + 1 /\ d + 1 # 0
        BY <1>8, <2>6, <2>7
      <4>11. todo'[n]["ui"] = <<>>
        BY <2>10, <4>1 DEF OldIs
      <4>12. OldIs(n)'
        BY <1>5, <4>1, <4>7, <4>8, <4>9, <4>10, <4>11 DEF OldIs
      <4> QED  BY <1>5, <3>3, <4>12 DEF VersionIs
    <3> QED  BY <3>2, <3>3
  <2> QED  BY <1>14, <2>6, <2>9, <2>10, <2>12, <2>13
<1>17. Len(R) < f \/ Len(R) >= f
  BY <1>6, <1>12
<1> QED  BY <1>15, <1>16, <1>17

\* Nothing was sent.
LEMMA NoFlow ==
  ASSUME NEW new, NEW isOpen, NEW S
  PROVE  FlowOK(new, <<>>, 0, <<>>, isOpen, <<>>, S, 0)
<1> DEFINE cut == [i \in Nat |-> 0]
<1>1. cut \in [Nat -> Nat] /\ \A i \in Nat : cut[i] = 0
  OBVIOUS
<1>2. Len(<<>>) = 0 /\ IsSeq(<<>>) /\ <<>> \in Seq(Messages)
  BY NoneIs
<1> HIDE DEF cut
<1>3. /\ \A i, j \in 0..0 : i <= j => cut[i] <= cut[j]
      /\ \A i \in (0 + 1)..0 : FALSE
      /\ \A i \in 1..0 : FALSE
  BY <1>1
<1>4. Flow(new, <<>>, 0, <<>>, isOpen, <<>>, S, 0, <<>>, 0, cut)
  BY <1>1, <1>2, <1>3 DEF Flow
<1> QED  BY <1>2, <1>4 DEF FlowOK

\* The version of the node that connected waits to be sent.
LEMMA FirstFlow ==
  ASSUME WireAssumption, NEW new, NEW v, HasChecksum(v) <=> new
  PROVE  /\ IsSeq(Framed(OurVersion, v))
         /\ FlowOK(new, <<OurVersion>>, 0, <<>>, TRUE, <<>>, Framed(OurVersion, v), Len(Framed(OurVersion, v)))
<1> DEFINE bs == Framed(OurVersion, v)
           ck == Checked(new, Len(<<>>) + 1)
<1>1. OurVersion \in Messages
  BY Words
<1>2. IsSeq(bs) /\ Len(bs) = FrameLen(OurVersion, HasChecksum(v)) /\ FrameAt(bs, 0, OurVersion, HasChecksum(v))
  BY <1>1, FramedIs
<1>3. Len(<<>>) + 1 = 1 /\ Append(<<>>, OurVersion) = <<OurVersion>>
  OBVIOUS
<1>4. ck <=> HasChecksum(v)
  BY <1>3 DEF Checked
<1> HIDE DEF bs, ck
<1>5. Len(bs) = FrameLen(OurVersion, ck) /\ FrameAt(bs, 0, OurVersion, ck) /\ FrameLen(OurVersion, ck) \in Nat
  BY <1>1, <1>2, <1>4, SameForm, FrameLenIs
<1>6. FlowOK(new, <<>>, 0, <<>>, TRUE, <<>>, bs, 0) /\ \A i \in 1..0 : bs[i] = bs[i]
  BY NoFlow
<1>7. FlowOK(new, Append(<<>>, OurVersion), 0, <<>>, TRUE, <<>>, bs, 0 + FrameLen(OurVersion, ck))
  BY <1>1, <1>5, <1>6, FlowSent DEF ck
<1>8. 0 + FrameLen(OurVersion, ck) = Len(bs)
  BY <1>5
<1> QED  BY <1>2, <1>3, <1>7, <1>8 DEF bs

\* However two nodes begin, a connection begins in the invariant.
LEMMA WireInitially ==
  ASSUME WireAssumption, NEW ways, ways \subseteq {"old", "new", "spoken"}, WireInit(ways)
  PROVE  WireInv /\ garbled = 0
<1>1. PICK way \in ways : Met(way, way # "spoken")
  BY DEF WireInit
<1> DEFINE fresh == way # "spoken"
           v == FormOf(way)
           first == Framed(OurVersion, v)
<1>2. /\ HasChecksum(v) <=> past
      /\ ~past => v = 0 /\ fresh
  <2>1. past = (way # "old") /\ way \in {"old", "new", "spoken"}
    BY <1>1 DEF Met
  <2>2. ~HasChecksum(0) /\ HasChecksum(209) /\ HasChecksum(VERSION)
    BY DEF HasChecksum, VERSION
  <2>3. CASE way = "old"
    BY <2>1, <2>2, <2>3 DEF FormOf
  <2>4. CASE way = "new"
    BY <2>1, <2>2, <2>4 DEF FormOf
  <2>5. CASE way = "spoken"
    BY <2>1, <2>2, <2>5 DEF FormOf
  <2> QED  BY <2>1, <2>3, <2>4, <2>5
<1>3. /\ OnEnds(sendVersion) /\ OnEnds(recvVersion) /\ OnEnds(vSend) /\ OnEnds(sent) /\ OnEnds(todo)
      /\ OnEnds(nVersion)
      /\ \A n \in Ends :
           /\ sendVersion[n] = v /\ recvVersion[n] = v
           /\ vSend[n] = Stream(IF fresh /\ n = Outbound THEN first ELSE <<>>)
           /\ sent[n] = IF fresh /\ n = Outbound THEN <<OurVersion>> ELSE <<>>
           /\ todo[n] = [t \in Threads |->
                           IF fresh THEN <<>> ELSE IF t = "msg" THEN MsgScript[n] ELSE UiScript[n]]
           /\ nVersion[n] = IF fresh THEN 0 ELSE VERSION
  <2>1. /\ sendVersion = [n \in Ends |-> v] /\ recvVersion = [n \in Ends |-> v]
        /\ vSend = [n \in Ends |-> Stream(IF fresh /\ n = Outbound THEN first ELSE <<>>)]
        /\ sent = [n \in Ends |-> IF fresh /\ n = Outbound THEN <<OurVersion>> ELSE <<>>]
        /\ todo = [n \in Ends |-> [t \in Threads |->
                     IF fresh THEN <<>> ELSE IF t = "msg" THEN MsgScript[n] ELSE UiScript[n]]]
        /\ nVersion = [n \in Ends |-> IF fresh THEN 0 ELSE VERSION]
    BY <1>1 DEF Met
  <2> HIDE DEF v, fresh, first
  <2> QED  BY <2>1 DEF OnEnds
<1>4. /\ OnEnds(vRecv) /\ OnEnds(nHeaderStart) /\ OnEnds(nMessageStart) /\ OnEnds(holder) /\ OnEnds(step)
      /\ OnEnds(hSocket) /\ OnEnds(underway) /\ OnEnds(delivered) /\ garbled = 0
      /\ \A n \in Ends :
           /\ vRecv[n] = Stream(<<>>) /\ holder[n] = "none" /\ step[n] = [t \in Threads |-> "begin"]
           /\ hSocket[n] = TRUE /\ underway[n] = <<>> /\ delivered[n] = <<>>
  BY DEF WireInit, OnEnds
<1>5. IsSeq(first) /\ FlowOK(past, <<OurVersion>>, 0, <<>>, TRUE, <<>>, first, Len(first))
  <2> HIDE DEF v
  <2> QED  BY <1>2, FirstFlow
<1> HIDE DEF v, fresh, first
<1>6. /\ Has(Stream(<<>>), <<>>) /\ Has(Stream(first), first) /\ IsSeq(<<>>) /\ Len(<<>>) = 0
      /\ IsStream(Stream(<<>>)) /\ IsStream(Stream(first))
  <2>1. Has(Stream(<<>>), <<>>) /\ Has(Stream(first), first)
    BY <1>5, NewStream, NoneIs
  <2> QED  BY <2>1, NoneIs DEF Has
<1>7. OurVersion \in Messages
  BY Words
<1>8. ASSUME NEW n \in Ends PROVE EndIs(n)
  <2>1. IsStream(vSend[n]) /\ IsStream(vRecv[n]) /\ IsSeq(underway[n])
    BY <1>3, <1>4, <1>6
  <2>2. sent[n] \in Seq(Messages) /\ delivered[n] \in Seq(Messages)
    <3>1. <<>> \in Seq(Messages) /\ <<OurVersion>> \in Seq(Messages)
      BY <1>7
    <3>2. sent[n] = <<>> \/ sent[n] = <<OurVersion>>
      BY <1>3
    <3> QED  BY <1>4, <3>1, <3>2
  <2>3. OnThreads(todo[n]) /\ OnThreads(step[n])
    BY <1>3, <1>4 DEF OnThreads
  <2>4. ASSUME NEW t \in Threads PROVE todo[n][t] \in Seq(Messages \cup {SetVersion})
    <3>1. Seq(Messages) \subseteq Seq(Messages \cup {SetVersion})
      OBVIOUS
    <3>2. MsgScript[n] \in Seq(Messages) /\ UiScript[n] \in Seq(Messages) /\ <<>> \in Seq(Messages)
      BY DEF WireAssumption
    <3>3. todo[n][t] = IF fresh THEN <<>> ELSE IF t = "msg" THEN MsgScript[n] ELSE UiScript[n]
      <4>1. todo[n] = [u \in Threads |->
                         IF fresh THEN <<>> ELSE IF u = "msg" THEN MsgScript[n] ELSE UiScript[n]]
        BY <1>3
      <4> QED  BY ONLY <4>1, <2>4
    <3>4. todo[n][t] = <<>> \/ todo[n][t] = MsgScript[n] \/ todo[n][t] = UiScript[n]
      BY <3>3
    <3>5. todo[n][t] \in Seq(Messages)
      BY <3>2, <3>4
    <3> QED  BY <3>1, <3>5
  <2> QED  BY <2>1, <2>2, <2>3, <2>4 DEF EndIs
<1>9. ASSUME NEW n \in Ends PROVE HoldIs(n)
  <2>1. holder[n] = "none" /\ "none" \notin Threads /\ \A t \in Threads : step[n][t] = "begin"
    BY <1>4 DEF Threads
  <2> QED  BY <2>1 DEF HoldIs
<1>10. ASSUME NEW n \in Ends PROVE FlowIs(n)
  <2> DEFINE p == Peer(n)
  <2>1. p \in Ends
    BY Peers
  <2>2. Bytes(vRecv[n]) = <<>> /\ delivered[n] = <<>> /\ Len(delivered[n]) = 0 /\ hSocket[n] = TRUE
        /\ underway[n] = <<>> /\ Clean(p) = Size(vSend[p])
    BY <1>4, <1>6, <2>1 DEF Has, Clean
  <2>3. FlowOK(past, sent[p], 0, <<>>, TRUE, <<>>, Bytes(vSend[p]), Size(vSend[p]))
    <3>1. CASE fresh /\ p = Outbound
      <4>1. sent[p] = <<OurVersion>> /\ Bytes(vSend[p]) = first /\ Size(vSend[p]) = Len(first)
        BY <1>3, <1>6, <2>1, <3>1 DEF Has
      <4> QED  BY <1>5, <4>1
    <3>2. CASE ~(fresh /\ p = Outbound)
      <4>1. sent[p] = <<>> /\ Size(vSend[p]) = 0
        BY <1>3, <1>6, <2>1, <3>2 DEF Has
      <4> QED  BY <4>1, NoFlow
    <3> QED  BY <3>1, <3>2
  <2> HIDE DEF p
  <2>4. \A i \in 1..0 : FALSE
    OBVIOUS
  <2> QED  BY <2>2, <2>3, <2>4 DEF FlowIs, p
<1>11. ASSUME NEW n \in Ends PROVE VersionIs(n)
  <2>1. past => HasChecksum(sendVersion[n]) /\ HasChecksum(recvVersion[n])
    BY <1>2, <1>3
  <2>2. ASSUME ~past PROVE OldIs(n)
    <3>1. /\ todo[n]["ui"] = <<>> /\ todo[n]["msg"] = <<>> /\ recvVersion[n] = 0 /\ sendVersion[n] = 0
          /\ nVersion[n] = 0 /\ Len(delivered[n]) = 0
      BY <1>2, <1>3, <1>4, <2>2 DEF Threads
    <3>2. sent[n] = IF n = Outbound THEN <<OurVersion>> ELSE <<>>
      BY <1>2, <1>3, <2>2
    <3>3. Len(sent[n]) = IF n = Outbound THEN 1 ELSE 0
      BY <3>2
    <3>4. \A i \in 1..Len(sent[n]) : sent[n][i] = Spoken(i)
      BY <3>2 DEF Spoken
    <3> QED  BY <3>1, <3>3, <3>4 DEF OldIs
  <2> QED  BY <2>1, <2>2 DEF VersionIs
<1> QED  BY <1>3, <1>4, <1>8, <1>9, <1>10, <1>11 DEF WireInv

\* Every step of a connection keeps the invariant, as long as no byte was changed.
LEMMA WireStep ==
  ASSUME WireAssumption, garbled \in Nat, garbled = 0 => WireInv, WireNext \/ UNCHANGED wireVars
  PROVE  garbled' \in Nat /\ (garbled' = 0 => WireInv')
<1>1. CASE UNCHANGED wireVars
  <2>1. garbled' = garbled
    BY <1>1 DEF wireVars
  <2>2. ASSUME WireInv PROVE WireInv'
    <3>1. UNCHANGED <<vSend, vRecv, sendVersion, recvVersion, nHeaderStart, nMessageStart, holder, todo, step,
                      nVersion, hSocket, underway, sent, delivered, past>>
      BY <1>1 DEF wireVars
    <3>2. \A n \in Ends : EndIs(n)' = EndIs(n) /\ HoldIs(n)' = HoldIs(n) /\ FlowIs(n)' = FlowIs(n)
                          /\ VersionIs(n)' = VersionIs(n)
      BY <3>1 DEF EndIs, HoldIs, FlowIs, VersionIs, OldIs, Clean
    <3> QED  BY <2>2, <3>1, <3>2 DEF WireInv
  <2> QED  BY <2>1, <2>2
<1>2. ASSUME NEW n \in Ends, Garble(n) PROVE garbled' \in Nat /\ garbled' # 0
  BY <1>2 DEF Garble
<1>3. ASSUME WireNext, \A n \in Ends : ~Garble(n) PROVE garbled' = garbled /\ (WireInv => WireInv')
  <2>1. PICK n \in Ends :
          \/ \E t \in Threads : BeginMessage(n, t) \/ EndMessage(n, t) \/ AbortMessage(n, t)
          \/ ChangeVersion(n) \/ SocketSend(n) \/ SocketRecv(n) \/ ProcessMessages(n)
    BY <1>3 DEF WireNext
  <2>2. ASSUME NEW t \in Threads, BeginMessage(n, t) PROVE garbled' = garbled /\ (WireInv => WireInv')
    <3>1. garbled' = garbled
      BY <2>2 DEF BeginMessage
    <3> QED  BY <2>2, <3>1, BeginMessageKeeps
  <2>3. ASSUME NEW t \in Threads, EndMessage(n, t) PROVE garbled' = garbled /\ (WireInv => WireInv')
    <3>1. garbled' = garbled
      BY <2>3 DEF EndMessage
    <3> QED  BY <2>3, <3>1, EndMessageKeeps
  <2>4. ASSUME NEW t \in Threads, AbortMessage(n, t) PROVE garbled' = garbled /\ (WireInv => WireInv')
    <3>1. garbled' = garbled
      BY <2>4 DEF AbortMessage
    <3> QED  BY <2>4, <3>1, AbortMessageKeeps
  <2>5. ASSUME ChangeVersion(n) PROVE garbled' = garbled /\ (WireInv => WireInv')
    <3>1. garbled' = garbled
      BY <2>5 DEF ChangeVersion
    <3> QED  BY <2>5, <3>1, ChangeVersionKeeps
  <2>6. ASSUME SocketSend(n) PROVE garbled' = garbled /\ (WireInv => WireInv')
    <3>1. garbled' = garbled
      BY <2>6 DEF SocketSend
    <3> QED  BY <2>6, <3>1, SocketSendKeeps
  <2>7. ASSUME SocketRecv(n) PROVE garbled' = garbled /\ (WireInv => WireInv')
    <3>1. garbled' = garbled
      BY <2>7 DEF SocketRecv
    <3> QED  BY <2>7, <3>1, SocketRecvKeeps
  <2>8. ASSUME ProcessMessages(n) PROVE garbled' = garbled /\ (WireInv => WireInv')
    <3>1. garbled' = garbled
      BY <2>8 DEF ProcessMessages
    <3> QED  BY <2>8, <3>1, ProcessMessagesKeeps
  <2> QED  BY <2>1, <2>2, <2>3, <2>4, <2>5, <2>6, <2>7, <2>8
<1>4. CASE WireNext
  <2>1. CASE \E n \in Ends : Garble(n)
    BY <1>2, <2>1
  <2>2. CASE ~(\E n \in Ends : Garble(n))
    BY <1>3, <1>4, <2>2
  <2> QED  BY <2>1, <2>2
<1> QED  BY <1>1, <1>4

\* When nothing of what was sent is anywhere else, all of the next frame was received.
LEMMA WholeFrame ==
  ASSUME NEW new, NEW s, NEW d, NEW R, NEW isOpen, NEW U, NEW S, NEW c, FlowOK(new, s, d, R, isOpen, U, S, c),
         isOpen, Len(U) = 0, c = 0, d < Len(s),
         NEW f, f = FrameLen(s[d + 1], Checked(new, d + 1))
  PROVE  Len(R) >= f
<1>1. isOpen /\ Len(U) = 0 /\ c = 0 /\ d < Len(s) => Len(R) >= FrameLen(s[d + 1], Checked(new, d + 1))
  BY FirstFrame
<1> QED  BY <1>1

\* What has arrived is what was sent first, and when everything was looked at it is all.
LEMMA WireInvImplies ==
  ASSUME WireAssumption, garbled = 0 => WireInv
  PROVE  ArrivesInOrder
<1> SUFFICES ASSUME garbled = 0, NEW n \in Ends
             PROVE  /\ IsPrefix(delivered[n], sent[Peer(n)])
                    /\ Settled(n) => delivered[n] = sent[Peer(n)] /\ Size(vRecv[n]) = 0
  BY DEF ArrivesInOrder
<1> DEFINE p == Peer(n)
           s == sent[p]
           t == delivered[n]
           d == Len(t)
           R == Bytes(vRecv[n])
           m == s[d + 1]
           ck == Checked(past, d + 1)
           f == FrameLen(m, ck)
<1>1. WireInv /\ EndIs(n) /\ FlowIs(n) /\ VersionIs(n)
  BY DEF WireInv
<1>2. p \in Ends /\ EndIs(p)
  BY <1>1, Peers DEF WireInv
<1>3. /\ FlowOK(past, s, d, R, hSocket[n], underway[n], Bytes(vSend[p]), Clean(p))
      /\ \A i \in 1..d : t[i] = s[i]
  BY <1>1 DEF FlowIs
<1>4. Has(vRecv[n], R) /\ Len(R) \in Nat /\ Size(vRecv[n]) = Len(R)
  BY <1>1, StreamHas, SeqIs DEF EndIs, Has
<1>5. t \in Seq(Messages) /\ s \in Seq(Messages) /\ d \in Nat /\ Len(s) \in Nat /\ d <= Len(s)
  <2>1. d \in 0..Len(s) /\ t \in Seq(Messages) /\ s \in Seq(Messages)
    BY <1>1, <1>2, <1>3 DEF FlowOK, EndIs
  <2> QED  BY <2>1, LenProperties
<1> HIDE DEF p, s, t, R, m, ck, f
<1>6. IsPrefix(t, s)
  BY <1>3, <1>5 DEF IsPrefix
<1>7. ASSUME Settled(n) PROVE t = s /\ Len(R) = 0
  <2>1. /\ hSocket[n] /\ Size(vSend[p]) = 0 /\ underway[n] = <<>> /\ holder[p] = "none"
        /\ Turn(n).rest = vRecv[n]
    BY <1>7 DEF Settled, p
  <2>2. Clean(p) = 0 /\ Len(underway[n]) = 0
    BY <2>1 DEF Clean
  <2>3. ASSUME d < Len(s) PROVE FALSE
    <3>1. m \in Messages /\ \E P : (\A i \in 1..Len(R) : P[i] = R[i]) /\ FrameAt(P, 0, m, ck)
      <4> HIDE DEF d
      <4> QED  BY <1>3, <2>3, FirstFrame DEF m, ck
    <3>2. Len(R) >= f
      <4> HIDE DEF d
      <4>1. f = FrameLen(s[d + 1], Checked(past, d + 1))
        BY DEF m, ck, f
      <4> QED  BY <1>3, <2>1, <2>2, <2>3, <4>1, WholeFrame
    <3>3. f \in Nat /\ f > 0
      <4>1. HeadLen(ck) \in 4..5 /\ Len(m.data) \in Nat
        BY <3>1, FrameLenIs
      <4>2. f = HeadLen(ck) + Len(m.data)
        BY DEF f, FrameLen
      <4> QED  BY ONLY <4>1, <4>2
    <3>4. ck <=> HasChecksum(recvVersion[n])
      <4> HIDE DEF d
      <4> QED  BY <1>1, <1>5, FormAhead DEF d, t, ck
    <3>5. PICK Q : Has(Turn(n).rest, Q) /\ Taken(Q, R, f)
      <4>1. MAX_SIZE \in Nat
        BY DEF WireAssumption
      <4>2. Len(R) > 0
        BY <1>4, <3>2, <3>3
      <4>3. PICK P : (\A i \in 1..Len(R) : P[i] = R[i]) /\ FrameAt(P, 0, m, ck)
        BY <3>1
      <4> QED  BY <1>4, <3>1, <3>2, <3>4, <4>1, <4>2, <4>3, TurnIs DEF f
    <3>6. Len(Q) = Len(R)
      BY <1>4, <2>1, <3>5 DEF Has
    <3>7. IsSeq(Q) /\ Len(Q) + f = Len(R)
      BY <3>5 DEF Taken
    <3>8. Len(Q) \in Nat
      BY <3>7, SeqIs
    <3> QED  BY ONLY <1>4, <3>3, <3>6, <3>7, <3>8
  <2>4. d = Len(s)
    BY <1>5, <2>3
  <2>5. Len(R) = 0
    <3> HIDE DEF d
    <3> QED  BY <1>3, <2>4, FirstFrame
  <2>6. t = s
    BY <1>3, <1>5, <2>4
  <2> QED  BY <2>5, <2>6
<1> QED  BY <1>4, <1>6, <1>7 DEF p, s, t

\* A connection on its own: messages arrive whole, once and in the order in which they were
\* completed, and when all is quiet none has stayed behind (BeginMessage, EndMessage,
\* ThreadSocketHandler2, ProcessMessages).
THEOREM WireCorrect ==
  WireInit({"old", "new", "spoken"}) /\ [][WireNext]_wireVars => []ArrivesInOrder
<1> DEFINE Inv == garbled \in Nat /\ (garbled = 0 => WireInv)
<1>1. WireInit({"old", "new", "spoken"}) => Inv
  <2> SUFFICES ASSUME WireInit({"old", "new", "spoken"}) PROVE WireInv /\ garbled = 0
    OBVIOUS
  <2> QED  BY WireAssumption, WireInitially
<1>2. Inv /\ [WireNext]_wireVars => Inv'
  <2> SUFFICES ASSUME Inv, WireNext \/ UNCHANGED wireVars PROVE Inv'
    OBVIOUS
  <2> QED  BY WireAssumption, WireStep
<1>3. Inv => ArrivesInOrder
  <2> SUFFICES ASSUME Inv PROVE ArrivesInOrder
    OBVIOUS
  <2> QED  BY WireAssumption, WireInvImplies
<1> QED  BY <1>1, <1>2, <1>3, PTL
=============================================================================
