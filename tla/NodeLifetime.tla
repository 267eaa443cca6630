----------------------------- MODULE NodeLifetime -----------------------------
(***************************************************************************)
(* The life of a CNode (net.cpp, net.h) between the four threads that hold *)
(* pointers to it: ThreadSocketHandler, which accepts, services,           *)
(* disconnects and deletes; ThreadMessageHandler; ThreadOpenConnections;   *)
(* and the user interface, which dials a seller (ConnectNode with a        *)
(* timeout).  One step is what a thread does under one lock, or between    *)
(* two accesses to shared memory it makes without a lock.                  *)
(*                                                                         *)
(* Time is what is left of it: release[n] is nReleaseTime - GetTime(), at  *)
(* least 0; an age is how long a thread has kept a pointer that nothing    *)
(* protects, or that it is about to drop.  Such a stretch of code is a few *)
(* instructions: Tick does not let it last Grace.  How long a thread works *)
(* through its copy of vNodes has no bound.                                *)
(***************************************************************************)
EXTENDS Naturals, Integers, FiniteSets

CONSTANTS
  Nodes,         \* the connections there may be, one CNode each
  NoNode,
  Ip,            \* their addresses
  NoIp,
  OpenIps,       \* what ThreadOpenConnections dials
  UiIps,         \* what the user interface dials
  InboundNodes,  \* the connections that peers open
  MaxInbound,    \* -maxconnections - MAX_OUTBOUND_CONNECTIONS
  Grace,         \* 15 * 60
  UiTimeout      \* the nTimeout of the user interface

ASSUME NodesAssumption == NoNode \notin Nodes /\ InboundNodes \subseteq Nodes
ASSUME TimeAssumption  == Grace \in Nat \ {0} /\ UiTimeout \in Nat \ {0}
ASSUME LimitAssumption == MaxInbound \in Nat

VARIABLES
  vNodes, vNodesDisconnected,
  deleted,       \* the nodes whose memory is freed
  nRefCount, release, fDisconnect, fNetworkNode,
  quiet,         \* the nodes with nothing in vRecv and vSend
  spc, scopy, stodo,         \* socket thread: where, vNodesCopy, the part of it ahead
  mpc, mcopy, mtodo, mlock,  \* message thread; mlock is whose cs_vRecv or cs_vSend it has
  opc, optr, oip, oread, oage,   \* ThreadOpenConnections; oread is nRefCount as it read it
  upc, uptr, uip, uage           \* user interface

nodeVars == <<vNodes, vNodesDisconnected, deleted>>
refVars == <<nRefCount, release, fDisconnect, fNetworkNode, quiet>>
sVars == <<spc, scopy, stodo>>
mVars == <<mpc, mcopy, mtodo, mlock>>
oVars == <<opc, optr, oip, oread, oage>>
uVars == <<upc, uptr, uip, uage>>
vars == <<nodeVars, refVars, sVars, mVars, oVars, uVars>>

AllIps == OpenIps \cup UiIps \cup {NoIp}
Pointers == Nodes \cup {NoNode}

TypeOK ==
  /\ vNodes \subseteq Nodes /\ vNodesDisconnected \subseteq Nodes /\ deleted \subseteq Nodes
  /\ vNodes \cap vNodesDisconnected = {}
  /\ (vNodes \cup vNodesDisconnected) \cap deleted = {}
  /\ nRefCount \in [Nodes -> Int] /\ release \in [Nodes -> Nat]
  /\ fDisconnect \subseteq Nodes /\ fNetworkNode \subseteq Nodes /\ quiet \subseteq Nodes
  /\ spc \in {"disconnect", "accept", "copy", "service"}
  /\ scopy \subseteq Nodes /\ stodo \subseteq scopy
  /\ mpc \in {"copy", "work"} /\ mcopy \subseteq Nodes /\ mtodo \subseteq mcopy
  /\ mlock \in Pointers
  /\ opc \in {"idle", "find", "addref", "write", "dial", "flag"}
  /\ optr \in Pointers /\ oip \in AllIps /\ oread \in Int /\ oage \in 0..Grace
  /\ upc \in {"idle", "addref", "dial", "push"}
  /\ uptr \in Pointers /\ uip \in AllIps /\ uage \in Nat

Init ==
  /\ vNodes = {} /\ vNodesDisconnected = {} /\ deleted = {}
  /\ nRefCount = [n \in Nodes |-> 0] /\ release = [n \in Nodes |-> 0]
  /\ fDisconnect = {} /\ fNetworkNode = {} /\ quiet = {}
  /\ spc = "disconnect" /\ scopy = {} /\ stodo = {}
  /\ mpc = "copy" /\ mcopy = {} /\ mtodo = {} /\ mlock = NoNode
  /\ opc = "idle" /\ optr = NoNode /\ oip = NoIp /\ oread = 0 /\ oage = 0
  /\ upc = "idle" /\ uptr = NoNode /\ uip = NoIp /\ uage = 0

Unborn == Nodes \ (vNodes \cup vNodesDisconnected \cup deleted)
Existing(ip) == {n \in vNodes : Ip[n] = ip}

Positive(i) == IF i > 0 THEN i ELSE 0
GetRefCount(count, rel, n) == Positive(count[n]) + (IF rel[n] > 0 THEN 1 ELSE 0)

AddRefs(ns)  == [n \in Nodes |-> IF n \in ns THEN nRefCount[n] + 1 ELSE nRefCount[n]]
Releases(ns) == [n \in Nodes |-> IF n \in ns THEN nRefCount[n] - 1 ELSE nRefCount[n]]
AddTimedRef(n, timeout) ==
  [release EXCEPT ![n] = IF release[n] < timeout THEN timeout ELSE release[n]]

-----------------------------------------------------------------------------
\* ThreadSocketHandler.

\* fDisconnect, or nobody wants it and there is nothing left to read or send.
Unused == {n \in vNodes : \/ n \in fDisconnect
                          \/ GetRefCount(nRefCount, release, n) <= 0 /\ n \in quiet}

\* A thread in PushRequest has cs_mapRequests and cs_vSend.
Locked(n) == mlock = n \/ (upc = "push" /\ uptr = n)

Deletable(count, rel) ==
  {n \in vNodesDisconnected \cup Unused : GetRefCount(count, rel, n) <= 0 /\ ~Locked(n)}

\* Mutants: no grace in the disconnected pool; the reference of a peer is not released.
DisconnectAtOnce ==
  /\ spc = "disconnect"
  /\ nRefCount' = Releases(Unused \cap (fNetworkNode \cup InboundNodes))
  /\ fDisconnect' = fDisconnect \cup Unused
  /\ vNodes' = vNodes \ Unused
  /\ vNodesDisconnected' = (vNodesDisconnected \cup Unused) \ Deletable(nRefCount', release)
  /\ deleted' = deleted \cup Deletable(nRefCount', release)
  /\ spc' = "accept"
  /\ UNCHANGED <<release, fNetworkNode, quiet, scopy, stodo, mVars, oVars, uVars>>

DisconnectKeepsInbound ==
  /\ spc = "disconnect"
  /\ nRefCount' = Releases(Unused \cap fNetworkNode)
  /\ release' = [n \in Nodes |-> IF n \in Unused /\ release[n] < Grace THEN Grace ELSE release[n]]
  /\ fDisconnect' = fDisconnect \cup Unused
  /\ vNodes' = vNodes \ Unused
  /\ vNodesDisconnected' = (vNodesDisconnected \cup Unused) \ Deletable(nRefCount', release')
  /\ deleted' = deleted \cup Deletable(nRefCount', release')
  /\ spc' = "accept"
  /\ UNCHANGED <<fNetworkNode, quiet, scopy, stodo, mVars, oVars, uVars>>

\* Under cs_vNodes: nodes leave vNodes for the disconnected pool and keep at least Grace
\* there; those in the pool that nobody refers to are deleted.
DisconnectAndDelete ==
  /\ spc = "disconnect"
  /\ nRefCount' = Releases(Unused \cap (fNetworkNode \cup InboundNodes))
  /\ release' = [n \in Nodes |-> IF n \in Unused /\ release[n] < Grace THEN Grace ELSE release[n]]
  /\ fDisconnect' = fDisconnect \cup Unused
  /\ vNodes' = vNodes \ Unused
  /\ vNodesDisconnected' = (vNodesDisconnected \cup Unused) \ Deletable(nRefCount', release')
  /\ deleted' = deleted \cup Deletable(nRefCount', release')
  /\ spc' = "accept"
  /\ UNCHANGED <<fNetworkNode, quiet, scopy, stodo, mVars, oVars, uVars>>

\* One connection is accepted, or turned away, or there is none.
AcceptConnection ==
  /\ spc = "accept"
  /\ \/ UNCHANGED <<vNodes, nRefCount, quiet>>
     \/ /\ Cardinality(vNodes \cap InboundNodes) < MaxInbound
        /\ \E n \in Unborn \cap InboundNodes :
             /\ nRefCount' = AddRefs({n})
             /\ vNodes' = vNodes \cup {n}
             /\ quiet' = quiet \cup {n}
  /\ spc' = "copy"
  /\ UNCHANGED <<vNodesDisconnected, deleted, release, fDisconnect, fNetworkNode,
                 scopy, stodo, mVars, oVars, uVars>>

SocketCopy ==
  /\ spc = "copy"
  /\ scopy' = vNodes /\ stodo' = vNodes
  /\ nRefCount' = AddRefs(vNodes)
  /\ spc' = "service"
  /\ UNCHANGED <<nodeVars, release, fDisconnect, fNetworkNode, quiet, mVars, oVars, uVars>>

\* Receive, send, check for inactivity: the buffers fill or drain; an error, a close, a
\* flood or a timeout disconnects the node.
ServiceSocket(n) ==
  /\ spc = "service"
  /\ n \in stodo
  /\ stodo' = stodo \ {n}
  /\ quiet' \in {quiet \cup {n}, quiet \ {n}}
  /\ fDisconnect' \in {fDisconnect, fDisconnect \cup {n}}
  /\ UNCHANGED <<nodeVars, nRefCount, release, fNetworkNode, spc, scopy, mVars, oVars, uVars>>

SocketRelease ==
  /\ spc = "service"
  /\ stodo = {}
  /\ nRefCount' = Releases(scopy)
  /\ scopy' = {}
  /\ spc' = "disconnect"
  /\ UNCHANGED <<nodeVars, release, fDisconnect, fNetworkNode, quiet, stodo, mVars, oVars, uVars>>

SocketStep ==
  \/ DisconnectAndDelete
  \/ AcceptConnection
  \/ SocketCopy
  \/ \E n \in Nodes : ServiceSocket(n)
  \/ SocketRelease

-----------------------------------------------------------------------------
\* ThreadMessageHandler.  Mutant: the copy is used without a reference.
MessageCopyWithoutRefs ==
  /\ mpc = "copy"
  /\ mcopy' = vNodes /\ mtodo' = vNodes
  /\ mpc' = "work"
  /\ UNCHANGED <<nodeVars, refVars, mlock, sVars, oVars, uVars>>

MessageCopy ==
  /\ mpc = "copy"
  /\ mcopy' = vNodes /\ mtodo' = vNodes
  /\ nRefCount' = AddRefs(vNodes)
  /\ mpc' = "work"
  /\ UNCHANGED <<nodeVars, release, fDisconnect, fNetworkNode, quiet, mlock, sVars, oVars, uVars>>

\* ProcessMessages and SendMessages run under the node's locks, when they are free.
LockNode(n) ==
  /\ mpc = "work" /\ mlock = NoNode
  /\ n \in mtodo
  /\ mtodo' = mtodo \ {n}
  /\ mlock' \in {n, NoNode}
  /\ UNCHANGED <<nodeVars, refVars, mpc, mcopy, sVars, oVars, uVars>>

\* What they do to the node: buffers, and fDisconnect (self connection, flood, seed nodes).
HandleMessages ==
  /\ mlock # NoNode
  /\ quiet' \in {quiet \cup {mlock}, quiet \ {mlock}}
  /\ fDisconnect' \in {fDisconnect, fDisconnect \cup {mlock}}
  /\ mlock' = NoNode
  /\ UNCHANGED <<nodeVars, nRefCount, release, fNetworkNode, mpc, mcopy, mtodo, sVars, oVars, uVars>>

MessageRelease ==
  /\ mpc = "work" /\ mlock = NoNode
  /\ mtodo = {}
  /\ nRefCount' = Releases(mcopy)
  /\ mcopy' = {}
  /\ mpc' = "copy"
  /\ UNCHANGED <<nodeVars, release, fDisconnect, fNetworkNode, quiet, mtodo, mlock, sVars, oVars, uVars>>

MessageStep ==
  \/ MessageCopy
  \/ \E n \in Nodes : LockNode(n)
  \/ HandleMessages
  \/ MessageRelease

-----------------------------------------------------------------------------
\* ThreadOpenConnections: OpenNetworkConnection looks for the address, ConnectNode looks
\* again; a node that is there by then gets a counted reference outside cs_vNodes.
OpenNetworkConnection(ip) ==
  /\ opc = "idle"
  /\ Existing(ip) = {}
  /\ oip' = ip
  /\ opc' = "find"
  /\ UNCHANGED <<nodeVars, refVars, sVars, mVars, optr, oread, oage, uVars>>

FindForOpen ==
  /\ opc = "find"
  /\ \/ /\ Existing(oip) = {}
        /\ opc' = "dial"
        /\ UNCHANGED <<optr, oage>>
     \/ /\ optr' \in Existing(oip)
        /\ opc' = "addref"
        /\ oage' = 0
  /\ UNCHANGED <<nodeVars, refVars, sVars, mVars, oip, oread, uVars>>

\* nRefCount++ without a lock: a read, then a write.
ReadRefCount ==
  /\ opc = "addref"
  /\ oread' = nRefCount[optr]
  /\ opc' = "write"
  /\ UNCHANGED <<nodeVars, refVars, sVars, mVars, optr, oip, oage, uVars>>

\* Who changed the count meanwhile may also have written last.
WriteRefCount ==
  /\ opc = "write"
  /\ \/ nRefCount' = [nRefCount EXCEPT ![optr] = oread + 1]
     \/ nRefCount[optr] # oread /\ UNCHANGED nRefCount
  /\ opc' = "flag"
  /\ UNCHANGED <<nodeVars, release, fDisconnect, fNetworkNode, quiet, sVars, mVars,
                 optr, oip, oread, oage, uVars>>

\* A new node: a reference, and only then others can see it.  Its version message waits
\* in vSend.
DialForOpen ==
  /\ opc = "dial"
  /\ \/ /\ opc' = "idle"
        /\ UNCHANGED <<vNodes, nRefCount, optr>>
     \/ \E n \in Unborn \ InboundNodes :
          /\ Ip[n] = oip
          /\ nRefCount' = AddRefs({n})
          /\ vNodes' = vNodes \cup {n}
          /\ optr' = n
          /\ opc' = "flag"
  /\ oage' = 0
  /\ UNCHANGED <<vNodesDisconnected, deleted, release, fDisconnect, fNetworkNode, quiet,
                 sVars, mVars, oip, oread, uVars>>

\* pnode->nTimeConnected = ..., pnode->fNetworkNode = true
FlagNetworkNode ==
  /\ opc = "flag"
  /\ fNetworkNode' = fNetworkNode \cup {optr}
  /\ optr' = NoNode /\ oread' = 0 /\ oage' = 0
  /\ opc' = "idle"
  /\ UNCHANGED <<nodeVars, nRefCount, release, fDisconnect, quiet, sVars, mVars, oip, uVars>>

OpenStep ==
  \/ FindForOpen \/ ReadRefCount \/ WriteRefCount \/ DialForOpen \/ FlagNetworkNode

-----------------------------------------------------------------------------
\* The user interface: ConnectNode(addr, nTimeout), then pnode->PushRequest.
FindForUi(ip) ==
  /\ upc = "idle"
  /\ uip' = ip
  /\ \/ /\ Existing(ip) = {}
        /\ upc' = "dial"
        /\ UNCHANGED uptr
     \/ /\ uptr' \in Existing(ip)
        /\ upc' = "addref"
  /\ uage' = 0
  /\ UNCHANGED <<nodeVars, refVars, sVars, mVars, oVars>>

AddRefForUi ==
  /\ upc = "addref"
  /\ release' = AddTimedRef(uptr, UiTimeout)
  /\ uage' = 0
  /\ upc' = "push"
  /\ UNCHANGED <<nodeVars, nRefCount, fDisconnect, fNetworkNode, quiet, sVars, mVars, oVars, uptr, uip>>

DialForUi ==
  /\ upc = "dial"
  /\ uage' = 0
  /\ \/ /\ upc' = "idle"
        /\ UNCHANGED <<vNodes, release, uptr>>
     \/ \E n \in Unborn \ InboundNodes :
          /\ Ip[n] = uip
          /\ release' = AddTimedRef(n, UiTimeout)
          /\ vNodes' = vNodes \cup {n}
          /\ uptr' = n
          /\ upc' = "push"
  /\ UNCHANGED <<vNodesDisconnected, deleted, nRefCount, fDisconnect, fNetworkNode, quiet,
                 sVars, mVars, oVars, uip>>

PushRequest ==
  /\ upc = "push"
  /\ quiet' = quiet \ {uptr}
  /\ uptr' = NoNode /\ uage' = 0
  /\ upc' = "idle"
  /\ UNCHANGED <<nodeVars, nRefCount, release, fDisconnect, fNetworkNode, sVars, mVars, oVars, uip>>

UiStep == AddRefForUi \/ DialForUi \/ PushRequest

-----------------------------------------------------------------------------
\* Time passes, but not while it would keep a bare pointer for Grace, or one with a timed
\* reference for as long as that lasts.
Less(i) == IF i > 0 THEN i - 1 ELSE 0

OpenIsBare == opc \in {"addref", "write", "flag"}
UiIsBare == upc \in {"addref", "push"}

Prompt ==
  /\ OpenIsBare => oage + 1 < Grace
  /\ upc = "addref" => uage + 1 < Grace
  /\ upc = "push" => uage + 1 < UiTimeout

Tick ==
  /\ Prompt
  /\ release' = [n \in Nodes |-> Less(release[n])]
  /\ oage' = IF OpenIsBare THEN oage + 1 ELSE oage
  /\ uage' = IF UiIsBare THEN uage + 1 ELSE uage
  /\ UNCHANGED <<nodeVars, nRefCount, fDisconnect, fNetworkNode, quiet, sVars, mVars,
                 opc, optr, oip, oread, upc, uptr, uip>>

Next ==
  \/ SocketStep
  \/ MessageStep
  \/ \E ip \in OpenIps : OpenNetworkConnection(ip)
  \/ OpenStep
  \/ \E ip \in UiIps : FindForUi(ip)
  \/ UiStep
  \/ Tick

Spec == Init /\ [][Next]_vars

\* Each thread is scheduled, goes on with what it has begun, and time passes.
FairSpec ==
  /\ Spec
  /\ WF_vars(SocketStep) /\ WF_vars(MessageStep)
  /\ WF_vars(OpenStep) /\ WF_vars(UiStep)
  /\ WF_vars(Tick)
-----------------------------------------------------------------------------
\* Properties.

Copies(n) == (IF n \in scopy THEN 1 ELSE 0) + (IF n \in mcopy THEN 1 ELSE 0)

\* Whoever made the node still has its reference: the peer's connection, or
\* ThreadOpenConnections.
Owned(n) == n \in InboundNodes \cup fNetworkNode \/ (opc = "flag" /\ optr = n)

Held(n) == n \in scopy \cup mcopy \/ n \in {optr, uptr}

\* No thread has a pointer to a node whose memory is freed ("wait until threads are done
\* using it", net.cpp:788).
NoUseAfterFree == \A n \in deleted : ~Held(n)

\* The part of it that the 15 minutes guarantee whatever becomes of the counts: neither the
\* thread that deletes nor one that has just found a node in vNodes is left with freed
\* memory.
FinderIsSafe == \A n \in deleted : n \notin scopy \cup {optr, uptr}

\* The count never falls below the number of threads that work through a copy of vNodes
\* with the node in it, and as long as the node is in vNodes it is exactly those and the
\* owner: net.cpp counts by hand in nine places.
CountIsExact ==
  /\ \A n \in vNodes \cup vNodesDisconnected : nRefCount[n] >= Copies(n)
  /\ \A n \in vNodes : nRefCount[n] = Copies(n) + (IF Owned(n) THEN 1 ELSE 0)

\* A node that is to be disconnected is deleted in the end, if its maker has got round to
\* saying that it is a network node.
Reclaimed ==
  \A n \in Nodes :
    (n \in vNodes \cap fDisconnect /\ ~(opc = "flag" /\ optr = n)) ~> n \in deleted
================================================================================
