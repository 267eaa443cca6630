------------------------------- MODULE BlockSync -------------------------------
(***************************************************************************)
(* How a node downloads blocks (main.cpp, net.h): the version, inv,        *)
(* getdata, getblocks and block messages, SendMessages, AskFor and         *)
(* PushGetBlocks.  One node downloads from several peers that run the same *)
(* code; the variables of a peer are those of its CNode for us, as ours    *)
(* are those of our CNode for it.  A connection is two channels in order;  *)
(* a peer may go away, and any but the steady one may fall silent.         *)
(*                                                                         *)
(* A handler is one step, under cs_main.  Blocks are good: what AcceptBlock*)
(* does is ChainState.  Peers follow their branch as it grows.             *)
(*                                                                         *)
(* A tick is the two minutes of a retry.  Request times count from now, in *)
(* ticks; one that is past stays at 0 in mapAskFor, and two minutes past   *)
(* or never, which AskFor treats alike, is -1 in mapAlreadyAskedFor.       *)
(***************************************************************************)
EXTENDS Locator, SequencesExt

CONSTANTS
  Peers, Steady,   \* Steady stays connected and goes on answering
  Tips,            \* the blocks each peer may come to have as its best, by peer
  OurBlocks,       \* what we start with
  BlockLimit,      \* blocks announced by a getblocks: 500
  ByteLimit,       \* and half the send buffer
  Size,            \* of each block
  Prompt,          \* whether everything sent is answered within two minutes
  MaxDrops,        \* bound: how many times a peer goes away or falls silent
  NoBlock

SyncAssumption ==
  /\ Steady \in Peers
  /\ Tips \in [Peers -> SUBSET Blocks]
  /\ GenesisBlock \in OurBlocks /\ OurBlocks \subseteq Blocks
  /\ BlockLimit \in Nat \ {0}
  /\ Size \in [Blocks -> Nat]
  /\ Prompt \in BOOLEAN
  /\ MaxDrops \in Nat
  /\ NoBlock \notin Blocks

ASSUME SyncAssumption

VARIABLES
  mapBlockIndex, pindexBest, mapOrphanBlocks,
  mapAlreadyAskedFor,    \* when a block was last asked for, or is to be
  nAskedForBlocks,       \* whether the first node was asked
  connected,
  silent,                \* the peers that have stopped answering
  drops,                 \* how many went away or fell silent
  hadAtRest,             \* for Restarts: the blocks we had when the last one was found
  mapAskFor,             \* by peer: what to ask it for, with the delay, in order of delay
  lastGetBlocks,         \* by peer: the last getblocks sent to it
  toPeer, fromPeer,      \* the channels
  tip,                   \* of a peer: its best block
  setInventoryKnown, vInventoryToSend, hashContinue  \* in its CNode for us

chainVars == <<mapBlockIndex, pindexBest, mapOrphanBlocks>>
ourVars == <<mapAlreadyAskedFor, nAskedForBlocks, mapAskFor, lastGetBlocks>>
netVars == <<connected, silent, drops, hadAtRest>>
peerVars == <<tip, setInventoryKnown, vInventoryToSend, hashContinue>>
syncVars == <<chainVars, ourVars, peerVars, netVars, toPeer, fromPeer>>

Asks == [hash : Blocks, due : Nat]
GetBlocksMsgs == [type : {"getblocks"}, vHave : Seq(Blocks), hashStop : Blocks \cup {NoBlock}]
InvMsgs == [type : {"inv", "getdata"}, vInv : Seq(Blocks)]
BlockMsgs == [type : {"block"}, block : Blocks]

SyncTypeOK ==
  /\ mapBlockIndex \subseteq Blocks /\ mapOrphanBlocks \subseteq Blocks
  /\ pindexBest \in mapBlockIndex
  /\ \A b \in Blocks : mapAlreadyAskedFor[b] \in Nat \cup {-1}
  /\ nAskedForBlocks \in 0..1
  /\ connected \in [Peers -> BOOLEAN]
  /\ silent \subseteq Peers \ {Steady}
  /\ drops \in 0..MaxDrops /\ hadAtRest \in Nat
  /\ lastGetBlocks \in [Peers -> (Blocks \X (Blocks \cup {NoBlock})) \cup {<<>>}]
  /\ tip \in [Peers -> Blocks]
  /\ setInventoryKnown \in [Peers -> SUBSET Blocks]
  /\ hashContinue \in [Peers -> Blocks \cup {NoBlock}]
  /\ \A p \in Peers :
       /\ mapAskFor[p] \in Seq(Asks)
       /\ vInventoryToSend[p] \in Seq(Blocks)
       /\ toPeer[p] \in Seq(GetBlocksMsgs \cup InvMsgs)
       /\ fromPeer[p] \in Seq(InvMsgs \cup BlockMsgs)

Highest(bs) == CHOOSE b \in bs : \A c \in bs : Height[c] <= Height[b]

SyncInit ==
  /\ mapBlockIndex = OurBlocks /\ pindexBest = Highest(OurBlocks)
  /\ mapOrphanBlocks = {}
  /\ mapAlreadyAskedFor = [b \in Blocks |-> -1]
  /\ nAskedForBlocks = 0
  /\ connected = [p \in Peers |-> FALSE] /\ silent = {} /\ drops = 0 /\ hadAtRest = 0
  /\ mapAskFor = [p \in Peers |-> <<>>] /\ lastGetBlocks = [p \in Peers |-> <<>>]
  /\ toPeer = [p \in Peers |-> <<>>] /\ fromPeer = [p \in Peers |-> <<>>]
  /\ tip \in {f \in [Peers -> Blocks] : \A p \in Peers :
                f[p] \in Tips[p] /\ \A b \in Tips[p] : Height[f[p]] <= Height[b]}
  /\ setInventoryKnown = [p \in Peers |-> {}]
  /\ vInventoryToSend = [p \in Peers |-> <<>>]
  /\ hashContinue = [p \in Peers |-> NoBlock]

-----------------------------------------------------------------------------
(* Our side. *)

AlreadyHave(b) == b \in mapBlockIndex \cup mapOrphanBlocks

\* The orphans between b and the block that is missing; GetOrphanRoot is the lowest.
OrphanLine(b, orphans) ==
  {c \in Branch[b] \cap (orphans \cup {b}) :
     \A d \in Branch[b] : Height[d] > Height[c] => d \in orphans \cup {b}}
GetOrphanRoot(b, orphans) ==
  CHOOSE c \in OrphanLine(b, orphans) : Prev[c] \notin OrphanLine(b, orphans)

\* PushGetBlocks: what it sends, given the last request.
GetBlocksFor(begin, end, last) ==
  IF last = <<begin, end>> THEN <<>>
  ELSE <<[type |-> "getblocks", vHave |-> Locate(begin), hashStop |-> end]>>

\* The members of s whose places are in I, in the order of s.
Those(s, I) ==
  [k \in 1..Cardinality(I) |-> s[CHOOSE i \in I : Cardinality({j \in I : j <= i}) = k]]

\* mapAskFor.insert: behind what is due as early.
Inserted(ask, b, due) ==
  LET n == Cardinality({i \in DOMAIN ask : ask[i].due <= due})
  IN SubSeq(ask, 1, n) \o <<[hash |-> b, due |-> due]>> \o SubSeq(ask, n + 1, Len(ask))

\* Mutant: a second request is not put off.
AskNow(s, b) ==
  LET due == IF s.asked[b] >= 0 THEN s.asked[b] ELSE 0
  IN [s EXCEPT !.asked[b] = due, !.ask = Inserted(@, b, due)]

\* One retry after the last request for the block, made to any peer.
AskFor(s, b) ==
  LET due == s.asked[b] + 1
  IN [s EXCEPT !.asked[b] = due, !.ask = Inserted(@, b, due)]

\* One entry of an inv; s collects what the message changes.
HearOf(s, b) ==
  IF ~AlreadyHave(b) THEN AskFor(s, b)
  ELSE IF b \notin mapOrphanBlocks THEN s
  ELSE LET root == GetOrphanRoot(b, mapOrphanBlocks)
       IN [s EXCEPT !.out = @ \o GetBlocksFor(pindexBest, root, s.last),
                    !.last = <<pindexBest, root>>]

\* And all of them, one after the other.
HearOfAll(p, vInv) ==
  LET s[k \in 0..Len(vInv)] ==
        IF k = 0 THEN [asked |-> mapAlreadyAskedFor, ask |-> mapAskFor[p], last |-> lastGetBlocks[p],
                       out |-> <<>>]
        ELSE HearOf(s[k - 1], vInv[k])
  IN s[Len(vInv)]

ReceiveInv(p) ==
  /\ connected[p] /\ fromPeer[p] # <<>> /\ Head(fromPeer[p]).type = "inv"
  /\ LET s == HearOfAll(p, Head(fromPeer[p]).vInv)
     IN /\ mapAlreadyAskedFor' = s.asked
        /\ mapAskFor' = [mapAskFor EXCEPT ![p] = s.ask]
        /\ lastGetBlocks' = [lastGetBlocks EXCEPT ![p] = s.last]
        /\ toPeer' = [toPeer EXCEPT ![p] = @ \o s.out]
  /\ fromPeer' = [fromPeer EXCEPT ![p] = Tail(@)]
  /\ UNCHANGED <<chainVars, nAskedForBlocks, peerVars, netVars>>

\* The orphans that a new block connects, with it.
Connects(b) ==
  {b} \cup {c \in mapOrphanBlocks : b \in Branch[c] /\ Branch[c] \ Branch[b] \subseteq mapOrphanBlocks}

AcceptBlock(b) ==
  LET new == Connects(b)
      best == {c \in new : \A d \in new : Height[d] <= Height[c]}
  IN /\ mapBlockIndex' = mapBlockIndex \cup new
     /\ mapOrphanBlocks' = mapOrphanBlocks \ new
     /\ \E c \in best : pindexBest' = IF Height[c] > Height[pindexBest] THEN c ELSE pindexBest

HoldOrphan(p, b) ==
  LET root == GetOrphanRoot(b, mapOrphanBlocks)
  IN /\ mapOrphanBlocks' = mapOrphanBlocks \cup {b}
     /\ toPeer' = [toPeer EXCEPT ![p] = @ \o GetBlocksFor(pindexBest, root, lastGetBlocks[p])]
     /\ lastGetBlocks' = [lastGetBlocks EXCEPT ![p] = <<pindexBest, root>>]
     /\ UNCHANGED <<mapBlockIndex, pindexBest>>

ReceiveBlock(p) ==
  /\ connected[p] /\ fromPeer[p] # <<>> /\ Head(fromPeer[p]).type = "block"
  /\ fromPeer' = [fromPeer EXCEPT ![p] = Tail(@)]
  /\ LET b == Head(fromPeer[p]).block
     IN \/ AlreadyHave(b) /\ UNCHANGED <<chainVars, mapAlreadyAskedFor, lastGetBlocks, toPeer>>
        \/ /\ ~AlreadyHave(b) /\ Prev[b] \notin mapBlockIndex
           /\ HoldOrphan(p, b)
           /\ mapAlreadyAskedFor' = [mapAlreadyAskedFor EXCEPT ![b] = -1]
        \/ /\ ~AlreadyHave(b) /\ Prev[b] \in mapBlockIndex
           /\ AcceptBlock(b)
           /\ mapAlreadyAskedFor' = [mapAlreadyAskedFor EXCEPT ![b] = -1]
           /\ UNCHANGED <<lastGetBlocks, toPeer>>
  /\ UNCHANGED <<nAskedForBlocks, mapAskFor, peerVars, netVars>>

\* SendMessages: the part that asks.
SendGetData(p) ==
  LET due == {i \in DOMAIN mapAskFor[p] : mapAskFor[p][i].due = 0}
      wanted == Those(mapAskFor[p], {i \in due : ~AlreadyHave(mapAskFor[p][i].hash)})
  IN /\ connected[p] /\ due # {}
     /\ mapAskFor' = [mapAskFor EXCEPT ![p] = Those(@, DOMAIN @ \ due)]
     /\ toPeer' = [toPeer EXCEPT ![p] =
          IF wanted = <<>> THEN @
          ELSE Append(@, [type |-> "getdata", vInv |-> [i \in DOMAIN wanted |-> wanted[i].hash]])]
     /\ UNCHANGED <<chainVars, mapAlreadyAskedFor, nAskedForBlocks, lastGetBlocks, peerVars,
                    netVars, fromPeer>>

\* The version message of a new connection: the first node is asked for blocks, or the
\* only one.
Connect(p) ==
  /\ ~connected[p]
  /\ connected' = [connected EXCEPT ![p] = TRUE]
  /\ IF nAskedForBlocks = 0 \/ \A q \in Peers : ~connected[q]
     THEN /\ nAskedForBlocks' = 1
          /\ toPeer' = [toPeer EXCEPT ![p] = GetBlocksFor(pindexBest, NoBlock, <<>>)]
          /\ lastGetBlocks' = [lastGetBlocks EXCEPT ![p] = <<pindexBest, NoBlock>>]
     ELSE UNCHANGED <<nAskedForBlocks, toPeer, lastGetBlocks>>
  /\ UNCHANGED <<chainVars, mapAlreadyAskedFor, mapAskFor, peerVars, silent, drops, hadAtRest, fromPeer>>

\* Something can be done before two minutes are over.
Due(p) == \E i \in DOMAIN mapAskFor[p] : mapAskFor[p][i].due = 0
Busy(p) ==
  \/ fromPeer[p] # <<>> \/ Due(p)
  \/ p \notin silent /\ (toPeer[p] # <<>> \/ vInventoryToSend[p] # <<>>)
Quiet == \A p \in Peers : ~Busy(p) /\ mapAskFor[p] = <<>>
Settled == Quiet /\ \A b \in Blocks : mapAlreadyAskedFor[b] = -1

\* The blocks the steady peer will still find.
ToCome == {b \in Tips[Steady] : Height[b] > Height[tip[Steady]]}
MoreToCome == ToCome # {}
LastToCome == Cardinality(ToCome) = 1

\* Both ends of a connection delete their CNode.
Disconnect(p) ==
  /\ connected[p] /\ p # Steady /\ drops < MaxDrops /\ MoreToCome
  /\ drops' = drops + 1
  /\ silent' = silent \ {p}
  /\ connected' = [connected EXCEPT ![p] = FALSE]
  /\ mapAskFor' = [mapAskFor EXCEPT ![p] = <<>>]
  /\ lastGetBlocks' = [lastGetBlocks EXCEPT ![p] = <<>>]
  /\ toPeer' = [toPeer EXCEPT ![p] = <<>>]
  /\ fromPeer' = [fromPeer EXCEPT ![p] = <<>>]
  /\ setInventoryKnown' = [setInventoryKnown EXCEPT ![p] = {}]
  /\ vInventoryToSend' = [vInventoryToSend EXCEPT ![p] = <<>>]
  /\ hashContinue' = [hashContinue EXCEPT ![p] = NoBlock]
  /\ UNCHANGED <<chainVars, mapAlreadyAskedFor, nAskedForBlocks, tip, hadAtRest>>

\* A peer keeps the connection and answers no more.
FallSilent(p) ==
  /\ connected[p] /\ p \notin silent \cup {Steady} /\ drops < MaxDrops /\ MoreToCome
  /\ drops' = drops + 1
  /\ silent' = silent \cup {p}
  /\ UNCHANGED <<chainVars, ourVars, peerVars, connected, hadAtRest, toPeer, fromPeer>>

-----------------------------------------------------------------------------
(* The side of a peer. *)

\* PushInventory of each of s.
Announced(p, s) ==
  vInventoryToSend[p] \o Those(s, {i \in DOMAIN s : s[i] \notin setInventoryKnown[p]})

\* The peer's branch grows.  The last block of all is the steady peer's, when everything
\* has been at rest for two minutes.
Extend(p) ==
  /\ IF p = Steady THEN LastToCome => connected[p] /\ Settled ELSE MoreToCome
  /\ \E b \in Tips[p] : /\ Prev[b] = tip[p] /\ b # GenesisBlock
                        /\ tip' = [tip EXCEPT ![p] = b]
                        /\ vInventoryToSend' = [vInventoryToSend EXCEPT ![p] =
                             IF connected[p] THEN Announced(p, <<b>>) ELSE @]
  /\ hadAtRest' = IF p = Steady /\ LastToCome THEN Cardinality(mapBlockIndex) ELSE hadAtRest
  /\ UNCHANGED <<chainVars, ourVars, connected, silent, drops, toPeer, fromPeer, setInventoryKnown,
                 hashContinue>>

\* Mutant: the distance back is left out of the limit.
LimitAtFork(vHave, best) == BlockLimit

\* nLimit of getblocks.
Limit(vHave, best) == BlockLimit + GetDistanceBack(vHave, best)

\* The loop of getblocks: how many of the blocks it announces, and whether a limit ends it.
Batch(blocks, hashStop, nLimit) ==
  LET nBytes[n \in 0..Len(blocks)] == IF n = 0 THEN 0 ELSE nBytes[n - 1] + Size[blocks[n]]
      limits == {n \in 1..Len(blocks) : n >= nLimit \/ nBytes[n] >= ByteLimit}
      stops == {n \in 0..Len(blocks) - 1 : blocks[n + 1] = hashStop} \cup {Len(blocks)}
      end == CHOOSE n \in limits \cup stops : \A m \in limits \cup stops : n <= m
  IN [n |-> end, more |-> end \in limits]

ReceiveGetBlocks(p) ==
  /\ connected[p] /\ p \notin silent /\ toPeer[p] # <<>> /\ Head(toPeer[p]).type = "getblocks"
  /\ LET msg == Head(toPeer[p])
     IN \E rest \in {After(tip[p], GetBlockIndex(msg.vHave, tip[p]))} :
          \E batch \in {Batch(rest, msg.hashStop, Limit(msg.vHave, tip[p]))} :
            /\ vInventoryToSend' =
                 [vInventoryToSend EXCEPT ![p] = Announced(p, SubSeq(rest, 1, batch.n))]
            /\ hashContinue' = [hashContinue EXCEPT ![p] = IF batch.more THEN rest[batch.n] ELSE @]
  /\ toPeer' = [toPeer EXCEPT ![p] = Tail(@)]
  /\ UNCHANGED <<chainVars, ourVars, netVars, fromPeer, tip, setInventoryKnown>>

\* One entry of a getdata.
SendOne(p, s, b) ==
  IF b \notin Branch[tip[p]] THEN s
  ELSE LET sent == Append(s.out, [type |-> "block", block |-> b])
       IN IF b # s.continue THEN [s EXCEPT !.out = sent]
          ELSE [out |-> Append(sent, [type |-> "inv", vInv |-> <<tip[p]>>]), continue |-> NoBlock]

ServeAll(p, vInv) ==
  LET s[k \in 0..Len(vInv)] ==
        IF k = 0 THEN [out |-> <<>>, continue |-> hashContinue[p]] ELSE SendOne(p, s[k - 1], vInv[k])
  IN s[Len(vInv)]

ReceiveGetData(p) ==
  /\ connected[p] /\ p \notin silent /\ toPeer[p] # <<>> /\ Head(toPeer[p]).type = "getdata"
  /\ LET s == ServeAll(p, Head(toPeer[p]).vInv)
     IN /\ fromPeer' = [fromPeer EXCEPT ![p] = @ \o s.out]
        /\ hashContinue' = [hashContinue EXCEPT ![p] = s.continue]
  /\ toPeer' = [toPeer EXCEPT ![p] = Tail(@)]
  /\ UNCHANGED <<chainVars, ourVars, netVars, tip, setInventoryKnown, vInventoryToSend>>

\* The entries of s that are not known, each once.
Fresh(p, s) ==
  Those(s, {i \in DOMAIN s : s[i] \notin setInventoryKnown[p] /\ \A j \in 1..(i - 1) : s[j] # s[i]})

\* SendMessages: the part that announces.
SendInv(p) ==
  LET vInv == Fresh(p, vInventoryToSend[p])
  IN /\ connected[p] /\ p \notin silent /\ vInventoryToSend[p] # <<>>
     /\ vInventoryToSend' = [vInventoryToSend EXCEPT ![p] = <<>>]
     /\ setInventoryKnown' = [setInventoryKnown EXCEPT ![p] = @ \cup {vInv[i] : i \in DOMAIN vInv}]
     /\ fromPeer' = [fromPeer EXCEPT ![p] =
                       IF vInv = <<>> THEN @ ELSE Append(@, [type |-> "inv", vInv |-> vInv])]
     /\ UNCHANGED <<chainVars, ourVars, netVars, toPeer, tip, hashContinue>>

-----------------------------------------------------------------------------
\* Two minutes pass.
Tick ==
  /\ Prompt => \A p \in Peers : ~Busy(p)
  /\ mapAlreadyAskedFor' =
       [b \in Blocks |-> IF mapAlreadyAskedFor[b] = -1 THEN -1 ELSE mapAlreadyAskedFor[b] - 1]
  /\ mapAskFor' = [p \in Peers |-> [i \in DOMAIN mapAskFor[p] |->
                     [mapAskFor[p][i] EXCEPT !.due = IF @ = 0 THEN 0 ELSE @ - 1]]]
  /\ <<mapAlreadyAskedFor', mapAskFor'>> # <<mapAlreadyAskedFor, mapAskFor>>
  /\ UNCHANGED <<chainVars, nAskedForBlocks, lastGetBlocks, peerVars, netVars, toPeer, fromPeer>>

PeerStep(p) == ReceiveGetBlocks(p) \/ ReceiveGetData(p) \/ SendInv(p)
OurStep(p) == ReceiveInv(p) \/ ReceiveBlock(p) \/ SendGetData(p)

SyncNext ==
  \/ \E p \in Peers : \/ PeerStep(p) \/ OurStep(p)
                      \/ Connect(p) \/ Disconnect(p) \/ FallSilent(p) \/ Extend(p)
  \/ Tick

SyncSpec == SyncInit /\ [][SyncNext]_syncVars

\* What somebody sees to: the message threads, ours and those of the peers that answer,
\* the steady peer's miner, and the clock.
Attended ==
  \/ \E p \in Peers : PeerStep(p) \/ OurStep(p)
  \/ Connect(Steady) \/ Extend(Steady)
  \/ Tick

SyncFairSpec == SyncSpec /\ WF_syncVars(Attended)

-----------------------------------------------------------------------------
Carries(m, b) ==
  \/ m.type = "getdata" /\ b \in {m.vInv[i] : i \in DOMAIN m.vInv}
  \/ m.type = "block" /\ m.block = b

\* The requests for b and the answers to them that are under way with peers that answer.
UnderWay(b) ==
  UNION {({<<p, "to">>} \X {i \in DOMAIN toPeer[p] : Carries(toPeer[p][i], b)})
           \cup ({<<p, "from">>} \X {i \in DOMAIN fromPeer[p] : Carries(fromPeer[p][i], b)}) : p \in Peers \ silent}

\* As long as peers answer within two minutes, a block that several of them announce is
\* asked of one of them, and never when we have it (AskFor, mapAlreadyAskedFor).
OneRequest ==
  Prompt => \A b \in Blocks : Cardinality(UnderWay(b)) <= (IF AlreadyHave(b) THEN 0 ELSE 1)

\* Whatever the others did to bring us to rest behind a peer that answers, another block it
\* finds gets us further before we come to rest again.
Restarts ==
  connected[Steady] /\ ~MoreToCome /\ Quiet => Cardinality(mapBlockIndex) > hadAtRest

\* We get all the blocks of a lone peer.
Downloaded == <>[](tip[Steady] \in mapBlockIndex)

================================================================================
