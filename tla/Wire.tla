--------------------------------- MODULE Wire ---------------------------------
(***************************************************************************)
(* A connection between two of our nodes, as bytes (net.h, serialize.h,    *)
(* ThreadSocketHandler2, ProcessMessages).  Threads write messages into    *)
(* vSend, the socket thread carries them in pieces of any size, and the    *)
(* message thread of the other end cuts vRecv into messages again.  The    *)
(* form of the header changes during the handshake of old; the network may *)
(* change a byte.                                                          *)
(*                                                                         *)
(* A byte is a number.  The start of a message is 2 bytes of 4, its        *)
(* command one of 12, its size and its checksum one of 4 each.             *)
(***************************************************************************)
EXTENDS Integers, Sequences, SequencesExt

CONSTANTS
  Ends, Outbound,        \* two ends, and the one that connected
  MsgScript, UiScript,   \* by end: what its threads push, as [command, data]
  MaxAborts, MaxGarbled, \* bounds
  SendBufferSize, ReceiveBufferSize, MAX_SIZE

VARIABLES
  vSend, vRecv,          \* by end: CDataStream
  sendVersion, recvVersion,
  nHeaderStart, nMessageStart,
  holder,                \* by end: the thread in cs_vSend, or "none"
  todo,                  \* by end and thread: what it has yet to push
  step,                  \* by end and thread: how far it is with the first of them
  nVersion, reading,     \* by end: the peer's version; whether ProcessMessages runs
  hSocket,               \* by end: whether the connection is open
  underway,                  \* by end: what is on its way to it
  sent, delivered,       \* by end: the messages it completed, and those it took from vRecv
  past,                  \* "Version 0.2 obsoletes 20 Feb 2012"
  aborts, garbled

wireVars == <<vSend, vRecv, sendVersion, recvVersion, nHeaderStart, nMessageStart, holder, todo,
              step, nVersion, reading, hSocket, underway, sent, delivered, past, aborts, garbled>>
streamVars == <<vSend, nHeaderStart, nMessageStart, holder>>
takenVars == <<sendVersion, recvVersion, nVersion>>

Commands == 1..7
Messages == {m \in [command : Commands, data : Seq(Nat)] : Len(m.data) <= MAX_SIZE}

WireAssumption ==
  /\ \E n, m \in Ends : n # m /\ Ends = {n, m}
  /\ Outbound \in Ends
  /\ \A n \in Ends : MsgScript[n] \in Seq(Messages) /\ UiScript[n] \in Seq(Messages)
  /\ MaxAborts \in Nat /\ MaxGarbled \in Nat
  /\ SendBufferSize \in Nat /\ ReceiveBufferSize \in Nat /\ MAX_SIZE \in Nat \ {0}

ASSUME WireAssumption

Threads == {"msg", "ui"}
Peer(n) == CHOOSE m \in Ends : m # n

(***************************************************************************)
(* CDataStream: bytes and the place up to which they were read.            *)
(***************************************************************************)
Stream(bs) == [vch |-> bs, nReadPos |-> 0]
Bytes(s) == SubSeq(s.vch, s.nReadPos + 1, Len(s.vch))
Size(s) == Len(s.vch) - s.nReadPos
Resize(s, n) == [s EXCEPT !.vch = SubSeq(@, 1, s.nReadPos + n)]
Write(s, bs) == [s EXCEPT !.vch = @ \o bs]
\* erase from the front; "whenever we reach the end, we take the opportunity to clear".
EraseFront(s, n) == IF n = Size(s) THEN Stream(<<>>) ELSE [s EXCEPT !.nReadPos = @ + n]
Ignore(s, n) == EraseFront(s, n)
\* "special case for inserting at the front when there's room"
InsertFront(s, bs) ==
  LET before == SubSeq(s.vch, 1, s.nReadPos - Len(bs)) IN
  IF Len(bs) <= s.nReadPos
  THEN [vch |-> before \o bs \o Bytes(s), nReadPos |-> Len(before)]
  ELSE [s EXCEPT !.vch = SubSeq(@, 1, s.nReadPos) \o bs \o Bytes(s)]
Compact(s) == Stream(Bytes(s))
Overwrite(s, at, b) == [s EXCEPT !.vch[s.nReadPos + at] = b]

(***************************************************************************)
(* The header.                                                             *)
(***************************************************************************)
VERSION == 32430
pchMessageStart == <<8, 9>>
\* Data that differ in little have different hashes.
Hash(bs) == FoldLeft(LAMBDA h, b : (37 * h + b) % 9973, 100, bs)
\* Mutant: the first version that has it does not.
HasChecksumAfter(v) == v > 209
HasChecksum(v) == v >= 209
HeaderSize(v) == IF HasChecksum(v) THEN 5 ELSE 4
Header(command, v) == pchMessageStart \o <<command, 0>> \o (IF HasChecksum(v) THEN <<0>> ELSE <<>>)
IsValid(header) == header[3] \in Commands /\ header[4] <= MAX_SIZE

(***************************************************************************)
(* Sending: CNode::BeginMessage, <<, EndMessage and AbortMessage; a node   *)
(* we connect to gets our version from the constructor.                    *)
(***************************************************************************)
Message(command, data) == [command |-> command, data |-> data]
OurVersion == Message(1, <<3>>)
Verack == Message(2, <<>>)
Ping == Message(3, <<>>)
SetVersion == Message(0, <<>>)   \* no message: a step of the handler among those it pushes

Framed(m, v) ==
  LET header == Header(m.command, v)
      sized == [header EXCEPT ![4] = Len(m.data)]
  IN  (IF HasChecksum(v) THEN [sized EXCEPT ![5] = Hash(m.data)] ELSE sized) \o m.data

\* Two nodes that have just connected, before or after the date, or that have spoken since.
\* The handshake of old is looked at alone: sendVersion has no lock.
FormOf(way) == CASE way = "old" -> 0 [] way = "new" -> 209 [] way = "spoken" -> VERSION
Met(way, fresh) ==
  /\ past = (way # "old")
  /\ sendVersion = [n \in Ends |-> FormOf(way)] /\ recvVersion = [n \in Ends |-> FormOf(way)]
  /\ vSend = [n \in Ends |->
                Stream(IF fresh /\ n = Outbound THEN Framed(OurVersion, FormOf(way)) ELSE <<>>)]
  /\ sent = [n \in Ends |-> IF fresh /\ n = Outbound THEN <<OurVersion>> ELSE <<>>]
  /\ todo = [n \in Ends |-> [t \in Threads |->
               IF fresh THEN <<>> ELSE IF t = "msg" THEN MsgScript[n] ELSE UiScript[n]]]
  /\ nVersion = [n \in Ends |-> IF fresh THEN 0 ELSE VERSION]

WireInit(ways) ==
  /\ \E way \in ways : Met(way, way # "spoken")
  /\ vRecv = [n \in Ends |-> Stream(<<>>)]
  /\ nHeaderStart = [n \in Ends |-> -1] /\ nMessageStart = [n \in Ends |-> -1]
  /\ holder = [n \in Ends |-> "none"]
  /\ step = [n \in Ends |-> [t \in Threads |-> "begin"]]
  /\ reading = [n \in Ends |-> FALSE]
  /\ hSocket = [n \in Ends |-> TRUE] /\ underway = [n \in Ends |-> <<>>]
  /\ delivered = [n \in Ends |-> <<>>]
  /\ aborts = 0 /\ garbled = 0

Pushing(n, t, at) == todo[n][t] # <<>> /\ step[n][t] = at
NextStep(n, t, at) == step' = [step EXCEPT ![n][t] = at]
Done(n, t) == NextStep(n, t, "begin") /\ todo' = [todo EXCEPT ![n][t] = Tail(@)]

Enter(n, t) == holder[n] = "none" /\ holder' = [holder EXCEPT ![n] = t]

\* BeginMessage, and the data that are written behind the header.
BeginMessage(n, t) ==
  /\ Pushing(n, t, "begin") /\ Head(todo[n][t]) # SetVersion
  /\ Enter(n, t)
  /\ LET header == Header(Head(todo[n][t]).command, sendVersion[n]) IN
     /\ nHeaderStart' = [nHeaderStart EXCEPT ![n] = Size(vSend[n])]
     /\ nMessageStart' = [nMessageStart EXCEPT ![n] = Size(vSend[n]) + Len(header)]
     /\ vSend' = [vSend EXCEPT ![n] = Write(@, header \o Head(todo[n][t]).data)]
  /\ NextStep(n, t, "end")
  /\ UNCHANGED <<vRecv, takenVars, todo, reading, hSocket, underway, sent, delivered, past, aborts,
                 garbled>>

Leave(n) ==
  /\ nHeaderStart' = [nHeaderStart EXCEPT ![n] = -1]
  /\ nMessageStart' = [nMessageStart EXCEPT ![n] = -1]
  /\ holder' = [holder EXCEPT ![n] = "none"]

EndMessage(n, t) ==
  /\ Pushing(n, t, "end")
  /\ LET data == SubSeq(Bytes(vSend[n]), nMessageStart[n] + 1, Size(vSend[n]))
         sized == Overwrite(vSend[n], nHeaderStart[n] + 4, Len(data))
     IN  vSend' = [vSend EXCEPT ![n] =
                     IF HasChecksum(sendVersion[n]) THEN Overwrite(sized, nHeaderStart[n] + 5, Hash(data))
                     ELSE sized]
  /\ sent' = [sent EXCEPT ![n] = Append(@, Head(todo[n][t]))]
  /\ Leave(n) /\ Done(n, t)
  /\ UNCHANGED <<vRecv, takenVars, reading, hSocket, underway, delivered, past, aborts, garbled>>

\* The data could not be serialized, or -dropmessagestest has drawn this message.  (Of old a
\* verack that was dropped left the peer with the wrong form of the header.)
AbortMessage(n, t) ==
  /\ Pushing(n, t, "end") /\ aborts < MaxAborts /\ past
  /\ vSend' = [vSend EXCEPT ![n] = Resize(@, nHeaderStart[n])]
  /\ aborts' = aborts + 1
  /\ Leave(n) /\ Done(n, t)
  /\ UNCHANGED <<vRecv, takenVars, reading, hSocket, underway, sent, delivered, past, garbled>>

\* vSend.SetVersion of the version handler, after the verack.
ChangeVersion(n) ==
  /\ Pushing(n, "msg", "begin") /\ Head(todo[n]["msg"]) = SetVersion
  /\ sendVersion' = [sendVersion EXCEPT ![n] = VERSION]
  /\ Done(n, "msg")
  /\ UNCHANGED <<vRecv, streamVars, recvVersion, nVersion, reading, hSocket, underway, sent, delivered,
                 past, aborts, garbled>>

(***************************************************************************)
(* The socket thread: it passes by what other threads hold.                *)
(***************************************************************************)
\* The kernel takes a part or the rest.
SocketSend(n) ==
  /\ hSocket[n] /\ holder[n] = "none" /\ Size(vSend[n]) > 0
  /\ \E k \in {3, Size(vSend[n])} :
     /\ k <= Size(vSend[n])
     /\ underway' = [underway EXCEPT ![Peer(n)] =
                       IF hSocket[Peer(n)] THEN @ \o SubSeq(Bytes(vSend[n]), 1, k) ELSE @]
     /\ vSend' = [vSend EXCEPT ![n] = EraseFront(@, k)]
     /\ hSocket' = [hSocket EXCEPT ![n] = Size(vSend'[n]) <= SendBufferSize]
  /\ UNCHANGED <<vRecv, takenVars, nHeaderStart, nMessageStart, holder, todo, step, reading, sent,
                 delivered, past, aborts, garbled>>

\* A byte at a time: a piece is as good as several that nobody looked at in between.
SocketRecv(n) ==
  /\ hSocket[n] /\ ~reading[n]
  /\ IF Size(vRecv[n]) > ReceiveBufferSize \/ (underway[n] = <<>> /\ ~hSocket[Peer(n)])
     THEN hSocket' = [hSocket EXCEPT ![n] = FALSE] /\ UNCHANGED <<underway, vRecv>>
     ELSE /\ underway[n] # <<>>
          /\ vRecv' = [vRecv EXCEPT ![n] = Write(@, <<Head(underway[n])>>)]
          /\ underway' = [underway EXCEPT ![n] = Tail(@)]
          /\ UNCHANGED hSocket
  /\ UNCHANGED <<streamVars, takenVars, todo, step, reading, sent, delivered, past, aborts, garbled>>

\* The network changes a byte, the one that arrives next, to the node that was called.
Garble(n) ==
  /\ past /\ n # Outbound /\ garbled < MaxGarbled
  /\ underway[n] # <<>> /\ \E b \in {0, 9} : underway' = [underway EXCEPT ![n][1] = b]
  /\ garbled' = garbled + 1
  /\ UNCHANGED <<vRecv, streamVars, takenVars, todo, step, reading, hSocket, sent, delivered, past, aborts>>

(***************************************************************************)
(* The message thread: ProcessMessages, one message at a time, with        *)
(* cs_vRecv until it waits for more; and the part of ProcessMessage that   *)
(* is about the connection.                                                *)
(***************************************************************************)
StartsAt(bs, i) == SubSeq(bs, i + 1, i + Len(pchMessageStart)) = pchMessageStart
\* How many bytes come before the next message start.
ScanForStart(bs) ==
  LET found == {i \in 0..Len(bs) - Len(pchMessageStart) : StartsAt(bs, i)}
  IN  IF found = {} THEN Len(bs) ELSE CHOOSE i \in found : \A j \in found : i <= j

\* What one turn of the loop does to vRecv: the rest, whether the loop goes on, and the message.
Turn(n) ==
  LET s == vRecv[n]
      nHeaderSize == HeaderSize(recvVersion[n])
      start == ScanForStart(Bytes(s))
      left == EraseFront(s, start)
      header == SubSeq(Bytes(left), 1, nHeaderSize)
      behind == Ignore(left, nHeaderSize)
      data == SubSeq(Bytes(behind), 1, header[4])
      none == [command |-> -1]
      Result(rest, on, m) == [rest |-> rest, on |-> on, m |-> m]
  IN  IF Size(s) - start < nHeaderSize
      THEN Result(IF Size(s) > nHeaderSize THEN EraseFront(s, Size(s) - nHeaderSize) ELSE s, FALSE, none)
      ELSE IF ~IsValid(header) THEN Result(behind, TRUE, none)
      ELSE IF header[4] > Size(behind) THEN Result(InsertFront(behind, header), FALSE, none)
      ELSE IF HasChecksum(recvVersion[n]) /\ Hash(data) # header[5] THEN Result(behind, TRUE, none)
      ELSE Result(Ignore(behind, header[4]), TRUE, Message(header[3], data))

AnswerInNewForm == <<SetVersion, Verack>>
\* The verack still goes out in the form of before.
Answer == <<Verack, SetVersion>>
\* "Be shy and don't send version until we hear", verack, and what comes after.
ProcessMessage(n, m) ==
  \/ /\ m.command = 1 /\ nVersion[n] = 0
     /\ nVersion' = [nVersion EXCEPT ![n] = VERSION]
     /\ todo' = [todo EXCEPT ![n]["msg"] =
                   (IF n = Outbound THEN <<>> ELSE <<OurVersion>>) \o Answer \o <<Ping>>]
     /\ UNCHANGED recvVersion
  \/ /\ m.command = 2 /\ nVersion[n] # 0
     /\ recvVersion' = [recvVersion EXCEPT ![n] = VERSION]
     /\ UNCHANGED <<nVersion, todo>>
  \/ /\ ~(m.command = 1 /\ nVersion[n] = 0) /\ ~(m.command = 2 /\ nVersion[n] # 0)
     /\ UNCHANGED <<nVersion, todo, recvVersion>>

ProcessMessages(n) ==
  /\ Size(vRecv[n]) > 0 /\ todo[n]["msg"] = <<>>
  /\ LET turn == Turn(n) IN
     /\ turn.rest # vRecv[n] \/ reading[n]
     /\ reading' = [reading EXCEPT ![n] = turn.on /\ Size(turn.rest) > 0]
     /\ vRecv' = [vRecv EXCEPT ![n] = IF turn.on THEN turn.rest ELSE Compact(turn.rest)]
     /\ IF turn.m.command = -1 THEN UNCHANGED <<nVersion, todo, recvVersion, delivered>>
        ELSE /\ ProcessMessage(n, turn.m)
             /\ delivered' = [delivered EXCEPT ![n] = Append(@, turn.m)]
  /\ UNCHANGED <<streamVars, sendVersion, step, hSocket, underway, sent, past, aborts, garbled>>

WireNext ==
  \E n \in Ends :
    \/ \E t \in Threads : BeginMessage(n, t) \/ EndMessage(n, t) \/ AbortMessage(n, t)
    \/ ChangeVersion(n) \/ SocketSend(n) \/ SocketRecv(n) \/ Garble(n) \/ ProcessMessages(n)

(***************************************************************************)
(* Properties                                                              *)
(***************************************************************************)
\* Everything that left one end was looked at by the other.
Settled(n) ==
  /\ \A m \in Ends : hSocket[m]
  /\ Size(vSend[Peer(n)]) = 0 /\ underway[n] = <<>> /\ holder[Peer(n)] = "none"
  /\ todo[n]["msg"] = <<>> /\ ~reading[n] /\ Turn(n).rest = vRecv[n]
\* The header that ProcessMessages waits behind is one whose size was changed.
Waits(n) == Size(vRecv[n]) >= HeaderSize(recvVersion[n])

\* Messages arrive whole, once and in the order in which they were completed, whichever threads
\* pushed them, in whatever pieces they came and in whatever form their header is; and none
\* stays behind (BeginMessage to EndMessage under cs_vSend, ProcessMessages).
ArrivesInOrder ==
  garbled = 0 =>
    \A n \in Ends :
      /\ IsPrefix(delivered[n], sent[Peer(n)])
      /\ Settled(n) => delivered[n] = sent[Peer(n)] /\ Size(vRecv[n]) = 0

Data(s) == [i \in DOMAIN s |-> s[i].data]
\* A changed byte costs at most its message and the one after it: what comes later is found
\* again, unless it waits behind a wrong size, and no data come out that were not sent.  (The
\* checksum does not cover the command.)
Recovers ==
  \A n \in Ends :
    LET s == Data(sent[Peer(n)])
        lost == Len(s) - Len(delivered[n])
    IN  /\ \E i \in 0..Len(s), k \in 0..2 :
             IsPrefix(Data(delivered[n]), SubSeq(s, 1, i) \o SubSeq(s, i + 1 + k, Len(s)))
        /\ Settled(n) /\ ~Waits(n) => lost <= 2
=============================================================================
