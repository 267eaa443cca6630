--------------------------------- MODULE Irc ----------------------------------
(***************************************************************************)
(* How nodes find the first of each other on IRC (irc.cpp): a node that    *)
(* accepts connections takes its address for a name, joins a channel, asks *)
(* who is there and listens to who joins.  The server is external: it does *)
(* what it is told by one line after the other, and may go on for a while  *)
(* with somebody whose connection is lost.                                 *)
(***************************************************************************)
EXTENDS Integers, SequencesExt

CONSTANTS
  Seeders,       \* the nodes that run the thread
  HomeAddresses,
  HomeSettings,  \* what may be the case at the start: homes, proxies, and who knows its address
  IrcChannels,   \* the ten channels that one is chosen of
  MaxSessions,   \* bound: how often they connect in all
  MaxIrcBreaks, MaxPings  \* bounds

ASSUME IrcAssumption ==
  /\ IsFiniteSet(Seeders) /\ -1 \notin IrcChannels
  /\ MaxSessions \in Nat /\ MaxIrcBreaks \in Nat /\ MaxPings \in Nat

VARIABLES
  home,          \* the address that each has
  proxy,         \* "no", "proxy", or "tor" if it is the one of Tor
  ircAt,         \* where each thread is
  localKnown,    \* the nodes that know their own address (addrLocalHost.IsRoutable)
  fNameInUse,
  strMyName,
  nErrorWait, nRetryWait,
  learned,       \* the addresses that each has got
  linked,        \* the nodes whose connection stands
  said,          \* the lines on the way to the server, and
  lines,         \* from it
  nick, inChannel,  \* what the server has of each
  ghosts,        \* the names and channels of sessions whose connections are lost
  sessions, nIrcBreaks, nPings
ircOptions == <<home, proxy>>
waits == <<nErrorWait, nRetryWait>>
atServer == <<nick, inChannel, ghosts>>
ircBounds == <<sessions, nIrcBreaks, nPings>>
ircKnown == <<localKnown, fNameInUse, strMyName, learned>>
ircVars == <<ircOptions, ircAt, ircKnown, waits, linked, said, lines, atServer, ircBounds>>

NoName == <<"none">>
NoChannel == -1
\* EncodeAddress: "u" and the address.
EncodeAddress(address) == <<"u", address>>
RandomName(n) == <<"x", n>>
\* DecodeAddress, of a name that begins with 'u': the checksum tells what is no address.
Decoded(name) == {address \in HomeAddresses : name = EncodeAddress(address)}

IrcInit(settings) ==
  /\ \E s \in settings : home = s.home /\ proxy = s.proxy /\ localKnown = s.localKnown
  /\ ircAt = [n \in Seeders |-> "connect"]
  /\ fNameInUse = {} /\ strMyName = [n \in Seeders |-> NoName]
  /\ nErrorWait = [n \in Seeders |-> 10] /\ nRetryWait = [n \in Seeders |-> 10]
  /\ learned = [n \in Seeders |-> {}]
  /\ linked = {} /\ ghosts = {}
  /\ said = [n \in Seeders |-> <<>>] /\ lines = [n \in Seeders |-> <<>>]
  /\ nick = [n \in Seeders |-> NoName] /\ inChannel = [n \in Seeders |-> NoChannel]
  /\ sessions = 0 /\ nIrcBreaks = 0 /\ nPings = 0

-----------------------------------------------------------------------------
\* The server.
Line(what, name) == [what |-> what, name |-> name]
NamesTaken == {nick[n] : n \in Seeders} \cup {g[1] : g \in ghosts}
Members(c) == {n \in Seeders : inChannel[n] = c}
NamesIn(c) == {nick[n] : n \in Members(c)} \cup {g[1] : g \in {h \in ghosts : h[2] = c}}

Greet(n) ==
  /\ n \in linked /\ ircAt[n] = "hello" /\ lines[n] = <<>>
  /\ lines' = [lines EXCEPT ![n] = <<Line("hostname", NoName)>>]
  /\ UNCHANGED <<ircOptions, ircAt, ircKnown, waits, linked, said, atServer, ircBounds>>

\* It does what n says: a name that is taken is refused, by 433; who joins is told to the others,
\* and itself; USERHOST is answered by an address or a name that says nothing.
Obey(n) ==
  /\ n \in linked /\ said[n] # <<>>
  /\ said' = [said EXCEPT ![n] = Tail(@)]
  /\ LET command == Head(said[n])
         Answers(line) == lines' = [lines EXCEPT ![n] = Append(@, line)]
     IN \/ /\ command.what = "nick" /\ UNCHANGED <<inChannel, ghosts>>
           /\ IF command.name \in NamesTaken \ {nick[n]}
              THEN Answers(Line("433", NoName)) /\ UNCHANGED nick
              ELSE /\ nick' = [nick EXCEPT ![n] = command.name]
                   /\ IF nick[n] = NoName THEN Answers(Line("004", NoName)) ELSE UNCHANGED lines
        \/ /\ command.what = "userhost" /\ UNCHANGED atServer
           /\ Answers(Line("302", EncodeAddress(home[n]))) \/ Answers(Line("302", NoName))
        \/ /\ command.what = "join" /\ UNCHANGED <<nick, ghosts>>
           /\ inChannel' = [inChannel EXCEPT ![n] = command.name]
           /\ lines' = [m \in Seeders |-> IF m \in Members(command.name) \cup {n}
                                          THEN Append(lines[m], Line("join", nick[n])) ELSE lines[m]]
        \/ /\ command.what = "who" /\ UNCHANGED atServer
           /\ lines' = [lines EXCEPT ![n] =
                          @ \o SetToSeq({Line("352", name) : name \in NamesIn(inChannel[n])})]
        \/ command.what = "pong" /\ UNCHANGED <<lines, atServer>>
  /\ UNCHANGED <<ircOptions, ircAt, ircKnown, waits, linked, ircBounds>>

ServerPings(n) ==
  /\ n \in linked /\ nick[n] # NoName /\ nPings < MaxPings /\ nPings' = nPings + 1
  /\ lines' = [lines EXCEPT ![n] = Append(@, Line("ping", NoName))]
  /\ UNCHANGED <<ircOptions, ircAt, ircKnown, waits, linked, said, atServer, sessions, nIrcBreaks>>

\* A connection breaks: what is on its way is lost, but for some of the lines to n.  The server
\* knows at once, or keeps the session for a while.
BreakIrc(n) ==
  /\ n \in linked /\ nIrcBreaks < MaxIrcBreaks /\ nIrcBreaks' = nIrcBreaks + 1
  /\ linked' = linked \ {n}
  /\ said' = [said EXCEPT ![n] = <<>>]
  /\ \E k \in 0..Len(lines[n]) : lines' = [lines EXCEPT ![n] = SubSeq(@, 1, k)]
  /\ ghosts' \in {ghosts, ghosts \cup {g \in {<<nick[n], inChannel[n]>>} : nick[n] # NoName}}
  /\ nick' = [nick EXCEPT ![n] = NoName] /\ inChannel' = [inChannel EXCEPT ![n] = NoChannel]
  /\ UNCHANGED <<ircOptions, ircAt, ircKnown, waits, sessions, nPings>>
GhostLeaves ==
  /\ ghosts # {} /\ ghosts' = {}
  /\ UNCHANGED <<ircOptions, ircAt, ircKnown, waits, linked, said, lines, nick, inChannel, ircBounds>>

-----------------------------------------------------------------------------
Longer(wait) == (wait * 11) \div 10 + 60
ErrorWait(n) == nErrorWait' = [nErrorWait EXCEPT ![n] = Longer(@)] /\ UNCHANGED nRetryWait

\* ConnectSocket, which may fail; then Wait.
ConnectIrc(n) ==
  /\ ircAt[n] = "connect" /\ sessions < MaxSessions
  /\ sessions' = sessions + 1
  /\ \/ ircAt' = [ircAt EXCEPT ![n] = "hello"] /\ linked' = linked \cup {n} /\ UNCHANGED waits
     \/ ircAt' = [ircAt EXCEPT ![n] = "wait"] /\ UNCHANGED linked /\ ErrorWait(n)
  /\ UNCHANGED <<ircOptions, ircKnown, said, lines, atServer, nIrcBreaks, nPings>>
Wait(n) ==
  /\ ircAt[n] = "wait" /\ ircAt' = [ircAt EXCEPT ![n] = "connect"]
  /\ UNCHANGED <<ircOptions, ircKnown, waits, linked, said, lines, atServer, ircBounds>>

\* closesocket.  The server is told at once.
Closed(n) ==
  /\ linked' = linked \ {n}
  /\ said' = [said EXCEPT ![n] = <<>>] /\ lines' = [lines EXCEPT ![n] = <<>>]
  /\ nick' = [nick EXCEPT ![n] = NoName] /\ inChannel' = [inChannel EXCEPT ![n] = NoChannel]
  /\ UNCHANGED ghosts

\* RecvLineIRC: the next line; PING is answered and not seen by those who wait for a line.
Reads(n, what) == lines[n] # <<>> /\ Head(lines[n]).what = what
Recv(n) == lines' = [lines EXCEPT ![n] = Tail(@)]
Says(n, commands) == said' = [said EXCEPT ![n] = IF n \in linked THEN @ \o commands ELSE @]
Command(what, name) == [what |-> what, name |-> name]
Pong(n) ==
  /\ Reads(n, "ping") /\ Recv(n) /\ Says(n, <<Command("pong", NoName)>>)
  /\ UNCHANGED <<ircOptions, ircAt, ircKnown, waits, linked, atServer, ircBounds>>
\* The line that each place waits for; the others are passed over (RecvUntil, RecvCodeLine).
Awaited(at) ==
  CASE at = "hello" -> {"hostname"} [] at = "name" -> {"004", "433"} [] at = "userhost" -> {"302"}
    [] at = "listen" -> {"352", "join"} [] OTHER -> {}
Skip(n) ==
  /\ lines[n] # <<>> /\ Head(lines[n]).what \notin Awaited(ircAt[n]) \cup {"ping"}
  /\ ircAt[n] \in {"hello", "name", "userhost", "listen"}
  /\ Recv(n)
  /\ UNCHANGED <<ircOptions, ircAt, ircKnown, waits, linked, said, atServer, ircBounds>>

TakeName(n) ==
  /\ ircAt[n] = "hello" /\ Reads(n, "hostname") /\ Recv(n)
  /\ LET name == IF n \in localKnown \ fNameInUse /\ proxy[n] = "no"
                 THEN EncodeAddress(home[n]) ELSE RandomName(n)
     IN strMyName' = [strMyName EXCEPT ![n] = name] /\ Says(n, <<Command("nick", name)>>)
  /\ ircAt' = [ircAt EXCEPT ![n] = "name"]
  /\ UNCHANGED <<ircOptions, localKnown, fNameInUse, learned, waits, linked, atServer, ircBounds>>
NameTaken(n) ==
  /\ ircAt[n] = "name" /\ Reads(n, "433") /\ Closed(n)
  /\ fNameInUse' = fNameInUse \cup {n}
  /\ ircAt' = [ircAt EXCEPT ![n] = "wait"]
  /\ UNCHANGED <<ircOptions, localKnown, strMyName, learned, waits, ircBounds>>
Registered(n) ==
  /\ ircAt[n] = "name" /\ Reads(n, "004") /\ Recv(n)
  /\ Says(n, <<Command("userhost", strMyName[n])>>)
  /\ ircAt' = [ircAt EXCEPT ![n] = "userhost"]
  /\ UNCHANGED <<ircOptions, ircKnown, waits, linked, atServer, ircBounds>>

\* "randomly join".
JoinChannel(n, commands) ==
  /\ \E c \in IrcChannels : Says(n, commands \o <<Command("join", c), Command("who", c)>>)
  /\ ircAt' = [ircAt EXCEPT ![n] = "listen"]
\* GetIPFromIRC and "re-nick before joining the channel".
ReNick(n) ==
  /\ ircAt[n] = "userhost"
  /\ \/ /\ Reads(n, "302") /\ Head(lines[n]).name = EncodeAddress(home[n]) /\ proxy[n] = "no"
        /\ Recv(n)
        /\ localKnown' = localKnown \cup {n}
        /\ strMyName' = [strMyName EXCEPT ![n] = EncodeAddress(home[n])]
        /\ JoinChannel(n, <<Command("nick", EncodeAddress(home[n]))>>)
     \/ /\ \/ Reads(n, "302") /\ (Head(lines[n]).name = NoName \/ proxy[n] # "no") /\ Recv(n)
           \/ lines[n] = <<>> /\ n \notin linked /\ UNCHANGED lines
        /\ UNCHANGED <<localKnown, strMyName>>
        /\ JoinChannel(n, <<>>)
  /\ UNCHANGED <<ircOptions, fNameInUse, learned, waits, linked, atServer, ircBounds>>

\* A name of the list or of one who joins; AddAddress does not take one's own.
Learn(n) ==
  /\ ircAt[n] = "listen" /\ (Reads(n, "352") \/ Reads(n, "join")) /\ Recv(n)
  /\ learned' = [learned EXCEPT ![n] =
                   @ \cup (Decoded(Head(lines[n]).name) \ {home[m] : m \in {n} \cap localKnown})]
  /\ UNCHANGED <<ircOptions, ircAt, localKnown, fNameInUse, strMyName, waits, linked, said, atServer, ircBounds>>

\* The socket is closed: while it waits for a line, or in the channel, for less than
\* twenty minutes or longer ("IRC usually blocks TOR, so only try once").
SocketClosed(n) ==
  /\ n \notin linked /\ lines[n] = <<>>
  /\ \/ /\ ircAt[n] \in {"hello", "name"} /\ ErrorWait(n)
        /\ ircAt' = [ircAt EXCEPT ![n] = "wait"]
     \/ /\ ircAt[n] = "listen"
        /\ ircAt' = [ircAt EXCEPT ![n] = IF proxy[n] = "tor" THEN "done" ELSE "wait"]
        /\ \E share \in {1, 3} :
             /\ nErrorWait' = [nErrorWait EXCEPT ![n] = @ \div share]
             /\ nRetryWait' = [nRetryWait EXCEPT ![n] =
                                 IF proxy[n] = "tor" THEN @ ELSE Longer(@ \div share)]
  /\ UNCHANGED <<ircOptions, ircKnown, linked, said, lines, atServer, ircBounds>>

IrcNext ==
  \/ \E n \in Seeders :
       \/ Greet(n) \/ Obey(n) \/ ServerPings(n) \/ BreakIrc(n)
       \/ ConnectIrc(n) \/ Wait(n) \/ Pong(n) \/ Skip(n) \/ TakeName(n) \/ NameTaken(n)
       \/ Registered(n) \/ ReNick(n) \/ Learn(n) \/ SocketClosed(n)
  \/ GhostLeaves

-----------------------------------------------------------------------------
\* Two nodes in one channel that have read all lines know the address of each other if it is
\* the name of the other, whichever came first and whoever's old session is still there.
Listens(n) == n \in linked /\ ircAt[n] = "listen" /\ said[n] = <<>> /\ lines[n] = <<>>
FindOneAnother ==
  \A n, m \in {s \in Seeders : Listens(s)} :
    inChannel[n] = inChannel[m] => Decoded(nick[m]) \subseteq learned[n] \cup {home[n]}
\* A node learns of those only who take connections: the address of one behind a proxy is
\* no name, however often it is told the address or has to take another name.
ProxyIsNotNamed ==
  \A n \in {s \in Seeders : proxy[s] # "no"} :
    (\A m \in Seeders \ {n} : home[m] # home[n]) =>
      EncodeAddress(home[n]) \notin NamesTaken /\ \A m \in Seeders : home[n] \notin learned[m]
IrcIsRight == FindOneAnother /\ ProxyIsNotNamed
=============================================================================
