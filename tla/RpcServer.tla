------------------------------- MODULE RpcServer -------------------------------
(***************************************************************************)
(* The server of the RPC methods and those who call it (rpc.cpp): one      *)
(* thread that takes connections in turn, reads a request with the help of *)
(* another thread that it waits for only so long, executes it and replies. *)
(* A call is what matters of a request: where it comes from, the password  *)
(* it gives, and what it asks; a method is told by what becomes of it.     *)
(***************************************************************************)
EXTENDS Sequences, Integers, FiniteSets

CONSTANTS
  RpcClients,      \* each makes one call, whose id is its own
  RpcCalls,     \* the calls there may be
  NoCaller,
  MaxTimeouts,  \* bound: how many requests come too late
  MaxLost       \* bound: how many connections are lost

Codes == [text |-> -32700, nomethod |-> -32600, params |-> -32600, unknown |-> -32601,
          listed |-> 0, unlisted |-> 0, failing |-> -1, refused |-> -5, stop |-> 0]
AllowInSafeMode == {"listed", "failing", "refused", "stop"}

ASSUME RpcAssumption ==
  /\ RpcCalls \subseteq [address : {"loopback", "allowed", "elsewhere"}, password : {"right", "wrong", "none"},
                         asks : DOMAIN Codes]
  /\ NoCaller \notin RpcClients /\ MaxTimeouts \in Nat /\ MaxLost \in Nat

VARIABLES
  rpcCall,      \* what each caller asks
  connection,   \* "none", "open", "sent" when all of the request is; "lost" before that, "gone"
                \* after it; "closed" by the server
  acceptQueue,
  serving,      \* whose request is read or executed
  request,      \* what was read of it: "none", "whole", "cut", "garbled", or "done"
  result,       \* what the method returned, until it is sent
  executed,     \* how often the method of each was executed
  told,         \* the reply that each caller got
  strWarning,   \* that GetWarnings has one
  lateReaders,  \* how many threads still read with what is no longer theirs
  nTimeouts, nLost,
  rpcEnd        \* "no", "asked" for by stop, "soon" once fShutdown is set, "yes"
clientState == <<connection, acceptQueue, told>>
server == <<serving, request, result, executed>>
counts == <<rpcCall, nTimeouts, nLost>>
rest == <<strWarning, lateReaders, rpcEnd>>
rpcVars == <<clientState, server, counts, rest>>

Nothing == [status |-> 0, code |-> 0, id |-> NoCaller]
Reply(status, code, id) == [status |-> status, code |-> code, id |-> id]
\* ErrorReply: the status goes with the code.
ErrorReply(code, id) ==
  Reply(CASE code = -32600 -> 400 [] code = -32601 -> 404 [] OTHER -> 500, code, id)
\* What is to be sent for what a method returned, or threw.
ReplyFor(code, id) == IF code = 0 THEN Reply(200, 0, id) ELSE ErrorReply(code, id)

RpcInit(calls) ==
  /\ rpcCall \in [RpcClients -> calls]
  /\ connection = [c \in RpcClients |-> "none"] /\ acceptQueue = <<>>
  /\ serving = NoCaller /\ request = "none" /\ lateReaders = 0 /\ result = 0
  /\ executed = [c \in RpcClients |-> 0] /\ told = [c \in RpcClients |-> Nothing]
  /\ strWarning = FALSE /\ nTimeouts = 0 /\ nLost = 0 /\ rpcEnd = "no"

-----------------------------------------------------------------------------
\* CallRPC: it connects, sends its request and waits for the reply.
Connect(c) ==
  /\ connection[c] = "none" /\ rpcEnd # "yes"
  /\ connection' = [connection EXCEPT ![c] = "open"]
  /\ acceptQueue' = Append(acceptQueue, c)
  /\ UNCHANGED <<told, server, counts, rest>>
SendRequest(c) ==
  /\ connection[c] = "open"
  /\ connection' = [connection EXCEPT ![c] = "sent"]
  /\ UNCHANGED <<acceptQueue, told, server, counts, rest>>
Lose(c) ==
  /\ connection[c] \in {"open", "sent"} /\ nLost < MaxLost
  /\ connection' = [connection EXCEPT ![c] = IF @ = "open" THEN "lost" ELSE "gone"]
  /\ nLost' = nLost + 1
  /\ UNCHANGED <<acceptQueue, told, server, rpcCall, nTimeouts, rest>>

ClientAllowed(c) == rpcCall[c].address \in {"loopback", "allowed"}
HTTPAuthorized(c) == rpcCall[c].password = "right"

\* The reply is written and the connection closed, which one that is lost does not hear.
Sent(c, reply) ==
  LET hears == connection[c] \notin {"lost", "gone"} IN
  /\ told' = IF hears THEN [told EXCEPT ![c] = reply] ELSE told
  /\ connection' = IF hears THEN [connection EXCEPT ![c] = "closed"] ELSE connection
  /\ UNCHANGED acceptQueue
Ready == serving' = NoCaller /\ request' = "none" /\ result' = 0

\* ThreadRPCServer2: a connection is taken; when fShutdown is set the thread ends.
Accept ==
  /\ serving = NoCaller /\ rpcEnd \in {"no", "asked"} /\ acceptQueue # <<>>
  /\ LET c == Head(acceptQueue) IN
     \/ ClientAllowed(c) /\ serving' = c /\ UNCHANGED <<connection, told>>
     \/ /\ ~ClientAllowed(c) /\ UNCHANGED serving
        /\ told' = IF connection[c] \in {"lost", "gone"} THEN told
                   ELSE [told EXCEPT ![c] = Reply(403, 0, NoCaller)]
        /\ connection' = [connection EXCEPT ![c] = IF @ \in {"lost", "gone"} THEN @ ELSE "closed"]
  /\ acceptQueue' = Tail(acceptQueue)
  /\ UNCHANGED <<request, result, executed, counts, rest>>
\* ReadHTTP in a thread of its own.
ReadHTTP ==
  /\ serving # NoCaller /\ request = "none"
  /\ \/ connection[serving] \in {"sent", "gone"} /\ request' = "whole"
     \/ connection[serving] \in {"lost", "gone"} /\ request' = "cut"
  /\ UNCHANGED <<clientState, serving, result, executed, counts, rest>>
\* "Timed out": the thread is left behind, with references to what is destroyed.
Timeout ==
  /\ serving # NoCaller /\ request = "none" /\ connection[serving] = "open" /\ nTimeouts < MaxTimeouts
  /\ connection' = [connection EXCEPT ![serving] = "closed"]
  /\ lateReaders' = lateReaders + 1 /\ nTimeouts' = nTimeouts + 1
  /\ Ready
  /\ UNCHANGED <<acceptQueue, told, executed, rpcCall, nLost, strWarning, rpcEnd>>
\* What that thread does is undefined: it may end, or take what comes for the next request, which
\* is at the same place of the stack; or the process crashes.
LateRead ==
  /\ lateReaders > 0 /\ lateReaders' = lateReaders - 1
  /\ \/ UNCHANGED <<request, rpcEnd>>
     \/ serving # NoCaller /\ request = "none" /\ request' = "garbled" /\ UNCHANGED rpcEnd
     \/ rpcEnd' = "yes" /\ UNCHANGED request
  /\ UNCHANGED <<clientState, serving, result, executed, counts, strWarning>>

\* Nobody is let in, or nothing can be made of the request, or not in safe mode.
Authorized == request = "whole" /\ HTTPAuthorized(serving)
Refusal ==
  LET asks == rpcCall[serving].asks IN
  {r \in {Reply(401, 0, NoCaller)} : ~Authorized}
    \cup {r \in {ErrorReply(-32700, NoCaller)} : request = "garbled" \/ (Authorized /\ asks = "text")}
    \cup {r \in {ErrorReply(Codes[asks], serving)} : Authorized /\ asks \in {"nomethod", "params", "unknown"}}
    \cup {r \in {ErrorReply(-2, serving)} : Authorized /\ asks = "unlisted" /\ strWarning}
Refuse ==
  /\ request \in {"whole", "cut", "garbled"}
  /\ \E reply \in Refusal : Sent(serving, reply)
  /\ Ready
  /\ UNCHANGED <<executed, counts, rest>>

\* "Observe safe mode".
MayExecute(asks) == asks \in AllowInSafeMode \cup (IF strWarning THEN {} ELSE {"unlisted"})
Execute ==
  /\ Authorized /\ MayExecute(rpcCall[serving].asks)
  /\ request' = "done" /\ result' = Codes[rpcCall[serving].asks]
  /\ executed' = [executed EXCEPT ![serving] = @ + 1]
  /\ rpcEnd' = IF rpcCall[serving].asks = "stop" /\ rpcEnd = "no" THEN "asked" ELSE rpcEnd
  /\ UNCHANGED <<clientState, serving, counts, strWarning, lateReaders>>
SendReply ==
  /\ request = "done" /\ Sent(serving, ReplyFor(result, serving)) /\ Ready
  /\ UNCHANGED <<executed, counts, rest>>

\* Shutdown sets fShutdown; StopNode waits for the thread to be at accept, and the process ends
\* with those who are in the queue.
RpcEnds ==
  /\ \/ rpcEnd = "asked" /\ rpcEnd' = "soon"
     \/ rpcEnd = "soon" /\ serving = NoCaller /\ rpcEnd' = "yes"
  /\ UNCHANGED <<clientState, server, counts, strWarning, lateReaders>>
\* A longer chain that is invalid shows up, or is left behind.
Warn == strWarning' = ~strWarning /\ UNCHANGED <<clientState, server, counts, lateReaders, rpcEnd>>

ServerStep == Accept \/ ReadHTTP \/ Refuse \/ Execute \/ SendReply \/ Timeout \/ RpcEnds
RpcNext ==
  \/ \E c \in RpcClients : Connect(c) \/ SendRequest(c) \/ Lose(c)
  \/ Warn
  \/ rpcEnd # "yes" /\ (ServerStep \/ LateRead)
RpcFairness == WF_rpcVars(rpcEnd # "yes" /\ ServerStep)

-----------------------------------------------------------------------------
\* CommandLineRPC: what it returns, as the shell sees it.
ExitCode(reply) ==
  IF reply.status \in {0, 401, 403} THEN 87 ELSE (-reply.code) % 256
Unheard(c) == told[c] = Nothing

\* A caller knows from the reply what became of its own call: it was executed, once, exactly when
\* it is told a result or an error of the method.  Without a reply it was not, unless the
\* connection was lost or the process crashed.
OfMethod(reply) == reply.status \notin {401, 403} /\ reply.code > -32000 /\ reply.code # -2
TellsWhatHappened ==
  \A c \in RpcClients :
    /\ executed[c] <= 1
    /\ Unheard(c) =>
         (executed[c] = 1 => connection[c] = "gone" \/ (serving = c /\ request = "done"))
    /\ ~Unheard(c) =>
         /\ executed[c] = 1 <=> OfMethod(told[c])
         /\ told[c].id \in {c, NoCaller} /\ (executed[c] = 1 => told[c].id = c)
         /\ ExitCode(told[c]) = 0 <=> told[c].status = 200

\* A call that is allowed and in order is executed if it is answered, unless one that came too
\* late spoilt it.
AllowedIsExecuted ==
  \A c \in {d \in RpcClients : ClientAllowed(d) /\ HTTPAuthorized(d)} :
    ~Unheard(c) /\ nTimeouts = 0 /\ Codes[rpcCall[c].asks] > -32000 =>
      executed[c] = 1 \/ told[c].code = -2

RpcIsSound == TellsWhatHappened /\ AllowedIsExecuted

\* Every call ends, since each is made once: one that is never sent does not keep the others
\* waiting.
Ended == {"none", "closed", "lost", "gone"}
EveryCallEnds == []<>(rpcEnd = "yes" \/ \A c \in RpcClients : connection[c] \in Ended)
=============================================================================
