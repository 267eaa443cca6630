----------------------------- MODULE MCProcess ------------------------------
(***************************************************************************)
(* Small machines that do not meet: the key pool with several holders, how *)
(* processes come up, and how the threads of one are stopped at the end.   *)
(* The first state says which of them runs.                                *)
(***************************************************************************)
EXTENDS KeyPool, Shutdown, Startup, RpcServer

VARIABLE part

\* A node that mines, a server, and one that makes connections.
MCStartups == {{"message"} \cup Miners, {"message", "rpc", "flush"}, {"socket", "message", "open"}}
MCOptionSets == {{"daemon", "nolisten"}, {"rescan", "gen", "server"}, {"print", "invalid"},
                 {"loadblockindextest"}, {"command"}, {"help", "datadir"}}

\* Every way a call may end, up to two that end like another; one may be lost and both late.
Call(address, password, asks) == [address |-> address, password |-> password, asks |-> asks]
MCCalls ==
  {Call("loopback", "right", asks) : asks \in DOMAIN Codes \ {"params", "refused"}}
    \cup {Call("loopback", "wrong", "listed"),
          Call("elsewhere", "right", "listed"), Call("allowed", "right", "unlisted")}

Idle(but) ==
  /\ IF but = "keys" THEN TRUE ELSE UNCHANGED vars
  /\ IF but = "shutdown" THEN TRUE ELSE UNCHANGED shutdownVars
  /\ IF but = "startup" THEN TRUE ELSE UNCHANGED startupVars
  /\ IF but = "rpc" THEN TRUE ELSE UNCHANGED rpcVars

ProcessInit ==
  /\ Init /\ StartupInit
  /\ \/ part \in {"keys", "startup", "rpc"} /\ ShutdownInit({})
     \/ part = "shutdown" /\ \E started \in Startups : ShutdownInit(started)
  /\ RpcInit(IF part = "rpc" THEN RpcCalls ELSE {Call("loopback", "right", "listed")})
ProcessNext ==
  /\ UNCHANGED part
  /\ \/ part = "keys" /\ Next
     \/ part = "shutdown" /\ ShutdownNext
     \/ part = "startup" /\ StartupNext
     \/ part = "rpc" /\ RpcNext
  /\ Idle(part)
ProcessSpec ==
  /\ ProcessInit
  /\ [][ProcessNext]_<<part, vars, shutdownVars, startupVars, rpcVars>>
  /\ ShutdownFairness /\ RpcFairness

\* What the processes and their server tell the outside.
ProcessIsSound == StartsInOrder /\ RpcIsSound
\* A process that is told to stop ends, and a call that is made of it too.
EverythingEnds == ProcessEnds /\ EveryCallEnds
=============================================================================
