------------------------------ MODULE Shutdown ------------------------------
(***************************************************************************)
(* How the process ends (init.cpp, net.cpp): whoever comes first stops the *)
(* threads, which count themselves in vnThreadsRunning, flushes the        *)
(* databases and deletes the wallet.  A thread that sleeps or waits leaves *)
(* its count, so that it need not be waited for, and has to look at        *)
(* fShutdown when it is back.                                              *)
(*                                                                         *)
(* The counts are plain integers.  Only the miners share one, so that two  *)
(* of them may read it before either has written.                          *)
(***************************************************************************)
EXTENDS Integers, FiniteSets

CONSTANTS
  Miners,
  Startups,  \* the sets of threads that StartNode and AppInit2 may start, by the options
  Patience   \* of StopNode, 20 seconds

ASSUME ShutdownAssumption ==
  /\ IsFiniteSet(Miners)
  /\ Miners \cap {"socket", "open", "message", "rpc", "flush", "disk", "stop"} = {}
  /\ Startups \subseteq SUBSET ({"socket", "open", "message", "rpc", "flush"} \cup Miners)
  /\ Patience \in Nat

VARIABLES
  fShutdown, fRequestShutdown, fTaken, fExit,
  vnThreadsRunning,
  at,          \* where each thread is
  counted,     \* what a miner has read of its count
  miscounted,  \* history: the miners' count has been less than there were of them
  using,       \* the threads with a CDB that holds a database open (mapFileUseCount)
  unflushed,   \* the files that need the log: written since they were flushed
  fDbEnvInit,
  wallet,      \* pwalletMain has not been deleted
  waited       \* how long StopNode has waited
shutdownVars ==
  <<fShutdown, fRequestShutdown, fTaken, fExit, vnThreadsRunning, at, counted, miscounted, using,
    unflushed, fDbEnvInit, wallet, waited>>
minerCounts == <<counted, miscounted>>
flags == <<fRequestShutdown, fTaken, fExit, wallet, waited>>

\* The message thread calls Shutdown itself; CheckDiskSpace and the method "stop" start a thread.
Callers == {"message", "disk", "stop"}
Threads == {"socket", "open", "message", "rpc", "flush"} \cup Miners
Slot(t) == CASE t = "socket" -> 0 [] t = "open" -> 1 [] t = "message" -> 2 [] t \in Miners -> 3 [] t = "rpc" -> 4
FileOf(t) == IF t = "open" THEN "addr.dat" ELSE "wallet.dat"

ShutdownInit(started) ==
  /\ fShutdown = FALSE /\ fRequestShutdown = FALSE /\ fTaken = FALSE /\ fExit = FALSE
  /\ vnThreadsRunning = [i \in 0..4 |-> 0]
  /\ at = [t \in Threads \cup {"disk", "stop"} |-> IF t \in started THEN "new" ELSE "none"]
  /\ counted = [m \in Miners |-> 0] /\ miscounted = FALSE
  /\ using = {} /\ unflushed = {"addr.dat", "wallet.dat"}
  /\ fDbEnvInit = TRUE /\ wallet = TRUE /\ waited = 0

-----------------------------------------------------------------------------
Goes(t, from, to) == at[t] = from /\ at' = [at EXCEPT ![t] = to]
Counts(t, n) == vnThreadsRunning' = [vnThreadsRunning EXCEPT ![Slot(t)] = @ + n]

\* vnThreadsRunning[n]++ where a thread begins and where it is back, -- where it ends and
\* before it sleeps.
Enter(t, from, to) ==
  Goes(t, from, to) /\ Counts(t, 1) /\ UNCHANGED <<flags, fShutdown, minerCounts, using, unflushed, fDbEnvInit>>
Leave(t, from, to) ==
  Goes(t, from, to) /\ Counts(t, -1) /\ UNCHANGED <<flags, fShutdown, minerCounts, using, unflushed, fDbEnvInit>>

Walk(t, from, to) ==
  Goes(t, from, to)
  /\ UNCHANGED <<flags, fShutdown, vnThreadsRunning, minerCounts, using, unflushed, fDbEnvInit>>

\* "if (fShutdown) return".  Mutant: it is not looked at.
LookAway(t, from, to) == Walk(t, from, to)
Look(t, from, to) == Walk(t, from, IF fShutdown THEN "end" ELSE to)

\* CDB: nothing is opened once the environment has been closed for good.
OpenDB(t, from, to) ==
  /\ Goes(t, from, to)
  /\ IF fDbEnvInit \/ ~fShutdown
     THEN using' = using \cup {t} /\ unflushed' = unflushed \cup {FileOf(t)} /\ fDbEnvInit' = TRUE
     ELSE UNCHANGED <<using, unflushed, fDbEnvInit>>
  /\ UNCHANGED <<flags, fShutdown, vnThreadsRunning, minerCounts>>
CloseDB(t, from, to) ==
  /\ Goes(t, from, to) /\ using' = using \ {t}
  /\ UNCHANGED <<flags, fShutdown, vnThreadsRunning, minerCounts, unflushed, fDbEnvInit>>

-----------------------------------------------------------------------------
\* select returns in time: it has a timeout.
SocketStep ==
  \/ Enter("socket", "new", "work") \/ Leave("socket", "work", "select")
  \/ Enter("socket", "select", "back") \/ Look("socket", "back", "work")
  \/ Look("socket", "work", "work")
  \/ Leave("socket", "end", "none")

\* The count is left twice when it is left for good while asleep: nobody waits for this one.
OpenStep ==
  \/ Enter("open", "new", "work") \/ Leave("open", "work", "sleep")
  \/ Enter("open", "sleep", "back") \/ (fShutdown /\ Walk("open", "sleep", "end"))
  \/ Look("open", "back", "address")
  \/ OpenDB("open", "address", "write") \/ CloseDB("open", "write", "dial")
  \/ Look("open", "dial", "dialled") \/ (fShutdown /\ Walk("open", "dial", "work"))
  \/ Leave("open", "dialled", "connect") \/ Enter("open", "connect", "work")
  \/ Leave("open", "end", "none")

\* The message handlers and what they call: a database, the wallet, the size of the disk.
Busy(t, from, to) == OpenDB(t, from, "write") \/ CloseDB(t, "write", to)

\* Mutant: the thread calls Shutdown where it counts as running.
MessageSleepCounted ==
  \/ Walk("message", "sent", "sleep")
  \/ Walk("message", "sleep", IF fRequestShutdown THEN "take" ELSE "awake")
  \/ Walk("message", "awake", "back")

MessageSleep ==
  \/ Leave("message", "sent", "sleep")
  \/ Walk("message", "sleep", IF fRequestShutdown THEN "take" ELSE "awake")
  \/ Enter("message", "awake", "back")

MessageStep ==
  \/ Enter("message", "new", "loop") \/ Look("message", "loop", "receive")
  \/ Busy("message", "receive", "received") \/ Walk("message", "receive", "received")
  \/ Look("message", "received", "sent")
  \/ MessageSleep \/ Look("message", "back", "loop")
  \/ Leave("message", "end", "none")

\* accept may wait for ever.
RpcAccept == Enter("rpc", "accept", "back")
RpcStep ==
  \/ Enter("rpc", "new", "loop") \/ Leave("rpc", "loop", "accept")
  \/ Look("rpc", "back", "call") \/ Walk("rpc", "call", "loop") \/ Busy("rpc", "call", "loop")
  \/ Leave("rpc", "end", "none")

\* The count of the miners is read and written in two steps, so that it may come out too small.
Miscounted ==
  vnThreadsRunning[3] < Cardinality({m \in Miners : at[m] \in {"loop", "mine", "write", "end", "leave"}})
ReadCount(m, from, to) ==
  /\ Goes(m, from, to) /\ counted' = [counted EXCEPT ![m] = vnThreadsRunning[3]]
  /\ UNCHANGED <<flags, fShutdown, vnThreadsRunning, miscounted, using, unflushed, fDbEnvInit>>
WriteCount(m, from, to, n) ==
  /\ Goes(m, from, to) /\ vnThreadsRunning' = [vnThreadsRunning EXCEPT ![3] = counted[m] + n]
  /\ miscounted' = (miscounted \/ Miscounted')
  /\ UNCHANGED <<flags, fShutdown, counted, using, unflushed, fDbEnvInit>>
MinerStep(m) ==
  \/ ReadCount(m, "new", "enter") \/ WriteCount(m, "enter", "loop", 1)
  \/ Look(m, "loop", "mine")
  \/ Walk(m, "mine", "loop") \/ Busy(m, "mine", "loop")
  \/ ReadCount(m, "end", "leave") \/ WriteCount(m, "leave", "none", -1)

\* ThreadFlushWalletDB: wallet.dat is flushed when no file is in use, under cs_db.  It is not
\* counted.
FlushWalletDB ==
  /\ at["flush"] = "new"
  /\ IF fShutdown THEN at' = [at EXCEPT !["flush"] = "none"] /\ UNCHANGED unflushed
     ELSE using = {} /\ unflushed' = unflushed \ {"wallet.dat"} /\ UNCHANGED at
  /\ UNCHANGED <<flags, fShutdown, vnThreadsRunning, minerCounts, using, fDbEnvInit>>

-----------------------------------------------------------------------------
HandleSIGTERM ==
  /\ fRequestShutdown' = TRUE
  /\ UNCHANGED <<fShutdown, fTaken, fExit, vnThreadsRunning, at, minerCounts, using, unflushed,
                 fDbEnvInit, wallet, waited>>

\* CheckDiskSpace finds little room, in a thread that is about to write a block.
CheckDiskSpace(t) ==
  /\ at[t] = "write" /\ t # "open" /\ at["disk"] = "none"
  /\ fShutdown' = TRUE /\ at' = [at EXCEPT !["disk"] = "take"]
  /\ UNCHANGED <<flags, vnThreadsRunning, minerCounts, using, unflushed, fDbEnvInit>>

Stop ==
  /\ at["rpc"] = "call" /\ at["stop"] = "none"
  /\ at' = [at EXCEPT !["rpc"] = "loop", !["stop"] = "take"]
  /\ UNCHANGED <<flags, fShutdown, vnThreadsRunning, minerCounts, using, unflushed, fDbEnvInit>>

\* The first one shuts down, the others wait for the process to end.
Take(c) ==
  /\ Goes(c, "take", IF fTaken THEN "wait" ELSE "flush")
  /\ fTaken' = TRUE /\ fShutdown' = (fShutdown \/ ~fTaken)
  /\ UNCHANGED <<fRequestShutdown, fExit, vnThreadsRunning, minerCounts, using, unflushed, fDbEnvInit, wallet, waited>>

InUse(file) == \E t \in using : FileOf(t) = file
DBFlush(c, from, to, closes) ==
  /\ Goes(c, from, to)
  /\ IF fDbEnvInit
     THEN unflushed' = {f \in unflushed : InUse(f)} /\ fDbEnvInit' = ~closes
     ELSE UNCHANGED <<unflushed, fDbEnvInit>>
  /\ UNCHANGED <<flags, fShutdown, vnThreadsRunning, minerCounts, using>>

\* StopNode looks at one count after the other: at all of them for as long as it is patient, at
\* those of the message and the RPC thread until they are gone.
Finds(c, i, from, to, again) ==
  /\ Goes(c, from, IF vnThreadsRunning[i] > 0 THEN again ELSE to)
  /\ UNCHANGED <<flags, fShutdown, vnThreadsRunning, minerCounts, using, unflushed, fDbEnvInit>>
StopNode(c) ==
  LET again == IF waited > Patience THEN "last2" ELSE "stop0" IN
  \/ Finds(c, 0, "stop0", "stop2", again) \/ Finds(c, 2, "stop2", "stop3", again)
  \/ Finds(c, 3, "stop3", "stop4", again) \/ Finds(c, 4, "stop4", "last2", again)
  \/ Finds(c, 2, "last2", "last4", "last2") \/ Finds(c, 4, "last4", "close", "last2")
Tick(c) ==
  /\ at[c] \in {"stop0", "stop2", "stop3", "stop4"} /\ waited <= Patience
  /\ waited' = waited + 1
  /\ UNCHANGED <<fShutdown, fRequestShutdown, fTaken, fExit, vnThreadsRunning, at, minerCounts, using, unflushed,
                 fDbEnvInit, wallet>>
DeleteWallet(c) ==
  /\ Goes(c, "delete", "exit") /\ wallet' = FALSE
  /\ UNCHANGED <<fShutdown, fRequestShutdown, fTaken, fExit, vnThreadsRunning, minerCounts, using, unflushed,
                 fDbEnvInit, waited>>
Exit(c) ==
  /\ Goes(c, "exit", "none") /\ fExit' = TRUE
  /\ UNCHANGED <<fShutdown, fRequestShutdown, fTaken, vnThreadsRunning, minerCounts, using, unflushed,
                 fDbEnvInit, wallet, waited>>
ShutdownStep(c) ==
  \/ Take(c) \/ DBFlush(c, "flush", "stop0", FALSE)
  \/ StopNode(c) \/ DBFlush(c, "close", "delete", TRUE) \/ DeleteWallet(c) \/ Exit(c)

ShutdownNext ==
  /\ ~fExit
  /\ \/ SocketStep \/ OpenStep \/ MessageStep \/ RpcAccept \/ RpcStep \/ FlushWalletDB
     \/ \E m \in Miners : MinerStep(m)
     \/ HandleSIGTERM \/ Stop \/ \E t \in using : CheckDiskSpace(t)
     \/ \E c \in Callers : ShutdownStep(c) \/ Tick(c)

\* The operating system runs every thread, and time passes.
ShutdownFairness ==
  /\ WF_shutdownVars(~fExit /\ MessageStep) /\ WF_shutdownVars(~fExit /\ RpcStep)
  /\ WF_shutdownVars(~fExit /\ SocketStep)
  /\ \A m \in Miners : WF_shutdownVars(~fExit /\ MinerStep(m))
  /\ \A c \in Callers : WF_shutdownVars(~fExit /\ ShutdownStep(c)) /\ WF_shutdownVars(~fExit /\ Tick(c))

-----------------------------------------------------------------------------
\* The message handlers and the RPC server never work in a process whose databases are closed
\* or whose wallet is deleted, nor a miner, unless StopNode gave up or two miners spoilt their
\* count between them: a thread that was left alone in its sleep may wake up at any moment.
Working(t) == at[t] \in {"receive", "call", "mine", "write"}
LeftInPeace ==
  ~fDbEnvInit \/ ~wallet =>
    \A t \in {"message", "rpc"} \cup Miners :
      Working(t) => t \in Miners /\ (waited > Patience \/ miscounted)

\* So wallet.dat needs no log in the end, unless a miner was writing it.
WalletIsWhole == fExit /\ "wallet.dat" \in unflushed => waited > Patience \/ miscounted

ShutdownIsClean == LeftInPeace /\ WalletIsWhole

\* Whoever asks for it, and wherever the threads are, the process ends.
ProcessEnds == fShutdown \/ fRequestShutdown ~> fExit
=============================================================================
