------------------------------ MODULE Startup -------------------------------
(***************************************************************************)
(* How a process comes up (AppInit2 in init.cpp, StartNode in net.cpp)     *)
(* while others are started on the same data directory: the options, the   *)
(* lock, the port, the files that are loaded one after the other whether   *)
(* the last could be or not, and the threads.  One that cannot go on runs  *)
(* Shutdown, and so does one that is told to stop.  The daemon is a child  *)
(* whose parent writes the pid file in its own time.                       *)
(***************************************************************************)
EXTENDS Integers, FiniteSets

CONSTANTS
  Processes,
  NoProcess,
  OptionSets,  \* the options a process may be given, each a subset of Options
  MaxStarts    \* bound: how many processes are started in all, one after another in a slot

Options == {"datadir",     \* -datadir of a directory that is not there
            "help", "command", "daemon", "loadblockindextest", "nolisten", "rescan",
            "print",       \* -printblock, -printblockindex, -printblocktree
            "invalid",     \* an address of -proxy or an amount of -paytxfee that is none
            "gen", "server"}

ASSUME StartupAssumption ==
  /\ NoProcess \notin Processes
  /\ \A o \in OptionSets : o \subseteq Options
  /\ MaxStarts \in Nat

VARIABLES
  stage,      \* how far AppInit2 is in each process
  options,
  starts,
  lockFile,   \* who holds the lock of the data directory
  port,       \* who listens
  pidFile,    \* the process that the pid file names
  parents,    \* the daemons whose parents have not written the pid file yet
  dataOpen,   \* the processes that have the database environment open
  loaded,     \* what each has loaded
  indexed,    \* the processes with blocks in mapBlockIndex
  strErrors,  \* the processes that could not load something
  running     \* the threads each has started
startupVars == <<stage, options, starts, lockFile, port, pidFile, parents, dataOpen, loaded,
                 indexed, strErrors, running>>
shared == <<lockFile, port, pidFile, parents>>
memory == <<dataOpen, loaded, indexed, strErrors, running>>

Files == {"addr.dat", "blkindex.dat", "wallet.dat"}

StartupInit ==
  /\ stage = [p \in Processes |-> "gone"]
  /\ options = [p \in Processes |-> {}]
  /\ starts = 0
  /\ lockFile = NoProcess /\ port = NoProcess /\ pidFile = NoProcess
  /\ parents = {} /\ dataOpen = {} /\ indexed = {} /\ strErrors = {}
  /\ loaded = [p \in Processes |-> {}]
  /\ running = [p \in Processes |-> {}]

On(p, option) == option \in options[p]
Moves(p, from, to) == stage[p] = from /\ stage' = [stage EXCEPT ![p] = to]

-----------------------------------------------------------------------------
Start(p, o) ==
  /\ starts < MaxStarts
  /\ starts' = starts + 1
  /\ Moves(p, "gone", "options")
  /\ options' = [options EXCEPT ![p] = o]
  /\ UNCHANGED <<shared, memory>>

\* ParseParameters, ReadConfigFile and what can be done without any data.  A command goes
\* to the server of another process (CommandLineRPC) and the process ends with its answer.
ReadOptions(p) ==
  /\ Moves(p, "options", IF On(p, "datadir") \/ On(p, "help") THEN "shutdown"
                         ELSE IF On(p, "command") THEN "end" ELSE "fork")
  /\ UNCHANGED <<options, starts, shared, memory>>

\* fork: the child goes on, the parent only has the pid file to write.
Daemonize(p) ==
  /\ Moves(p, "fork", "test")
  /\ parents' = IF On(p, "daemon") THEN parents \cup {p} ELSE parents
  /\ UNCHANGED <<options, starts, lockFile, port, pidFile, memory>>

CreatePidFile(p) ==
  /\ p \in parents
  /\ parents' = parents \ {p}
  /\ pidFile' = p
  /\ UNCHANGED <<stage, options, starts, lockFile, port, memory>>

\* The one option that looks at the block index before the lock.
LoadBlockIndexTest(p) ==
  /\ Moves(p, "test", IF On(p, "loadblockindextest") THEN "shutdown" ELSE "lock")
  /\ dataOpen' = IF On(p, "loadblockindextest") THEN dataOpen \cup {p} ELSE dataOpen
  /\ UNCHANGED <<options, starts, shared, loaded, indexed, strErrors, running>>

\* Mutant: the lock is an automatic variable, released where AppInit2 has tried it.
TryLockOnly(p) ==
  /\ Moves(p, "lock", IF lockFile = NoProcess THEN "bind" ELSE "shutdown")
  /\ UNCHANGED <<options, starts, shared, memory>>

\* "Make sure only a single bitcoin process is using the data directory."
TryLock(p) ==
  /\ Moves(p, "lock", IF lockFile = NoProcess THEN "bind" ELSE "shutdown")
  /\ lockFile' = IF lockFile = NoProcess THEN p ELSE lockFile
  /\ UNCHANGED <<options, starts, port, pidFile, parents, memory>>

\* The port may be somebody else's, of another data directory or another program.
BindListenPort(p) ==
  \/ /\ On(p, "nolisten") \/ port = NoProcess
     /\ Moves(p, "bind", "addr.dat")
     /\ port' = IF On(p, "nolisten") THEN port ELSE p
     /\ UNCHANGED <<options, starts, lockFile, pidFile, parents, memory>>
  \/ /\ ~On(p, "nolisten")
     /\ Moves(p, "bind", "shutdown")
     /\ UNCHANGED <<options, starts, shared, memory>>

\* A file is loaded, or cannot be: that is noted and the next is loaded nevertheless.
Load(p, file, next) ==
  /\ Moves(p, file, next)
  /\ dataOpen' = dataOpen \cup {p}
  /\ \/ /\ loaded' = [loaded EXCEPT ![p] = @ \cup {file}]
        /\ UNCHANGED strErrors
     \/ /\ strErrors' = strErrors \cup {p}
        /\ UNCHANGED loaded
  /\ UNCHANGED <<options, starts, shared>>

LoadAddresses(p) == Load(p, "addr.dat", "blkindex.dat") /\ UNCHANGED <<indexed, running>>

\* The records of the blocks are read before the best chain is looked up among them, so
\* that blocks may be there without a best one.
LoadBlockIndex(p) ==
  /\ Load(p, "blkindex.dat", "wallet.dat")
  /\ \/ indexed' = indexed \cup {p}
     \/ "blkindex.dat" \notin loaded'[p] /\ UNCHANGED indexed
  /\ UNCHANGED running

\* The thread that flushes the wallet is started with it.
LoadWallet(p) ==
  /\ Load(p, "wallet.dat", "rescan")
  /\ running' = [running EXCEPT ![p] = IF "wallet.dat" \in loaded'[p] THEN {"flush"} ELSE {}]
  /\ UNCHANGED indexed

\* pindexBest is NULL when the index was not loaded, and is looked at when the first block
\* or the one the wallet knows is another.  Only then are the errors shown.
Rescan(p) ==
  LET noBest == "blkindex.dat" \notin loaded[p] /\ p \in indexed IN
  /\ \/ /\ ~(noBest /\ On(p, "rescan"))
        /\ Moves(p, "rescan", IF p \in strErrors THEN "shutdown" ELSE "arguments")
     \/ noBest /\ Moves(p, "rescan", "crash")
  /\ UNCHANGED <<options, starts, shared, memory>>

\* The wallet's transactions are accepted again; the remaining options.
Arguments(p) ==
  /\ Moves(p, "arguments", IF On(p, "print") \/ On(p, "invalid") THEN "shutdown" ELSE "disk")
  /\ UNCHANGED <<options, starts, shared, memory>>

\* With too little room on the disk nothing is started.  (Without a user interface the
\* server is always asked for.)
StartNode(p) ==
  /\ \/ /\ Moves(p, "disk", "run")
        /\ running' = [running EXCEPT ![p] = @ \cup {"irc", "socket", "open", "message"}
                         \cup (IF On(p, "gen") THEN {"miner"} ELSE {})
                         \cup (IF On(p, "server") \/ On(p, "daemon") THEN {"rpc"} ELSE {})]
     \/ /\ Moves(p, "disk", "shutdown")
        /\ UNCHANGED running
  /\ UNCHANGED <<options, starts, shared, dataOpen, loaded, indexed, strErrors>>

\* A process that runs is asked to end.
RequestShutdown(p) == Moves(p, "run", "shutdown") /\ UNCHANGED <<options, starts, shared, memory>>

\* Shutdown, whoever calls it: the threads stop, the databases are closed, the pid file is
\* removed.
ShutDown(p) ==
  /\ Moves(p, "shutdown", "end")
  /\ running' = [running EXCEPT ![p] = {}]
  /\ dataOpen' = dataOpen \ {p}
  /\ pidFile' = NoProcess
  /\ UNCHANGED <<options, starts, lockFile, port, parents, loaded, indexed, strErrors>>

\* The process ends or crashes, at any moment; the system releases what it held.
End(p) ==
  /\ stage[p] # "gone"
  /\ stage' = [stage EXCEPT ![p] = "gone"]
  /\ options' = [options EXCEPT ![p] = {}]
  /\ lockFile' = IF lockFile = p THEN NoProcess ELSE lockFile
  /\ port' = IF port = p THEN NoProcess ELSE port
  /\ dataOpen' = dataOpen \ {p} /\ indexed' = indexed \ {p} /\ strErrors' = strErrors \ {p}
  /\ loaded' = [loaded EXCEPT ![p] = {}]
  /\ running' = [running EXCEPT ![p] = {}]
  /\ UNCHANGED <<starts, pidFile, parents>>

StartupNext == \E p \in Processes :
  \/ \E o \in OptionSets : Start(p, o)
  \/ ReadOptions(p) \/ Daemonize(p) \/ CreatePidFile(p) \/ LoadBlockIndexTest(p)
  \/ TryLock(p) \/ BindListenPort(p)
  \/ LoadAddresses(p) \/ LoadBlockIndex(p) \/ LoadWallet(p) \/ Rescan(p) \/ Arguments(p)
  \/ StartNode(p) \/ RequestShutdown(p) \/ ShutDown(p) \/ End(p)

-----------------------------------------------------------------------------
\* No two processes use the data directory at a time, whatever became of the others
\* ("Required to protect the database files if we're going to keep deleting log.*"), but
\* for one that was started with -loadblockindextest.
OneProcess ==
  \A p, q \in dataOpen : p # q => On(p, "loadblockindextest") \/ On(q, "loadblockindextest")

\* A process that makes connections, mines or serves has loaded everything that it works
\* on, holds the lock until it is gone, and listens if it is to.
StartsWhole ==
  \A p \in Processes : running[p] \ {"flush"} # {} =>
    /\ loaded[p] = Files /\ p \in indexed
    /\ lockFile = p
    /\ On(p, "nolisten") \/ port = p
    /\ options[p] \cap {"datadir", "help", "command", "print", "invalid"} = {}

\* Whoever writes to the wallet holds the lock, the thread that flushes it included, even
\* in a process that is about to give up because something else could not be loaded.
LockOutlives == \A p \in Processes : running[p] # {} => lockFile = p /\ p \in dataOpen

StartsInOrder == OneProcess /\ StartsWhole /\ LockOutlives
=============================================================================
