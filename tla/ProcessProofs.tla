---------------------------- MODULE ProcessProofs -----------------------------
(***************************************************************************)
(* The machines of MCProcess, for every value of the constants: with a     *)
(* pool of at least one key (-keypool=1 or more) no key is handed out      *)
(* twice; the threads of a process are only started on what they need; the *)
(* RPC server executes what it may, once, and tells what came of it; and   *)
(* nobody works on closed databases.                                       *)
(***************************************************************************)
EXTENDS MCProcess, FiniteSetTheorems, SequenceTheorems, TLAPS

-----------------------------------------------------------------------------
(* The inductive invariant of Shutdown, for any miners, sets of threads    *)
(* and patience: what a place in Shutdown or StopNode says of the threads  *)
(* that were waited for, because each of them counts itself rightly and    *)
(* has to look at fShutdown before it works again.                         *)

\* The places of a thread: where it is one that stops the others, and where not.
Everyone == Threads \cup {"disk", "stop"}
Stopping == {"flush", "stop0", "stop2", "stop3", "stop4", "last2", "last4", "close", "delete", "exit"}

Elsewhere ==
  {"none", "new", "end", "back", "work", "select", "sleep", "address", "write", "dial", "dialled",
   "connect", "loop", "receive", "received", "sent", "awake", "take", "wait", "accept", "call",
   "enter", "mine", "leave"}
Places == Stopping \cup Elsewhere

\* Where a thread counts as running, and where it must not be once the databases are closed.
CountedAt(t) == CASE t = "message" -> {"loop", "receive", "write", "received", "sent", "back", "end"}
                  [] t = "rpc" -> {"loop", "back", "call", "write", "end"}
                  [] t \in Miners -> {"loop", "mine", "write", "end", "leave"}
                  [] OTHER -> {}
AtWork(t) == CASE t = "message" -> {"receive", "write", "received", "sent"}
               [] t = "rpc" -> {"call", "write"}
               [] t \in Miners -> {"mine", "write"}
               [] OTHER -> {}
\* Only the threads whose work it is do it.
Foreign(t) == {"receive", "call", "mine"} \ AtWork(t)

ShutdownTypeOK ==
  /\ at \in [Everyone -> Places] /\ \A t \in Everyone : at[t] \notin Foreign(t)
  /\ vnThreadsRunning \in [0..4 -> Int]
  /\ counted \in [Miners -> Int]
  /\ waited \in Nat
  /\ fShutdown \in BOOLEAN /\ fTaken \in BOOLEAN /\ fExit \in BOOLEAN
  /\ fDbEnvInit \in BOOLEAN /\ wallet \in BOOLEAN /\ miscounted \in BOOLEAN

\* The counts that StopNode waits for: those of one thread are exact, that of the miners is not
\* too small without being noted.
CountsRight ==
  /\ vnThreadsRunning[2] = IF at["message"] \in CountedAt("message") THEN 1 ELSE 0
  /\ vnThreadsRunning[4] = IF at["rpc"] \in CountedAt("rpc") THEN 1 ELSE 0
  /\ Miscounted => miscounted
\* Who holds a database open is where it writes.
UsersWrite == \A t \in using : t \in {"open", "message", "rpc"} \cup Miners /\ at[t] = "write"

\* A thread that stops the others has come as far as these places.
Reached(places) == fExit \/ \E c \in Callers : at[c] \in places
\* All are told before any is waited for.
AllTold ==
  /\ fTaken => fShutdown
  /\ Reached(Stopping) => fTaken
Excused == waited > Patience \/ miscounted
\* What has been waited for.
MessageDone == Reached({"last4", "close", "delete", "exit"}) => at["message"] \notin AtWork("message")
RpcDone == Reached({"close", "delete", "exit"}) => at["rpc"] \notin AtWork("rpc")
MinersDone == Reached({"stop4", "last2", "last4", "close", "delete", "exit"}) =>
  Excused \/ \A m \in Miners : at[m] \notin {"mine", "write"}
\* The databases and the wallet go last, and do not come back.
Closed == Reached({"delete", "exit"})
ClosedForGood ==
  /\ ~fDbEnvInit \/ ~wallet => Closed
  /\ Closed => ~fDbEnvInit /\ ("wallet.dat" \in unflushed => Excused)

ShutdownInv ==
  /\ ShutdownTypeOK /\ CountsRight /\ UsersWrite /\ AllTold
  /\ MessageDone /\ RpcDone /\ MinersDone /\ ClosedForGood

\* A step that does not stop the others, and does not begin to work when all are told to stop.
Ordinary ==
  /\ at' \in [Everyone -> Places]
  /\ \A t \in Everyone :
       \/ at'[t] = at[t]
       \/ /\ at[t] \notin Stopping /\ at'[t] \notin Stopping
          /\ fShutdown /\ at'[t] \in AtWork(t) => at[t] \in AtWork(t)
  /\ UNCHANGED <<fTaken, fExit, wallet>>
  /\ fShutdown => fShutdown'
  /\ Excused => Excused'
  /\ fShutdown /\ ~fDbEnvInit => UNCHANGED <<fDbEnvInit, unflushed>>
  /\ fDbEnvInit => fDbEnvInit'

\* Such a step preserves what is said of those who stop the others.
LEMMA OrdinaryStep ==
  ASSUME ShutdownAssumption, ShutdownInv, Ordinary
  PROVE  AllTold' /\ MessageDone' /\ RpcDone' /\ MinersDone' /\ ClosedForGood'
<1>1. \A c \in Callers, p \in Stopping : at'[c] = p <=> at[c] = p
  <2>1. Callers \subseteq Everyone
    BY DEF Callers, Everyone, Threads
  <2> QED  BY <2>1 DEF Ordinary
<1>2. "message" \in Everyone /\ "rpc" \in Everyone /\ Miners \subseteq Everyone
  BY DEF Everyone, Threads
<1>3. AtWork("message") = {"receive", "write", "received", "sent"} /\ AtWork("rpc") = {"call",
                                                                                       "write"}
      /\ \A m \in Miners : AtWork(m) = {"mine", "write"}
  BY DEF AtWork, ShutdownAssumption
<1>4. ASSUME NEW u \in Everyone, fShutdown, at[u] \notin AtWork(u) PROVE at'[u] \notin AtWork(u)
  BY <1>4 DEF Ordinary
<1>5. (Reached(Stopping) <=> Reached(Stopping)')
      /\ (Reached({"last4", "close", "delete", "exit"}) <=> Reached({"last4", "close", "delete",
                                                                     "exit"})')
      /\ (Reached({"close", "delete", "exit"}) <=> Reached({"close", "delete", "exit"})')
      /\ (Reached({"stop4", "last2", "last4", "close", "delete", "exit"})
           <=> Reached({"stop4", "last2", "last4", "close", "delete", "exit"})')
      /\ (Closed <=> Closed')
  BY <1>1 DEF Reached, Stopping, Closed, Ordinary
<1>6. Closed => Reached(Stopping) /\ Reached({"close", "delete", "exit"})
  BY DEF Closed, Reached, Stopping
<1>7. (Reached({"last4", "close", "delete", "exit"}) => Reached(Stopping))
      /\ (Reached({"close", "delete", "exit"}) => Reached(Stopping))
      /\ (Reached({"stop4", "last2", "last4", "close", "delete", "exit"}) => Reached(Stopping))
  BY DEF Reached, Stopping
<1>8. Excused => Excused'
  BY DEF Ordinary
<1>9. Reached(Stopping) => fShutdown
  BY DEF ShutdownInv, AllTold
<1>10. AllTold'
  BY <1>5 DEF ShutdownInv, AllTold, Ordinary
<1>11. MessageDone'
  BY <1>2, <1>3, <1>4, <1>5, <1>7, <1>9 DEF ShutdownInv, MessageDone
<1>12. RpcDone'
  BY <1>2, <1>3, <1>4, <1>5, <1>7, <1>9 DEF ShutdownInv, RpcDone
<1>13. MinersDone'
  BY <1>2, <1>3, <1>4, <1>5, <1>7, <1>8, <1>9 DEF ShutdownInv, MinersDone
<1>14. ClosedForGood'
  BY <1>5, <1>6, <1>8, <1>9 DEF ShutdownInv, ClosedForGood, Ordinary
<1> QED  BY <1>10, <1>11, <1>12, <1>13, <1>14

\* The rest of the invariant, for a thread that counts itself.
Kept == ShutdownTypeOK' /\ CountsRight' /\ UsersWrite'

-----------------------------------------------------------------------------
\* The threads that count themselves alone.
Alone == {"socket", "open", "message", "rpc"}

\* The slots, and where each thread counts and works.
LEMMA Slots ==
  ASSUME ShutdownAssumption
  PROVE  /\ Slot("socket") = 0 /\ Slot("open") = 1 /\ Slot("message") = 2 /\ Slot("rpc") = 4
         /\ Miners \subseteq Everyone /\ Alone \subseteq Everyone
         /\ \A m \in Miners : m \notin Alone
         /\ CountedAt("message") = {"loop", "receive", "write", "received", "sent", "back", "end"}
         /\ CountedAt("rpc") = {"loop", "back", "call", "write", "end"}
         /\ AtWork("message") = {"receive", "write", "received", "sent"}
         /\ AtWork("rpc") = {"call", "write"}
         /\ \A m \in Miners : /\ CountedAt(m) = {"loop", "mine", "write", "end", "leave"}
                             /\ AtWork(m) = {"mine", "write"}
BY DEF ShutdownAssumption, Slot, Everyone, Threads, Alone, CountedAt, AtWork

\* A thread goes from one place to another, and the others stay where they are.
LEMMA GoesTo ==
  ASSUME ShutdownInv, NEW t \in Everyone, NEW from, NEW to \in Places, Goes(t, from, to)
  PROVE  /\ at' \in [Everyone -> Places] /\ \A u \in Everyone \ {t} : at'[u] = at[u]
         /\ at'[t] = to /\ at[t] = from
BY DEF Goes, ShutdownInv, ShutdownTypeOK

Fits(t, from, to) ==
  /\ t \in Everyone
  /\ from \in Elsewhere /\ to \in Elsewhere
  /\ to \notin Foreign(t) /\ (fShutdown /\ to \in AtWork(t) => from \in AtWork(t))

\* A step between two places that fit is an ordinary one, as far as places go.
LEMMA GoesOrdinary ==
  ASSUME ShutdownAssumption, ShutdownInv, NEW t, NEW from, NEW to, Fits(t, from, to), Goes(t, from,
                                                                                           to)
  PROVE  /\ at' \in [Everyone -> Places] /\ \A u \in Everyone \ {t} : at'[u] = at[u]
         /\ at'[t] = to /\ at[t] = from
         /\ at[t] \notin Stopping /\ at'[t] \notin Stopping
         /\ fShutdown /\ at'[t] \in AtWork(t) => at[t] \in AtWork(t)
         /\ \A u \in Everyone : at'[u] \notin Foreign(u)
<1>1. t \in Everyone /\ to \in Places
  BY DEF Fits, Places
<1>3. \A u \in Everyone : at[u] \notin Foreign(u)
  BY DEF ShutdownInv, ShutdownTypeOK
<1>2. from \notin Stopping /\ to \notin Stopping
  BY DEF Fits, Elsewhere, Stopping
<1> QED  BY <1>1, <1>2, <1>3, GoesTo DEF Fits

\* The count of the miners does not become wrong.
LEMMA CountedMinersKept ==
  ASSUME ShutdownInv, UNCHANGED miscounted, vnThreadsRunning'[3] = vnThreadsRunning[3],
         \A m \in Miners : at'[m] \in {"loop", "mine", "write", "end", "leave"}
                          <=> at[m] \in {"loop", "mine", "write", "end", "leave"}
  PROVE  (Miscounted => miscounted)'
<1>1. {m \in Miners : at'[m] \in {"loop", "mine", "write", "end", "leave"}}
        = {m \in Miners : at[m] \in {"loop", "mine", "write", "end", "leave"}}
  OBVIOUS
<1> QED  BY <1>1 DEF ShutdownInv, CountsRight, Miscounted

\* A step between two places that count alike.
Alike(t, from, to) == from \in CountedAt(t) <=> to \in CountedAt(t)

\* It leaves the counts right.
LEMMA AlikeCounts ==
  ASSUME ShutdownAssumption, ShutdownInv, NEW t \in Everyone, NEW from, NEW to \in Places,
         Goes(t, from, to), Alike(t, from, to), UNCHANGED <<vnThreadsRunning, miscounted>>
  PROVE  CountsRight'
<1>1. /\ at'[t] = to /\ at[t] = from /\ \A u \in Everyone \ {t} : at'[u] = at[u]
  BY GoesTo
<1>2. \A u \in Everyone : at'[u] \in CountedAt(u) <=> at[u] \in CountedAt(u)
  BY <1>1 DEF Alike
<1>3. \A m \in Miners : at'[m] \in {"loop", "mine", "write", "end", "leave"}
                       <=> at[m] \in {"loop", "mine", "write", "end", "leave"}
  BY <1>2, Slots
<1>4. (Miscounted => miscounted)'
  BY <1>3, CountedMinersKept
<1>5. "message" \in Everyone /\ "rpc" \in Everyone
  BY DEF Everyone, Threads
<1>6. CountedAt("message")' = CountedAt("message") /\ CountedAt("rpc")' = CountedAt("rpc")
  BY Slots DEF CountedAt
<1> QED  BY <1>2, <1>4, <1>5, <1>6 DEF CountsRight, ShutdownInv

\* A thread does something of no account.
LEMMA WalkOrdinary ==
  ASSUME ShutdownAssumption, ShutdownInv, NEW t, NEW from, NEW to, Fits(t, from, to),
         Walk(t, from, to), Alike(t, from, to), from # "write"
  PROVE  Ordinary /\ Kept
<1>1. Goes(t, from, to) /\ UNCHANGED <<flags, fShutdown, vnThreadsRunning, minerCounts, using,
                                       unflushed, fDbEnvInit>>
  BY DEF Walk
<1>2. CountsRight'
  BY <1>1, AlikeCounts DEF minerCounts, Fits, Places
<1>3. Ordinary
  BY <1>1, GoesOrdinary DEF Ordinary, flags, minerCounts, Excused
<1>4. ShutdownTypeOK'
  BY <1>1, GoesOrdinary DEF ShutdownInv, ShutdownTypeOK, flags, minerCounts
<1>5. UsersWrite'
  BY <1>1, GoesOrdinary, Slots DEF ShutdownInv, UsersWrite, Alone
<1> QED  BY <1>2, <1>3, <1>4, <1>5 DEF Kept

\* CDB opens a database, or does not any more.
LEMMA OpenOrdinary ==
  ASSUME ShutdownAssumption, ShutdownInv, NEW t, NEW from, Fits(t, from, "write"),
         OpenDB(t, from, "write"), Alike(t, from, "write"),
         t \in {"open", "message", "rpc"} \cup Miners
  PROVE  Ordinary /\ Kept
<1>1. Goes(t, from, "write") /\ UNCHANGED <<flags, fShutdown, vnThreadsRunning, minerCounts>>
      /\ using' \subseteq using \cup {t}
      /\ (~fDbEnvInit /\ fShutdown => UNCHANGED <<unflushed, fDbEnvInit>>)
      /\ (fDbEnvInit' = TRUE \/ fDbEnvInit' = fDbEnvInit)
  BY DEF OpenDB
<1>2. CountsRight'
  BY <1>1, AlikeCounts DEF minerCounts, Fits, Places
<1>3. Ordinary
  BY <1>1, GoesOrdinary DEF Ordinary, flags, minerCounts, Excused
<1>4. ShutdownTypeOK'
  BY <1>1, GoesOrdinary DEF ShutdownInv, ShutdownTypeOK, flags, minerCounts
<1>5. UsersWrite'
  BY <1>1, GoesOrdinary, Slots DEF ShutdownInv, UsersWrite, Alone
<1> QED  BY <1>2, <1>3, <1>4, <1>5 DEF Kept

\* CDB closes it.
LEMMA CloseOrdinary ==
  ASSUME ShutdownAssumption, ShutdownInv, NEW t, NEW to, Fits(t, "write", to),
         CloseDB(t, "write", to), Alike(t, "write", to)
  PROVE  Ordinary /\ Kept
<1>1. Goes(t, "write", to) /\ UNCHANGED <<flags, fShutdown, vnThreadsRunning, minerCounts,
                                          unflushed, fDbEnvInit>>
      /\ using' = using \ {t}
  BY DEF CloseDB
<1>2. CountsRight'
  BY <1>1, AlikeCounts DEF minerCounts, Fits, Places
<1>3. Ordinary
  BY <1>1, GoesOrdinary DEF Ordinary, flags, minerCounts, Excused
<1>4. ShutdownTypeOK'
  BY <1>1, GoesOrdinary DEF ShutdownInv, ShutdownTypeOK, flags, minerCounts
<1>5. UsersWrite'
  BY <1>1, GoesOrdinary, Slots DEF ShutdownInv, UsersWrite, Alone
<1> QED  BY <1>2, <1>3, <1>4, <1>5 DEF Kept

\* A thread begins to count as running, or ends to.
LEMMA CountOrdinary ==
  ASSUME ShutdownAssumption, ShutdownInv, NEW t \in Alone, NEW from, NEW to, Fits(t, from, to),
         NEW n \in {1, -1}, Goes(t, from, to), Counts(t, n), from # "write",
         UNCHANGED <<flags, fShutdown, minerCounts, using, unflushed, fDbEnvInit>>,
         t \in {"message", "rpc"} =>
           IF n = 1 THEN from \notin CountedAt(t) /\ to \in CountedAt(t)
                    ELSE from \in CountedAt(t) /\ to \notin CountedAt(t)
  PROVE  Ordinary /\ Kept
<1>1. vnThreadsRunning' = [vnThreadsRunning EXCEPT ![Slot(t)] = @ + n]
  BY DEF Counts
<1>2. CountsRight'
  <2>1. /\ vnThreadsRunning \in [0..4 -> Int]
        /\ at'[t] = to /\ at[t] = from /\ \A u \in Everyone \ {t} : at'[u] = at[u]
    BY GoesOrdinary DEF ShutdownInv, ShutdownTypeOK
  <2>2. \A m \in Miners : at'[m] = at[m]
    BY <2>1, Slots
  <2>3. vnThreadsRunning'[3] = vnThreadsRunning[3]
    BY <1>1, <2>1, Slots DEF Alone
  <2>4. (Miscounted => miscounted)'
    BY <2>2, <2>3, CountedMinersKept DEF minerCounts
  <2>5. CountedAt("message")' = CountedAt("message") /\ CountedAt("rpc")' = CountedAt("rpc")
    BY Slots DEF CountedAt
  <2>6. /\ vnThreadsRunning[2] = IF at["message"] \in CountedAt("message") THEN 1 ELSE 0
        /\ vnThreadsRunning[4] = IF at["rpc"] \in CountedAt("rpc") THEN 1 ELSE 0
    BY DEF ShutdownInv, CountsRight
  <2>7. "message" \in Everyone /\ "rpc" \in Everyone
    BY DEF Everyone, Threads
  <2>8. vnThreadsRunning'[2] = IF at'["message"] \in CountedAt("message") THEN 1 ELSE 0
    <3>1. CASE t = "message"
      BY <1>1, <2>1, <2>6, <3>1, Slots
    <3>2. CASE t # "message"
      BY <1>1, <2>1, <2>6, <2>7, <3>2, Slots DEF Alone
    <3> QED  BY <3>1, <3>2
  <2>9. vnThreadsRunning'[4] = IF at'["rpc"] \in CountedAt("rpc") THEN 1 ELSE 0
    <3>1. CASE t = "rpc"
      BY <1>1, <2>1, <2>6, <3>1, Slots
    <3>2. CASE t # "rpc"
      BY <1>1, <2>1, <2>6, <2>7, <3>2, Slots DEF Alone
    <3> QED  BY <3>1, <3>2
  <2> QED  BY <2>4, <2>5, <2>8, <2>9 DEF CountsRight
<1>3. Ordinary
  BY GoesOrdinary DEF Ordinary, flags, minerCounts, Excused
<1>4. ShutdownTypeOK'
  BY <1>1, GoesOrdinary, Slots DEF ShutdownInv, ShutdownTypeOK, flags, minerCounts, Alone
<1>5. UsersWrite'
  BY GoesOrdinary, Slots DEF ShutdownInv, UsersWrite, Alone
<1> QED  BY <1>2, <1>3, <1>4, <1>5 DEF Kept

\* vnThreadsRunning[n]++.
LEMMA EnterOrdinary ==
  ASSUME ShutdownAssumption, ShutdownInv, NEW t \in Alone, NEW from, NEW to, Fits(t, from, to),
         Enter(t, from, to), from # "write",
         t \in {"message", "rpc"} => from \notin CountedAt(t) /\ to \in CountedAt(t)
  PROVE  Ordinary /\ Kept
BY CountOrdinary DEF Enter

\* vnThreadsRunning[n]--.
LEMMA LeaveOrdinary ==
  ASSUME ShutdownAssumption, ShutdownInv, NEW t \in Alone, NEW from, NEW to, Fits(t, from, to),
         Leave(t, from, to), from # "write",
         t \in {"message", "rpc"} => from \in CountedAt(t) /\ to \notin CountedAt(t)
  PROVE  Ordinary /\ Kept
<1>1. -1 \in {1, -1} /\ -1 # 1
  OBVIOUS
<1> QED  BY <1>1, CountOrdinary DEF Leave

\* "if (fShutdown) return".
LEMMA LookOrdinary ==
  ASSUME ShutdownAssumption, ShutdownInv, NEW t \in Everyone, NEW from \in Elsewhere,
    NEW to \in Elsewhere,
         Look(t, from, to), from # "write", to \notin Foreign(t),
         Alike(t, from, to), Alike(t, from, "end")
  PROVE  Ordinary /\ Kept
<1>1. at[t] = from
  BY DEF Look, Walk, Goes
<1>2. "end" \in Elsewhere /\ "end" \notin AtWork(t) /\ "end" \notin Foreign(t)
  BY DEF Elsewhere, AtWork, Foreign
<1>3. CASE fShutdown
  BY <1>1, <1>2, <1>3, WalkOrdinary DEF Look, Fits
<1>4. CASE ~fShutdown
  BY <1>1, <1>4, WalkOrdinary DEF Look, Fits
<1> QED  BY <1>3, <1>4

-----------------------------------------------------------------------------
\* ThreadSocketHandler.
LEMMA SocketOrdinary ==
  ASSUME ShutdownAssumption, ShutdownInv, SocketStep
  PROVE  Ordinary /\ Kept
<1>1. "socket" \in Everyone /\ "socket" \in Alone
      /\ CountedAt("socket") = {} /\ AtWork("socket") = {}
  BY Slots DEF Alone, Everyone, Threads, CountedAt, AtWork, ShutdownAssumption
<1>2. CASE Enter("socket", "new", "work")
  BY <1>1, <1>2, EnterOrdinary DEF Fits, Elsewhere, Alike, Foreign
<1>3. CASE Leave("socket", "work", "select")
  BY <1>1, <1>3, LeaveOrdinary DEF Fits, Elsewhere, Alike, Foreign
<1>4. CASE Enter("socket", "select", "back")
  BY <1>1, <1>4, EnterOrdinary DEF Fits, Elsewhere, Alike, Foreign
<1>5. CASE Look("socket", "back", "work")
  BY <1>1, <1>5, LookOrdinary DEF Elsewhere, Alike, Foreign
<1>6. CASE Look("socket", "work", "work")
  BY <1>1, <1>6, LookOrdinary DEF Elsewhere, Alike, Foreign
<1>7. CASE Leave("socket", "end", "none")
  BY <1>1, <1>7, LeaveOrdinary DEF Fits, Elsewhere, Alike, Foreign
<1> QED
  BY <1>2, <1>3, <1>4, <1>5, <1>6, <1>7
     DEF SocketStep

\* ThreadOpenConnections.
LEMMA OpenConnectionsOrdinary ==
  ASSUME ShutdownAssumption, ShutdownInv, OpenStep
  PROVE  Ordinary /\ Kept
<1>1. "open" \in Everyone /\ "open" \in Alone
      /\ CountedAt("open") = {} /\ AtWork("open") = {}
  BY Slots DEF Alone, Everyone, Threads, CountedAt, AtWork, ShutdownAssumption
<1>2. CASE Enter("open", "new", "work")
  BY <1>1, <1>2, EnterOrdinary DEF Fits, Elsewhere, Alike, Foreign
<1>3. CASE Leave("open", "work", "sleep")
  BY <1>1, <1>3, LeaveOrdinary DEF Fits, Elsewhere, Alike, Foreign
<1>4. CASE Enter("open", "sleep", "back")
  BY <1>1, <1>4, EnterOrdinary DEF Fits, Elsewhere, Alike, Foreign
<1>5. CASE fShutdown /\ Walk("open", "sleep", "end")
  BY <1>1, <1>5, WalkOrdinary DEF Fits, Elsewhere, Alike, Foreign
<1>6. CASE Look("open", "back", "address")
  BY <1>1, <1>6, LookOrdinary DEF Elsewhere, Alike, Foreign
<1>7. CASE OpenDB("open", "address", "write")
  BY <1>1, <1>7, OpenOrdinary DEF Fits, Elsewhere, Alike, Foreign
<1>8. CASE CloseDB("open", "write", "dial")
  BY <1>1, <1>8, CloseOrdinary DEF Fits, Elsewhere, Alike, Foreign
<1>9. CASE Look("open", "dial", "dialled")
  BY <1>1, <1>9, LookOrdinary DEF Elsewhere, Alike, Foreign
<1>10. CASE fShutdown /\ Walk("open", "dial", "work")
  BY <1>1, <1>10, WalkOrdinary DEF Fits, Elsewhere, Alike, Foreign
<1>11. CASE Leave("open", "dialled", "connect")
  BY <1>1, <1>11, LeaveOrdinary DEF Fits, Elsewhere, Alike, Foreign
<1>12. CASE Enter("open", "connect", "work")
  BY <1>1, <1>12, EnterOrdinary DEF Fits, Elsewhere, Alike, Foreign
<1>13. CASE Leave("open", "end", "none")
  BY <1>1, <1>13, LeaveOrdinary DEF Fits, Elsewhere, Alike, Foreign
<1> QED
  BY <1>2, <1>3, <1>4, <1>5, <1>6, <1>7, <1>8, <1>9, <1>10, <1>11, <1>12, <1>13
     DEF OpenStep

\* ThreadMessageHandler.
LEMMA MessageOrdinary ==
  ASSUME ShutdownAssumption, ShutdownInv, MessageStep
  PROVE  Ordinary /\ Kept
<1>1. /\ "message" \in Everyone /\ "message" \in Alone
      /\ CountedAt("message") = {"loop", "receive", "write", "received", "sent", "back", "end"}
      /\ AtWork("message") = {"receive", "write", "received", "sent"}
  BY Slots DEF Alone, Everyone, Threads, CountedAt, AtWork, ShutdownAssumption
<1>2. CASE Enter("message", "new", "loop")
  BY <1>1, <1>2, EnterOrdinary DEF Fits, Elsewhere, Alike, Foreign
<1>3. CASE Look("message", "loop", "receive")
  BY <1>1, <1>3, LookOrdinary DEF Elsewhere, Alike, Foreign
<1>4. CASE OpenDB("message", "receive", "write")
  BY <1>1, <1>4, OpenOrdinary DEF Fits, Elsewhere, Alike, Foreign
<1>5. CASE CloseDB("message", "write", "received")
  BY <1>1, <1>5, CloseOrdinary DEF Fits, Elsewhere, Alike, Foreign
<1>6. CASE Walk("message", "receive", "received")
  BY <1>1, <1>6, WalkOrdinary DEF Fits, Elsewhere, Alike, Foreign
<1>7. CASE Look("message", "received", "sent")
  BY <1>1, <1>7, LookOrdinary DEF Elsewhere, Alike, Foreign
<1>8. CASE Leave("message", "sent", "sleep")
  BY <1>1, <1>8, LeaveOrdinary DEF Fits, Elsewhere, Alike, Foreign
<1>9. CASE Walk("message", "sleep", IF fRequestShutdown THEN "take" ELSE "awake")
  <2>1. CASE fRequestShutdown
    BY <1>1, <1>9, <2>1, WalkOrdinary DEF Fits, Elsewhere, Alike, Foreign
  <2>2. CASE ~fRequestShutdown
    BY <1>1, <1>9, <2>2, WalkOrdinary DEF Fits, Elsewhere, Alike, Foreign
  <2> QED  BY <2>1, <2>2
<1>10. CASE Enter("message", "awake", "back")
  BY <1>1, <1>10, EnterOrdinary DEF Fits, Elsewhere, Alike, Foreign
<1>11. CASE Look("message", "back", "loop")
  BY <1>1, <1>11, LookOrdinary DEF Elsewhere, Alike, Foreign
<1>12. CASE Leave("message", "end", "none")
  BY <1>1, <1>12, LeaveOrdinary DEF Fits, Elsewhere, Alike, Foreign
<1> QED
  BY <1>2, <1>3, <1>4, <1>5, <1>6, <1>7, <1>8, <1>9, <1>10, <1>11, <1>12
     DEF MessageStep, MessageSleep, Busy

\* ThreadRPCServer.
LEMMA RpcOrdinary ==
  ASSUME ShutdownAssumption, ShutdownInv, RpcStep \/ RpcAccept
  PROVE  Ordinary /\ Kept
<1>1. /\ "rpc" \in Everyone /\ "rpc" \in Alone
      /\ CountedAt("rpc") = {"loop", "back", "call", "write", "end"}
      /\ AtWork("rpc") = {"call", "write"}
  BY Slots DEF Alone, Everyone, Threads, CountedAt, AtWork, ShutdownAssumption
<1>2. CASE Enter("rpc", "new", "loop")
  BY <1>1, <1>2, EnterOrdinary DEF Fits, Elsewhere, Alike, Foreign
<1>3. CASE Leave("rpc", "loop", "accept")
  BY <1>1, <1>3, LeaveOrdinary DEF Fits, Elsewhere, Alike, Foreign
<1>4. CASE Enter("rpc", "accept", "back")
  BY <1>1, <1>4, EnterOrdinary DEF Fits, Elsewhere, Alike, Foreign
<1>5. CASE Look("rpc", "back", "call")
  BY <1>1, <1>5, LookOrdinary DEF Elsewhere, Alike, Foreign
<1>6. CASE Walk("rpc", "call", "loop")
  BY <1>1, <1>6, WalkOrdinary DEF Fits, Elsewhere, Alike, Foreign
<1>7. CASE OpenDB("rpc", "call", "write")
  BY <1>1, <1>7, OpenOrdinary DEF Fits, Elsewhere, Alike, Foreign
<1>8. CASE CloseDB("rpc", "write", "loop")
  BY <1>1, <1>8, CloseOrdinary DEF Fits, Elsewhere, Alike, Foreign
<1>9. CASE Leave("rpc", "end", "none")
  BY <1>1, <1>9, LeaveOrdinary DEF Fits, Elsewhere, Alike, Foreign
<1> QED
  BY <1>2, <1>3, <1>4, <1>5, <1>6, <1>7, <1>8, <1>9
     DEF RpcStep, RpcAccept, Busy

\* A miner reads the count.
LEMMA ReadOrdinary ==
  ASSUME ShutdownAssumption, ShutdownInv, NEW t \in Miners, NEW from, NEW to, Fits(t, from, to),
         ReadCount(t, from, to), Alike(t, from, to), from # "write"
  PROVE  Ordinary /\ Kept
<1>1. Goes(t, from, to) /\ UNCHANGED <<flags, fShutdown, vnThreadsRunning, miscounted, using,
                                       unflushed, fDbEnvInit>>
      /\ counted' = [counted EXCEPT ![t] = vnThreadsRunning[3]]
  BY DEF ReadCount
<1>2. CountsRight'
  BY <1>1, AlikeCounts DEF Fits, Places
<1>3. Ordinary
  BY <1>1, GoesOrdinary DEF Ordinary, flags, Excused
<1>4. ShutdownTypeOK'
  BY <1>1, GoesOrdinary DEF ShutdownInv, ShutdownTypeOK, flags
<1>5. UsersWrite'
  BY <1>1, GoesOrdinary, Slots DEF ShutdownInv, UsersWrite, Alone
<1> QED  BY <1>2, <1>3, <1>4, <1>5 DEF Kept

\* A miner writes it, and it is noted when it is wrong.
LEMMA WriteOrdinary ==
  ASSUME ShutdownAssumption, ShutdownInv, NEW t \in Miners, NEW from, NEW to, Fits(t, from, to),
         NEW n \in {1, -1}, WriteCount(t, from, to, n), from # "write"
  PROVE  Ordinary /\ Kept
<1>1. Goes(t, from, to) /\ UNCHANGED <<flags, fShutdown, counted, using, unflushed, fDbEnvInit>>
      /\ vnThreadsRunning' = [vnThreadsRunning EXCEPT ![3] = counted[t] + n]
      /\ miscounted' = (miscounted \/ Miscounted')
  BY DEF WriteCount
<1>2. miscounted' \in BOOLEAN /\ (miscounted => miscounted') /\ (Miscounted' => miscounted')
  BY <1>1
<1>3. counted[t] \in Int
  BY DEF ShutdownInv, ShutdownTypeOK
<1>4. vnThreadsRunning' \in [0..4 -> Int] /\ vnThreadsRunning'[2] = vnThreadsRunning[2]
      /\ vnThreadsRunning'[4] = vnThreadsRunning[4]
  BY <1>1, <1>3 DEF ShutdownInv, ShutdownTypeOK
<1>5. CountsRight'
  <2>1. "message" # t /\ "rpc" # t /\ "message" \in Everyone /\ "rpc" \in Everyone
    BY Slots DEF Alone
  <2>2. at'["message"] = at["message"] /\ at'["rpc"] = at["rpc"]
    BY <1>1, <2>1, GoesOrdinary
  <2>3. CountedAt("message")' = CountedAt("message") /\ CountedAt("rpc")' = CountedAt("rpc")
    BY Slots DEF CountedAt
  <2> QED  BY <1>2, <1>4, <2>2, <2>3 DEF ShutdownInv, CountsRight
<1>6. Ordinary
  BY <1>1, <1>2, GoesOrdinary DEF Ordinary, flags, Excused
<1>7. ShutdownTypeOK'
  BY <1>1, <1>2, <1>4, GoesOrdinary DEF ShutdownInv, ShutdownTypeOK, flags
<1>8. UsersWrite'
  BY <1>1, GoesOrdinary, Slots DEF ShutdownInv, UsersWrite, Alone
<1> QED  BY <1>5, <1>6, <1>7, <1>8 DEF Kept

\* ThreadBitcoinMiner.
LEMMA MinerOrdinary ==
  ASSUME ShutdownAssumption, ShutdownInv, NEW m \in Miners, MinerStep(m)
  PROVE  Ordinary /\ Kept
<1>1. /\ m \in Everyone /\ m \notin {"message", "rpc"} /\ AtWork(m) = {"mine", "write"}
      /\ CountedAt(m) = {"loop", "mine", "write", "end", "leave"}
      /\ -1 \in {1, -1} /\ 1 \in {1, -1}
  BY Slots DEF Alone
<1>2. CASE ReadCount(m, "new", "enter")
  BY <1>1, <1>2, ReadOrdinary DEF Fits, Elsewhere, Alike, Foreign
<1>3. CASE WriteCount(m, "enter", "loop", 1)
  BY <1>1, <1>3, WriteOrdinary DEF Fits, Elsewhere, Foreign
<1>4. CASE Look(m, "loop", "mine")
  BY <1>1, <1>4, LookOrdinary DEF Elsewhere, Alike, Foreign
<1>5. CASE Walk(m, "mine", "loop")
  BY <1>1, <1>5, WalkOrdinary DEF Fits, Elsewhere, Alike, Foreign
<1>6. CASE OpenDB(m, "mine", "write")
  BY <1>1, <1>6, OpenOrdinary DEF Fits, Elsewhere, Alike, Foreign
<1>7. CASE CloseDB(m, "write", "loop")
  BY <1>1, <1>7, CloseOrdinary DEF Fits, Elsewhere, Alike, Foreign
<1>8. CASE ReadCount(m, "end", "leave")
  BY <1>1, <1>8, ReadOrdinary DEF Fits, Elsewhere, Alike, Foreign
<1>9. CASE WriteCount(m, "leave", "none", -1)
  BY <1>1, <1>9, WriteOrdinary DEF Fits, Elsewhere, Foreign
<1> QED  BY <1>2, <1>3, <1>4, <1>5, <1>6, <1>7, <1>8, <1>9 DEF MinerStep, Busy

-----------------------------------------------------------------------------
\* Steps that leave the places, or move threads that neither count nor use a database.
LEMMA CountsUndisturbed ==
  ASSUME ShutdownAssumption, ShutdownInv, UNCHANGED <<vnThreadsRunning, miscounted, using>>,
         \A t \in {"message", "rpc"} \cup Miners : at'[t] \in CountedAt(t) <=> at[t] \in CountedAt(t),
         \A t \in {"open", "message", "rpc"} \cup Miners : at[t] = "write" => at'[t] = "write"
  PROVE  CountsRight' /\ UsersWrite'
<1>1. (Miscounted => miscounted)'
  <2>1. \A m \in Miners : at'[m] \in {"loop", "mine", "write", "end", "leave"}
                         <=> at[m] \in {"loop", "mine", "write", "end", "leave"}
    BY Slots
  <2>2. vnThreadsRunning'[3] = vnThreadsRunning[3]
    OBVIOUS
  <2> QED  BY <2>1, <2>2, CountedMinersKept
<1>2. CountedAt("message")' = CountedAt("message") /\ CountedAt("rpc")' = CountedAt("rpc")
  BY Slots DEF CountedAt
<1>3. CountsRight'
  BY <1>1, <1>2 DEF CountsRight, ShutdownInv
<1> QED  BY <1>3 DEF UsersWrite, ShutdownInv

\* ThreadFlushWalletDB.
LEMMA FlushOrdinary ==
  ASSUME ShutdownAssumption, ShutdownInv, FlushWalletDB
  PROVE  Ordinary /\ Kept
<1>1. /\ "flush" \in Everyone /\ "none" \in Places /\ "new" \notin Stopping /\ "none" \notin Stopping
      /\ AtWork("flush") = {} /\ \A m \in Miners : m # "flush"
      /\ "none" \notin Foreign("flush")
  BY DEF Everyone, Threads, Places, Elsewhere, Stopping, AtWork, ShutdownAssumption, Foreign
<1>2. /\ at' \in [Everyone -> Places] /\ \A u \in Everyone \ {"flush"} : at'[u] = at[u]
      /\ at'["flush"] = at["flush"] \/ (at["flush"] = "new" /\ at'["flush"] = "none")
      /\ (fShutdown => UNCHANGED unflushed)
      /\ UNCHANGED <<flags, fShutdown, vnThreadsRunning, minerCounts, using, fDbEnvInit>>
  BY <1>1 DEF FlushWalletDB, ShutdownInv, ShutdownTypeOK
<1>3. Ordinary
  BY <1>1, <1>2 DEF Ordinary, flags, minerCounts, Excused
<1>4. ShutdownTypeOK'
  <2>1. \A u \in Everyone : at'[u] \notin Foreign(u)
    BY <1>1, <1>2 DEF ShutdownInv, ShutdownTypeOK
  <2> QED  BY <1>2, <2>1 DEF ShutdownInv, ShutdownTypeOK, flags, minerCounts
<1>5. \A t \in {"open", "message", "rpc"} \cup Miners : at'[t] = at[t]
  BY <1>1, <1>2, Slots DEF Alone
<1>6. CountsRight' /\ UsersWrite'
  BY <1>2, <1>5, CountsUndisturbed DEF minerCounts
<1> QED  BY <1>3, <1>4, <1>6 DEF Kept

\* A signal is only noted.
LEMMA SignalOrdinary ==
  ASSUME ShutdownAssumption, ShutdownInv, HandleSIGTERM
  PROVE  Ordinary /\ Kept
<1>1. UNCHANGED <<fShutdown, fTaken, fExit, vnThreadsRunning, at, counted, miscounted, using,
                  unflushed,
                  fDbEnvInit, wallet, waited>>
  BY DEF HandleSIGTERM, minerCounts
<1>2. Ordinary
  BY <1>1 DEF Ordinary, Excused, ShutdownInv, ShutdownTypeOK
<1>3. ShutdownTypeOK'
  BY <1>1 DEF ShutdownInv, ShutdownTypeOK
<1>4. CountsRight' /\ UsersWrite'
  BY <1>1, CountsUndisturbed
<1> QED  BY <1>2, <1>3, <1>4 DEF Kept

\* StopNode waits: it may become impatient, never patient again.
LEMMA TickOrdinary ==
  ASSUME ShutdownAssumption, ShutdownInv, NEW c, Tick(c)
  PROVE  Ordinary /\ Kept
<1>1. UNCHANGED <<fShutdown, fTaken, fExit, vnThreadsRunning, at, counted, miscounted, using,
                  unflushed,
                  fDbEnvInit, wallet>>
      /\ waited' = waited + 1
  BY DEF Tick, minerCounts
<1>2. Excused => Excused'
  BY <1>1 DEF Excused, ShutdownAssumption, ShutdownInv, ShutdownTypeOK
<1>3. Ordinary
  BY <1>1, <1>2 DEF Ordinary, ShutdownInv, ShutdownTypeOK
<1>4. ShutdownTypeOK'
  BY <1>1 DEF ShutdownInv, ShutdownTypeOK
<1>5. CountsRight' /\ UsersWrite'
  BY <1>1, CountsUndisturbed
<1> QED  BY <1>3, <1>4, <1>5 DEF Kept

\* CheckDiskSpace starts a thread that is to shut down.
LEMMA DiskSpaceOrdinary ==
  ASSUME ShutdownAssumption, ShutdownInv, NEW t, CheckDiskSpace(t)
  PROVE  Ordinary /\ Kept
<1>1. /\ "disk" \in Everyone /\ "take" \in Places /\ "take" \notin Stopping /\ "none" \notin Stopping
      /\ AtWork("disk") = {} /\ \A m \in Miners : m # "disk"
      /\ "take" \notin Foreign("disk")
  BY DEF Everyone, Threads, Places, Elsewhere, Stopping, AtWork, ShutdownAssumption, Foreign
<1>2. /\ at' \in [Everyone -> Places] /\ \A u \in Everyone \ {"disk"} : at'[u] = at[u]
      /\ at["disk"] = "none" /\ at'["disk"] = "take"
      /\ fShutdown' = TRUE
      /\ UNCHANGED <<flags, vnThreadsRunning, minerCounts, using, unflushed, fDbEnvInit>>
  BY <1>1 DEF CheckDiskSpace, ShutdownInv, ShutdownTypeOK
<1>3. Ordinary
  BY <1>1, <1>2 DEF Ordinary, flags, minerCounts, Excused
<1>4. ShutdownTypeOK'
  <2>1. \A u \in Everyone : at'[u] \notin Foreign(u)
    BY <1>1, <1>2 DEF ShutdownInv, ShutdownTypeOK
  <2> QED  BY <1>2, <2>1 DEF ShutdownInv, ShutdownTypeOK, flags, minerCounts
<1>5. \A u \in {"open", "message", "rpc"} \cup Miners : at'[u] = at[u]
  BY <1>1, <1>2, Slots DEF Alone
<1>6. CountsRight' /\ UsersWrite'
  BY <1>2, <1>5, CountsUndisturbed DEF minerCounts
<1> QED  BY <1>3, <1>4, <1>6 DEF Kept

\* So does the method "stop".
LEMMA StopOrdinary ==
  ASSUME ShutdownAssumption, ShutdownInv, Stop
  PROVE  Ordinary /\ Kept
<1>1. /\ "stop" \in Everyone /\ "rpc" \in Everyone /\ {"take", "loop"} \subseteq Places
      /\ \A p \in {"take", "loop", "call", "none"} : p \notin Stopping
      /\ AtWork("stop") = {} /\ AtWork("rpc") = {"call", "write"}
      /\ \A m \in Miners : m # "stop" /\ m # "rpc"
      /\ "take" \notin Foreign("stop") /\ "loop" \notin Foreign("rpc")
  BY DEF Everyone, Threads, Places, Elsewhere, Stopping, AtWork, ShutdownAssumption, Foreign
<1>2. /\ at' \in [Everyone -> Places] /\ \A u \in Everyone \ {"stop", "rpc"} : at'[u] = at[u]
      /\ at["stop"] = "none" /\ at'["stop"] = "take" /\ at["rpc"] = "call" /\ at'["rpc"] = "loop"
      /\ UNCHANGED <<flags, fShutdown, vnThreadsRunning, minerCounts, using, unflushed, fDbEnvInit>>
  BY <1>1 DEF Stop, ShutdownInv, ShutdownTypeOK
<1>3. Ordinary
  BY <1>1, <1>2 DEF Ordinary, flags, minerCounts, Excused
<1>4. ShutdownTypeOK'
  <2>1. \A u \in Everyone : at'[u] \notin Foreign(u)
    BY <1>1, <1>2 DEF ShutdownInv, ShutdownTypeOK
  <2> QED  BY <1>2, <2>1 DEF ShutdownInv, ShutdownTypeOK, flags, minerCounts
<1>5. \A u \in {"open", "message"} \cup Miners : at'[u] = at[u]
  BY <1>1, <1>2, Slots DEF Alone
<1>6. CountsRight' /\ UsersWrite'
  BY <1>2, <1>5, Slots, CountsUndisturbed DEF minerCounts
<1> QED  BY <1>3, <1>4, <1>6 DEF Kept

\* Nothing happens.
LEMMA Unchanged ==
  ASSUME ShutdownAssumption, ShutdownInv, UNCHANGED shutdownVars
  PROVE  Ordinary /\ Kept
<1>1. UNCHANGED <<fShutdown, fTaken, fExit, vnThreadsRunning, at, counted, miscounted, using,
                  unflushed,
                  fDbEnvInit, wallet, waited>>
  BY DEF shutdownVars
<1>2. Ordinary
  BY <1>1 DEF Ordinary, Excused, ShutdownInv, ShutdownTypeOK
<1>3. ShutdownTypeOK'
  BY <1>1 DEF ShutdownInv, ShutdownTypeOK
<1>4. CountsRight' /\ UsersWrite'
  BY <1>1, CountsUndisturbed
<1> QED  BY <1>2, <1>3, <1>4 DEF Kept

-----------------------------------------------------------------------------
\* The rest is what a thread does that stops the others.
LEMMA CallerGoes ==
  ASSUME ShutdownAssumption, ShutdownInv, NEW c \in Callers, NEW from, NEW to, Goes(c, from, to),
         from \in Stopping \cup {"take"}, to \in Stopping \cup {"wait", "none"},
         UNCHANGED <<vnThreadsRunning, counted, miscounted, using, waited>>,
         fShutdown' \in BOOLEAN, fTaken' \in BOOLEAN, fExit' \in BOOLEAN,
         fDbEnvInit' \in BOOLEAN, wallet' \in BOOLEAN,
         fExit' => fExit \/ from = "exit",
         fTaken => fTaken', fTaken' => fShutdown', to \in Stopping => fTaken',
         to \in {"last4", "close", "delete", "exit"} /\ from \notin {"last4", "close", "delete",
                                                                     "exit"}
           => at["message"] \notin AtWork("message"),
         to \in {"close", "delete", "exit"} /\ from \notin {"close", "delete", "exit"}
           => at["rpc"] \notin AtWork("rpc"),
         to \in {"stop4", "last2", "last4", "close", "delete", "exit"}
             /\ from \notin {"stop4", "last2", "last4", "close", "delete", "exit"}
           => Excused \/ \A m \in Miners : at[m] \notin {"mine", "write"}
  PROVE  Kept /\ AllTold' /\ MessageDone' /\ RpcDone' /\ MinersDone'
<1>1. /\ c \in Everyone /\ to \in Places /\ from # "write"
      /\ Callers \subseteq Everyone /\ "open" \in Everyone /\ c \notin Miners /\ c # "rpc"
      /\ "message" \in Everyone /\ "rpc" \in Everyone /\ Miners \subseteq Everyone
  BY DEF Callers, Everyone, Threads, Places, Elsewhere, Stopping, ShutdownAssumption
<1>2. /\ at' \in [Everyone -> Places] /\ \A u \in Everyone \ {c} : at'[u] = at[u]
      /\ at'[c] = to /\ at[c] = from
  BY <1>1, GoesTo
<1>3. ShutdownTypeOK'
  <2>1. to \notin Foreign(c)
    BY DEF Foreign, Stopping
  <2>2. \A u \in Everyone : at'[u] \notin Foreign(u)
    BY <1>2, <2>1 DEF ShutdownInv, ShutdownTypeOK
  <2> QED  BY <1>2, <2>2 DEF ShutdownInv, ShutdownTypeOK
<1>4. from \notin CountedAt(c) /\ to \notin CountedAt(c) /\ to \notin AtWork(c)
  BY <1>1 DEF CountedAt, AtWork, Stopping
<1>5. CountsRight'
  BY <1>1, <1>4, AlikeCounts DEF Alike
<1>6. UsersWrite'
  BY <1>1, <1>2 DEF UsersWrite, ShutdownInv
<1>7. ASSUME NEW places, "exit" \in places,
             Reached(places)' \/ fExit' \/ \E d \in Callers : at'[d] \in places
      PROVE  Reached(places) \/ (to \in places /\ from \notin places)
  <2>1. fExit' \/ \E d \in Callers : at'[d] \in places
    BY <1>7 DEF Reached
  <2>2. CASE fExit'
    <3>1. fExit \/ at[c] \in places
      BY <1>2, <1>7, <2>2
    <3> QED  BY <3>1 DEF Reached
  <2>3. ASSUME NEW d \in Callers, at'[d] \in places PROVE Reached(places) \/ (to \in places
                                                                              /\ from \notin places)
    <3>1. CASE d = c
      <4>1. to \in places /\ at[c] = from
        BY <1>2, <2>3, <3>1
      <4> QED  BY <4>1 DEF Reached
    <3>2. CASE d # c
      <4>1. at[d] \in places
        BY <1>1, <1>2, <2>3, <3>2
      <4> QED  BY <4>1 DEF Reached
    <3> QED  BY <3>1, <3>2
  <2> QED  BY <2>1, <2>2, <2>3
<1>8. AllTold'
  <2>1. ASSUME Reached(Stopping)' PROVE fTaken'
    <3>1. "exit" \in Stopping /\ (Reached(Stopping)'
                                  => fExit' \/ \E d \in Callers : at'[d] \in Stopping)
      BY DEF Stopping, Reached
    <3>2. Reached(Stopping) \/ to \in Stopping
      BY <1>7, <2>1, <3>1
    <3> QED  BY <3>2 DEF AllTold, ShutdownInv
  <2> QED  BY <2>1 DEF AllTold
<1>9. AtWork("message")' = AtWork("message") /\ AtWork("rpc")' = AtWork("rpc")
  BY Slots DEF AtWork
<1>10. MessageDone'
  <2> DEFINE places == {"last4", "close", "delete", "exit"}
  <2>1. SUFFICES ASSUME Reached(places)' PROVE at'["message"] \notin AtWork("message")
    BY <1>9 DEF MessageDone
  <2>2. Reached(places) \/ (to \in places /\ from \notin places)
    BY <1>7, <2>1
  <2>3. at["message"] \notin AtWork("message")
    BY <2>2 DEF ShutdownInv, MessageDone
  <2> QED  BY <1>1, <1>2, <1>4, <2>3
<1>11. RpcDone'
  <2> DEFINE places == {"close", "delete", "exit"}
  <2>1. SUFFICES ASSUME Reached(places)' PROVE at'["rpc"] \notin AtWork("rpc")
    BY <1>9 DEF RpcDone
  <2>2. Reached(places) \/ (to \in places /\ from \notin places)
    BY <1>7, <2>1
  <2>3. at["rpc"] \notin AtWork("rpc")
    BY <2>2 DEF ShutdownInv, RpcDone
  <2> QED  BY <1>1, <1>2, <2>3
<1>12. MinersDone'
  <2> DEFINE places == {"stop4", "last2", "last4", "close", "delete", "exit"}
  <2>1. SUFFICES ASSUME Reached(places)'
                 PROVE  Excused' \/ \A m \in Miners : at'[m] \notin {"mine", "write"}
    BY DEF MinersDone
  <2>2. Reached(places) \/ (to \in places /\ from \notin places)
    BY <1>7, <2>1
  <2>3. Excused \/ \A m \in Miners : at[m] \notin {"mine", "write"}
    BY <2>2 DEF ShutdownInv, MinersDone
  <2>4. Excused => Excused'
    BY DEF Excused
  <2> QED  BY <1>1, <1>2, <2>3, <2>4
<1> QED  BY <1>3, <1>5, <1>6, <1>8, <1>10, <1>11, <1>12 DEF Kept

\* Take: the first one tells the others; nobody has stopped them yet.
LEMMA TakeKeeps ==
  ASSUME ShutdownAssumption, ShutdownInv, NEW c \in Callers, Take(c)
  PROVE  ShutdownInv'
<1>1. /\ UNCHANGED <<fExit, vnThreadsRunning, counted, miscounted, using, unflushed, fDbEnvInit,
                     wallet, waited>>
      /\ fTaken' = TRUE /\ fShutdown' = (fShutdown \/ ~fTaken)
      /\ Goes(c, "take", IF fTaken THEN "wait" ELSE "flush")
  BY DEF Take, minerCounts
<1>2. fShutdown' = TRUE /\ fExit' \in BOOLEAN /\ fDbEnvInit' \in BOOLEAN /\ wallet' \in BOOLEAN
  BY <1>1 DEF ShutdownInv, AllTold, ShutdownTypeOK
<1>3. PICK to : to = IF fTaken THEN "wait" ELSE "flush"
  OBVIOUS
<1>4. /\ to \in Stopping \cup {"wait", "none"} /\ "take" \in Stopping \cup {"take"}
      /\ to \notin {"stop4", "last2", "last4", "close", "delete", "exit"}
      /\ to # "delete" /\ to # "exit"
  BY <1>3 DEF Stopping
<1>5. Goes(c, "take", to)
  BY <1>1, <1>3
<1>6. Kept /\ AllTold' /\ MessageDone' /\ RpcDone' /\ MinersDone'
  BY <1>1, <1>2, <1>4, <1>5, CallerGoes
<1>7. ClosedForGood'
  <2>1. /\ c \in Everyone /\ to \in Places /\ Callers \subseteq Everyone
    BY <1>4 DEF Callers, Everyone, Threads, Places, Elsewhere
  <2>2. /\ \A u \in Everyone \ {c} : at'[u] = at[u]
        /\ at'[c] = to /\ at[c] = "take"
    BY <1>5, <2>1, GoesTo
  <2>3. \A d \in Callers : at'[d] \in {"delete", "exit"} <=> at[d] \in {"delete", "exit"}
    BY <1>4, <2>1, <2>2
  <2>4. Closed' <=> Closed
    BY <1>1, <2>3 DEF Closed, Reached
  <2> QED  BY <1>1, <2>4 DEF ShutdownInv, ClosedForGood, Excused
<1> QED  BY <1>6, <1>7 DEF ShutdownInv, Kept

\* A step from one place to the next that leaves the databases and the wallet alone.
LEMMA FindsKeeps ==
  ASSUME ShutdownAssumption, ShutdownInv, NEW c \in Callers, NEW i, NEW from, NEW to, NEW again,
         Finds(c, i, from, to, again),
         from \in Stopping \ {"delete", "exit"}, to \in Stopping \ {"delete", "exit"},
         again \in Stopping \ {"delete", "exit"},
         vnThreadsRunning[i] > 0 =>
           /\ again \in {"last4", "close"} => from \in {"last4", "close"}
           /\ again \in {"stop4", "last2", "last4", "close"}
                => from \in {"stop4", "last2", "last4", "close"} \/ Excused
           /\ again # "close",
         ~(vnThreadsRunning[i] > 0) =>
           /\ to \in {"last4", "close"} /\ from \notin {"last4", "close"}
                => at["message"] \notin AtWork("message")
           /\ to = "close" /\ from # "close" => at["rpc"] \notin AtWork("rpc")
           /\ to \in {"stop4", "last2", "last4", "close"} /\ from \notin {"stop4", "last2",
                                                                          "last4", "close"}
                => Excused \/ \A m \in Miners : at[m] \notin {"mine", "write"}
  PROVE  ShutdownInv'
<1>1. UNCHANGED <<fShutdown, fTaken, fExit, vnThreadsRunning, counted, miscounted, using, unflushed,
                  fDbEnvInit, wallet, waited>>
      /\ Goes(c, from, IF vnThreadsRunning[i] > 0 THEN again ELSE to)
  BY DEF Finds, minerCounts, flags
<1>2. PICK next : next = IF vnThreadsRunning[i] > 0 THEN again ELSE to
  OBVIOUS
<1>3. Goes(c, from, next) /\ next \in Stopping \ {"delete", "exit"}
  BY <1>1, <1>2
<1>4. /\ c \in Everyone /\ next \in Places /\ Callers \subseteq Everyone
  BY <1>3 DEF Callers, Everyone, Threads, Places
<1>5. /\ \A u \in Everyone \ {c} : at'[u] = at[u]
      /\ at'[c] = next /\ at[c] = from
  BY <1>3, <1>4, GoesTo
<1>6. fTaken /\ fShutdown
  BY <1>5 DEF ShutdownInv, AllTold, Reached
<1>7. fShutdown' \in BOOLEAN /\ fTaken' \in BOOLEAN /\ fExit' \in BOOLEAN
      /\ fDbEnvInit' \in BOOLEAN /\ wallet' \in BOOLEAN
  BY <1>1 DEF ShutdownInv, ShutdownTypeOK
<1>8. next \in {"last4", "close", "delete", "exit"} /\ from \notin {"last4", "close", "delete",
                                                                    "exit"}
        => at["message"] \notin AtWork("message")
  BY <1>2, <1>3
<1>9. next \in {"close", "delete", "exit"} /\ from \notin {"close", "delete", "exit"}
        => at["rpc"] \notin AtWork("rpc")
  BY <1>2, <1>3
<1>10. next \in {"stop4", "last2", "last4", "close", "delete", "exit"}
         /\ from \notin {"stop4", "last2", "last4", "close", "delete", "exit"}
        => Excused \/ \A m \in Miners : at[m] \notin {"mine", "write"}
  BY <1>2, <1>3
<1>11. Kept /\ AllTold' /\ MessageDone' /\ RpcDone' /\ MinersDone'
  BY <1>1, <1>3, <1>6, <1>7, <1>8, <1>9, <1>10, CallerGoes
<1>12. ClosedForGood'
  <2>1. \A d \in Callers : at'[d] \in {"delete", "exit"} <=> at[d] \in {"delete", "exit"}
    BY <1>3, <1>4, <1>5
  <2>2. Closed' <=> Closed
    BY <1>1, <2>1 DEF Closed, Reached
  <2> QED  BY <1>1, <2>2 DEF ShutdownInv, ClosedForGood, Excused
<1> QED  BY <1>11, <1>12 DEF ShutdownInv, Kept

\* A count that is not positive: nobody is there, unless the miners miscounted.
LEMMA NobodyThere ==
  ASSUME ShutdownAssumption, ShutdownInv
  PROVE  /\ ~(vnThreadsRunning[2] > 0) => at["message"] \notin AtWork("message")
         /\ ~(vnThreadsRunning[4] > 0) => at["rpc"] \notin AtWork("rpc")
         /\ ~(vnThreadsRunning[3] > 0) => Excused \/ \A m \in Miners : at[m] \notin {"mine", "write"}
<1>1. ~(vnThreadsRunning[2] > 0) => at["message"] \notin AtWork("message")
  BY Slots DEF ShutdownInv, CountsRight
<1>2. ~(vnThreadsRunning[4] > 0) => at["rpc"] \notin AtWork("rpc")
  BY Slots DEF ShutdownInv, CountsRight
<1>3. ASSUME ~(vnThreadsRunning[3] > 0), ~miscounted, NEW m \in Miners, at[m] \in {"mine", "write"}
      PROVE  FALSE
  <2> DEFINE those == {w \in Miners : at[w] \in {"loop", "mine", "write", "end", "leave"}}
  <2>1. ~(vnThreadsRunning[3] < Cardinality(those))
    BY <1>3 DEF ShutdownInv, CountsRight, Miscounted
  <2>2. IsFiniteSet(Miners) /\ those \subseteq Miners /\ m \in those
    BY <1>3 DEF ShutdownAssumption
  <2> HIDE DEF those
  <2>3. IsFiniteSet(those)
    BY <2>2, FS_Subset
  <2>4. Cardinality(those) \in Nat
    BY <2>3, FS_CardinalityType
  <2>5. Cardinality(those) # 0
    BY <2>2, <2>3, FS_EmptySet
  <2>6. vnThreadsRunning[3] \in Int
    BY DEF ShutdownInv, ShutdownTypeOK
  <2> QED  BY <1>3, <2>1, <2>4, <2>5, <2>6
<1> QED  BY <1>1, <1>2, <1>3 DEF Excused

\* StopNode: what it has found of a count stays so, as all are told.
LEMMA StopNodeKeeps ==
  ASSUME ShutdownAssumption, ShutdownInv, NEW c \in Callers, StopNode(c)
  PROVE  ShutdownInv'
<1>1. PICK again : again = IF waited > Patience THEN "last2" ELSE "stop0"
  OBVIOUS
<1>2. again \in {"last2", "stop0"} /\ (again = "last2" => Excused)
  BY <1>1 DEF Excused
<1>3. \/ Finds(c, 0, "stop0", "stop2", again) \/ Finds(c, 2, "stop2", "stop3", again)
      \/ Finds(c, 3, "stop3", "stop4", again) \/ Finds(c, 4, "stop4", "last2", again)
      \/ Finds(c, 2, "last2", "last4", "last2") \/ Finds(c, 4, "last4", "close", "last2")
  BY <1>1 DEF StopNode
<1>4. CASE Finds(c, 0, "stop0", "stop2", again)
  BY <1>2, <1>4, FindsKeeps DEF Stopping
<1>5. CASE Finds(c, 2, "stop2", "stop3", again)
  BY <1>2, <1>5, FindsKeeps DEF Stopping
<1>6. CASE Finds(c, 3, "stop3", "stop4", again)
  BY <1>2, <1>6, NobodyThere, FindsKeeps DEF Stopping
<1>7. CASE Finds(c, 4, "stop4", "last2", again)
  BY <1>2, <1>7, FindsKeeps DEF Stopping
<1>8. CASE Finds(c, 2, "last2", "last4", "last2")
  BY <1>8, NobodyThere, FindsKeeps DEF Stopping
<1>9. CASE Finds(c, 4, "last4", "close", "last2")
  BY <1>9, NobodyThere, FindsKeeps DEF Stopping
<1> QED  BY <1>3, <1>4, <1>5, <1>6, <1>7, <1>8, <1>9

\* A step of a caller that is at work on it already.
LEMMA StoppingGoes ==
  ASSUME ShutdownAssumption, ShutdownInv, NEW c \in Callers, NEW from \in Stopping, NEW to,
         Goes(c, from, to), UNCHANGED <<fShutdown, fTaken, vnThreadsRunning, counted, miscounted,
                                        using, waited>>,
         <<from, to>> \in {<<"flush", "stop0">>, <<"close", "delete">>, <<"delete", "exit">>,
                           <<"exit", "none">>},
         fExit' \in BOOLEAN, fExit' => fExit \/ from = "exit", fDbEnvInit' \in BOOLEAN,
           wallet' \in BOOLEAN
  PROVE  /\ Kept /\ AllTold' /\ MessageDone' /\ RpcDone' /\ MinersDone'
         /\ fTaken /\ fShutdown /\ at[c] = from /\ at'[c] = to
         /\ \A d \in Callers \ {c} : at'[d] = at[d]
<1>1. /\ c \in Everyone /\ to \in Places /\ Callers \subseteq Everyone
  BY DEF Callers, Everyone, Threads, Places, Stopping, Elsewhere
<1>2. /\ \A u \in Everyone \ {c} : at'[u] = at[u]
      /\ at'[c] = to /\ at[c] = from
  BY <1>1, GoesTo
<1>3. fTaken /\ fShutdown
  BY <1>2 DEF ShutdownInv, AllTold, Reached
<1>4. fShutdown' \in BOOLEAN /\ fTaken' \in BOOLEAN
  BY DEF ShutdownInv, ShutdownTypeOK
<1>5. to \in Stopping \cup {"wait", "none"} /\ from \in Stopping \cup {"take"}
  BY DEF Stopping
<1>6. Kept /\ AllTold' /\ MessageDone' /\ RpcDone' /\ MinersDone'
  BY <1>3, <1>4, <1>5, CallerGoes
<1> QED  BY <1>1, <1>2, <1>3, <1>6

\* DBFlush(false) leaves the environment open.
LEMMA FlushKeeps ==
  ASSUME ShutdownAssumption, ShutdownInv, NEW c \in Callers, DBFlush(c, "flush", "stop0", FALSE)
  PROVE  ShutdownInv'
<1>1. /\ UNCHANGED <<fShutdown, fTaken, fExit, vnThreadsRunning, counted, miscounted, using,
                     wallet, waited>>
      /\ Goes(c, "flush", "stop0")
      /\ fDbEnvInit \in BOOLEAN /\ fExit \in BOOLEAN /\ wallet \in BOOLEAN
  BY DEF DBFlush, flags, minerCounts, ShutdownInv, ShutdownTypeOK
<1>2. fDbEnvInit' = fDbEnvInit /\ (~fDbEnvInit => UNCHANGED unflushed)
  BY <1>1 DEF DBFlush
<1>3. /\ Kept /\ AllTold' /\ MessageDone' /\ RpcDone' /\ MinersDone'
      /\ at[c] = "flush" /\ at'[c] = "stop0" /\ \A d \in Callers \ {c} : at'[d] = at[d]
  BY <1>1, <1>2, StoppingGoes DEF Stopping
<1>4. \A d \in Callers : at'[d] \in {"delete", "exit"} <=> at[d] \in {"delete", "exit"}
  BY <1>3
<1>5. Closed' <=> Closed
  BY <1>1, <1>4 DEF Closed, Reached
<1>6. ClosedForGood'
  BY <1>1, <1>2, <1>5 DEF ShutdownInv, ClosedForGood, Excused
<1> QED  BY <1>3, <1>6 DEF ShutdownInv, Kept

\* DBFlush(true): whoever has wallet.dat open now is a miner.
LEMMA CloseKeeps ==
  ASSUME ShutdownAssumption, ShutdownInv, NEW c \in Callers, DBFlush(c, "close", "delete", TRUE)
  PROVE  ShutdownInv'
<1>1. /\ UNCHANGED <<fShutdown, fTaken, fExit, vnThreadsRunning, counted, miscounted, using,
                     wallet, waited>>
      /\ Goes(c, "close", "delete")
      /\ fDbEnvInit \in BOOLEAN /\ fExit \in BOOLEAN /\ wallet \in BOOLEAN
  BY DEF DBFlush, flags, minerCounts, ShutdownInv, ShutdownTypeOK
<1>2. /\ fDbEnvInit' = FALSE
      /\ fDbEnvInit => unflushed' = {f \in unflushed : InUse(f)}
      /\ ~fDbEnvInit => unflushed' = unflushed
  BY <1>1 DEF DBFlush
<1>3. /\ Kept /\ AllTold' /\ MessageDone' /\ RpcDone' /\ MinersDone'
      /\ at[c] = "close" /\ at'[c] = "delete" /\ \A d \in Callers \ {c} : at'[d] = at[d]
  BY <1>1, <1>2, StoppingGoes DEF Stopping
<1>4. Closed'
  BY <1>3 DEF Closed, Reached
<1>5. Excused => Excused'
  BY <1>1 DEF Excused
<1>6. "wallet.dat" \in unflushed' => Excused
  <2>1. CASE ~fDbEnvInit
    BY <1>2, <2>1 DEF ShutdownInv, ClosedForGood
  <2>2. CASE fDbEnvInit
    <3>1. SUFFICES ASSUME NEW t \in using, FileOf(t) = "wallet.dat" PROVE Excused
      BY <1>2, <2>2 DEF InUse
    <3>2. t \in {"open", "message", "rpc"} \cup Miners /\ at[t] = "write" /\ t # "open"
      BY <3>1 DEF ShutdownInv, UsersWrite, FileOf
    <3>3. Reached({"last4", "close", "delete", "exit"}) /\ Reached({"close", "delete", "exit"})
          /\ Reached({"stop4", "last2", "last4", "close", "delete", "exit"})
      BY <1>3 DEF Reached
    <3>4. t # "message" /\ t # "rpc"
      <4>1. fTaken /\ fShutdown
        BY <1>1, <1>2, <1>3, StoppingGoes DEF Stopping
      <4>2. at["message"] # "write"
        BY <3>3, Slots DEF ShutdownInv, MessageDone
      <4>3. at["rpc"] \notin {"call", "write"}
        BY <1>3, <3>3, Slots DEF ShutdownInv, RpcDone
      <4> QED  BY <3>2, <4>2, <4>3
    <3>5. t \in Miners /\ ~(\A m \in Miners : at[m] \notin {"mine", "write"})
      BY <3>2, <3>4
    <3> QED  BY <3>3, <3>5 DEF ShutdownInv, MinersDone
  <2> QED  BY <2>1, <2>2
<1>7. ClosedForGood'
  BY <1>2, <1>4, <1>5, <1>6 DEF ClosedForGood
<1> QED  BY <1>3, <1>7 DEF ShutdownInv, Kept

\* The wallet is deleted, and the process ends, with the databases closed.
LEMMA DeleteKeeps ==
  ASSUME ShutdownAssumption, ShutdownInv, NEW c \in Callers, DeleteWallet(c) \/ Exit(c)
  PROVE  ShutdownInv'
<1>1. /\ UNCHANGED <<fShutdown, fTaken, vnThreadsRunning, counted, miscounted, using, unflushed,
                     fDbEnvInit, waited>>
      /\ fDbEnvInit \in BOOLEAN /\ fExit \in BOOLEAN /\ wallet \in BOOLEAN
  BY DEF DeleteWallet, Exit, minerCounts, ShutdownInv, ShutdownTypeOK
<1>2. PICK from, to : /\ Goes(c, from, to) /\ <<from, to>> \in {<<"delete", "exit">>, <<"exit",
                                                                                        "none">>}
                      /\ (to = "none" => fExit' = TRUE)
                      /\ fExit' \in BOOLEAN /\ wallet' \in BOOLEAN /\ (fExit => fExit')
                      /\ (fExit' => fExit \/ from = "exit")
  <2>1. CASE DeleteWallet(c)
    BY <1>1, <2>1 DEF DeleteWallet
  <2>2. CASE Exit(c)
    BY <1>1, <2>2 DEF Exit
  <2> QED  BY <2>1, <2>2
<1>3. from \in {"delete", "exit"} /\ from \in Stopping /\ to \in {"exit", "none"}
      /\ <<from, to>> \in {<<"flush", "stop0">>, <<"close", "delete">>, <<"delete", "exit">>,
                           <<"exit", "none">>}
  BY <1>2 DEF Stopping
<1>4. /\ Kept /\ AllTold' /\ MessageDone' /\ RpcDone' /\ MinersDone'
      /\ at[c] = from /\ at'[c] = to
  BY <1>1, <1>2, <1>3, StoppingGoes
<1>5. Closed /\ Closed'
  BY <1>2, <1>3, <1>4 DEF Closed, Reached
<1>6. ClosedForGood'
  BY <1>1, <1>5 DEF ShutdownInv, ClosedForGood, Excused
<1> QED  BY <1>4, <1>6 DEF ShutdownInv, Kept

\* Every step preserves the invariant.
LEMMA ShutdownInvKept ==
  ASSUME ShutdownAssumption, ShutdownInv, [ShutdownNext]_shutdownVars
  PROVE  ShutdownInv'
<1>1. ASSUME Ordinary, Kept PROVE ShutdownInv'
  BY <1>1, OrdinaryStep DEF ShutdownInv, Kept
<1>2. CASE SocketStep
  BY <1>1, <1>2, SocketOrdinary
<1>3. CASE OpenStep
  BY <1>1, <1>3, OpenConnectionsOrdinary
<1>4. CASE MessageStep
  BY <1>1, <1>4, MessageOrdinary
<1>5. CASE RpcStep \/ RpcAccept
  BY <1>1, <1>5, RpcOrdinary
<1>6. CASE FlushWalletDB
  BY <1>1, <1>6, FlushOrdinary
<1>7. ASSUME NEW m \in Miners, MinerStep(m) PROVE ShutdownInv'
  BY <1>1, <1>7, MinerOrdinary
<1>8. CASE HandleSIGTERM
  BY <1>1, <1>8, SignalOrdinary
<1>9. CASE Stop
  BY <1>1, <1>9, StopOrdinary
<1>10. ASSUME NEW t \in using, CheckDiskSpace(t) PROVE ShutdownInv'
  BY <1>1, <1>10, DiskSpaceOrdinary
<1>11. ASSUME NEW c \in Callers, ShutdownStep(c) PROVE ShutdownInv'
  BY <1>11, TakeKeeps, FlushKeeps, StopNodeKeeps, CloseKeeps, DeleteKeeps DEF ShutdownStep
<1>12. ASSUME NEW c \in Callers, Tick(c) PROVE ShutdownInv'
  BY <1>1, <1>12, TickOrdinary
<1>13. CASE UNCHANGED shutdownVars
  BY <1>1, <1>13, Unchanged
<1> QED
  BY <1>2, <1>3, <1>4, <1>5, <1>6, <1>7, <1>8, <1>9, <1>10, <1>11, <1>12, <1>13 DEF ShutdownNext

\* No thread has begun, and nobody stops them.
LEMMA ShutdownInvInitially ==
  ASSUME ShutdownAssumption, NEW started, ShutdownInit(started)
  PROVE  ShutdownInv
<1>1. /\ \A t \in Everyone : at[t] \in {"new", "none"}
      /\ at \in [Everyone -> Places]
  BY DEF ShutdownInit, Everyone, Places, Elsewhere
<1>2. /\ "message" \in Everyone /\ "rpc" \in Everyone /\ Callers \subseteq Everyone
      /\ Miners \subseteq Everyone
  BY DEF Everyone, Threads, Callers
<1>3. ShutdownTypeOK
  <2>1. vnThreadsRunning \in [0..4 -> Int] /\ counted \in [Miners -> Int] /\ waited \in Nat
    BY DEF ShutdownInit
  <2>2. /\ fShutdown \in BOOLEAN /\ fTaken \in BOOLEAN /\ fExit \in BOOLEAN
        /\ fDbEnvInit \in BOOLEAN /\ wallet \in BOOLEAN /\ miscounted \in BOOLEAN
    BY DEF ShutdownInit
  <2>3. \A t \in Everyone : at[t] \notin Foreign(t)
    BY <1>1 DEF Foreign
  <2> QED  BY <1>1, <2>1, <2>2, <2>3 DEF ShutdownTypeOK
<1>4. CountsRight
  <2>1. {m \in Miners : at[m] \in {"loop", "mine", "write", "end", "leave"}} = {}
    BY <1>1, <1>2
  <2>2. /\ vnThreadsRunning[2] = 0 /\ vnThreadsRunning[3] = 0 /\ vnThreadsRunning[4] = 0
    BY DEF ShutdownInit
  <2>3. Cardinality({m \in Miners : at[m] \in {"loop", "mine", "write", "end", "leave"}}) = 0
    BY <2>1, FS_EmptySet
  <2>4. ~Miscounted
    BY <2>2, <2>3 DEF Miscounted
  <2> QED  BY <1>1, <1>2, <2>2, <2>4, Slots DEF CountsRight
<1>5. \A places \in {Stopping, {"last4", "close", "delete", "exit"}, {"close", "delete", "exit"},
         {"stop4", "last2", "last4", "close", "delete", "exit"}, {"delete",
                                                                  "exit"}} : ~Reached(places)
  BY <1>1, <1>2 DEF ShutdownInit, Reached, Stopping
<1>6. AllTold /\ MessageDone /\ RpcDone /\ MinersDone /\ ClosedForGood /\ UsersWrite
  BY <1>5 DEF ShutdownInit, AllTold, MessageDone, RpcDone, MinersDone, ClosedForGood, Closed,
              UsersWrite
<1> QED  BY <1>3, <1>4, <1>6 DEF ShutdownInv

\* The invariant says what ShutdownIsClean does.
LEMMA ShutdownInvImplies ==
  ASSUME ShutdownAssumption, ShutdownInv
  PROVE  ShutdownIsClean
<1>1. Closed => /\ Reached({"last4", "close", "delete", "exit"}) /\ Reached({"close", "delete",
                                                                             "exit"})
                /\ Reached({"stop4", "last2", "last4", "close", "delete", "exit"})
  BY DEF Closed, Reached
<1>2. LeftInPeace
  <2>1. SUFFICES ASSUME ~fDbEnvInit \/ ~wallet, NEW t \in {"message", "rpc"} \cup Miners, Working(t)
                 PROVE  t \in Miners /\ (waited > Patience \/ miscounted)
    BY DEF LeftInPeace
  <2>2. Closed
    BY <2>1 DEF ShutdownInv, ClosedForGood
  <2>3. at["message"] \notin {"receive", "write"}
    BY <1>1, <2>2, Slots DEF ShutdownInv, MessageDone
  <2>4. at["rpc"] \notin {"call", "write"}
    BY <1>1, <2>2, Slots DEF ShutdownInv, RpcDone
  <2>5. Excused \/ \A m \in Miners : at[m] \notin {"mine", "write"}
    BY <1>1, <2>2 DEF ShutdownInv, MinersDone
  <2>6. /\ at["message"] \notin {"call", "mine"} /\ at["rpc"] \notin {"receive", "mine"}
        /\ \A m \in Miners : at[m] \notin {"receive", "call"}
    <3>1. "message" \in Everyone /\ "rpc" \in Everyone /\ Miners \subseteq Everyone
      BY Slots DEF Alone
    <3>2. /\ Foreign("message") = {"call", "mine"} /\ Foreign("rpc") = {"receive", "mine"}
          /\ \A m \in Miners : Foreign(m) = {"receive", "call"}
      BY Slots DEF Foreign
    <3> QED  BY <3>1, <3>2 DEF ShutdownInv, ShutdownTypeOK
  <2> QED  BY <2>1, <2>3, <2>4, <2>5, <2>6 DEF Working, Excused
<1>3. WalletIsWhole
  BY DEF WalletIsWhole, ShutdownInv, ClosedForGood, Closed, Reached, Excused
<1> QED  BY <1>2, <1>3 DEF ShutdownIsClean

-----------------------------------------------------------------------------
(* The key pool.                                                           *)

\* The pool is a finite set of indexes, so that its size is a number.
LEMMA PoolSize ==
  ASSUME KeyPoolAssumption, TypeOK
  PROVE  IsFiniteSet(setKeyPool) /\ Cardinality(setKeyPool) \in Nat
<1>1. IsFiniteSet(1..MaxKeys)
  BY FS_Interval DEF KeyPoolAssumption
<1>2. IsFiniteSet(setKeyPool)
  BY <1>1, FS_Subset DEF TypeOK, Indexes
<1> QED  BY <1>2, FS_CardinalityType

\* Taking one of more than one index leaves another.
LEMMA PoolNotEmptied ==
  ASSUME KeyPoolAssumption, TypeOK, Cardinality(setKeyPool) > 1, NEW i
  PROVE  setKeyPool \ {i} # {}
<1>1. SUFFICES ASSUME setKeyPool \subseteq {i} PROVE FALSE
  OBVIOUS
<1>2. IsFiniteSet({i}) /\ Cardinality({i}) = 1
  BY FS_Singleton
<1>3. Cardinality(setKeyPool) <= Cardinality({i})
  BY <1>1, <1>2, FS_Subset
<1> QED  BY <1>2, <1>3, PoolSize

\* EndOfPool is a new index: it has no record, is not in the pool, and is not held.
LEMMA EndOfPoolIsNew ==
  ASSUME KeyPoolAssumption, KeyPoolInv, nKeys < MaxKeys
  PROVE  /\ EndOfPool \in Indexes
         /\ EndOfPool <= nKeys + 1
         /\ pool[EndOfPool] = NoKey
         /\ EndOfPool \notin setKeyPool
         /\ \A h \in Holders : nIndex[h] # EndOfPool
         /\ \A i \in Indexes : pool[i] # NoKey => i <= EndOfPool
<1>1. CASE setKeyPool = {}
  <2>1. EndOfPool = 1 /\ 1 \in Indexes
    BY <1>1 DEF EndOfPool, Indexes, KeyPoolInv, TypeOK, KeyPoolAssumption
  <2>2. \A i \in Indexes : pool[i] = NoKey
    BY <1>1 DEF KeyPoolInv, TopOfPool
  <2> QED  BY <1>1, <2>1, <2>2 DEF KeyPoolInv, TypeOK, IndexHasOneOwner, NoKey
<1>2. CASE setKeyPool # {}
  <2>1. PICK n \in setKeyPool : \A i \in Indexes : pool[i] # NoKey => i <= n
    BY <1>2 DEF KeyPoolInv, TopOfPool
  <2>2. \A i \in setKeyPool : i \in Indexes /\ pool[i] # NoKey /\ i <= n
    BY <2>1 DEF KeyPoolInv, TypeOK, IndexHasOneOwner
  <2>3. Max(setKeyPool) = n
    BY <2>1, <2>2 DEF Max, Indexes
  <2>4. EndOfPool = n + 1 /\ n \in Indexes /\ n <= nKeys
    BY <1>2, <2>2, <2>3 DEF EndOfPool, KeyPoolInv, KeysSound
  <2>5. EndOfPool \in Indexes /\ EndOfPool <= nKeys + 1
    BY <2>4 DEF Indexes, KeyPoolInv, TypeOK, KeyPoolAssumption
  <2>6. pool[EndOfPool] = NoKey
    BY <2>1, <2>4, <2>5 DEF Indexes
  <2> QED  BY <2>1, <2>4, <2>5, <2>6 DEF KeyPoolInv, TypeOK, IndexHasOneOwner, Indexes
<1> QED  BY <1>1, <1>2

\* The invariant holds of an empty pool.
LEMMA KeyPoolInit ==
  ASSUME KeyPoolAssumption, Init
  PROVE  KeyPoolInv
BY DEF KeyPoolAssumption, Init, KeyPoolInv, TypeOK, KeyNeverReused, IndexHasOneOwner,
       HoldersSound, KeysSound, TopOfPool, Indexes, NoIndex, NoKey

\* TopUpKeyPool adds an index that nobody holds, with a key of its own.
LEMMA TopUpStep ==
  ASSUME KeyPoolAssumption, KeyPoolInv, NEW h \in Holders, TopUp(h)
  PROVE  KeyPoolInv'
<1> DEFINE e == EndOfPool
<1>1. /\ e \in Indexes /\ e <= nKeys + 1 /\ pool[e] = NoKey /\ e \notin setKeyPool
      /\ \A g \in Holders : nIndex[g] # e
      /\ \A i \in Indexes : pool[i] # NoKey => i <= e
  BY EndOfPoolIsNew DEF TopUp
<1>2. /\ pool' = [pool EXCEPT ![e] = nKeys + 1]
      /\ setKeyPool' = setKeyPool \cup {e}
      /\ nKeys' = nKeys + 1 /\ nKeys < MaxKeys
      /\ UNCHANGED <<nIndex, vchPubKey, reserving, used, crashes>>
  BY DEF TopUp
<1> HIDE DEF e
<1> USE DEF Indexes, NoKey, NoIndex, KeyPoolAssumption
<1>3. TypeOK'
  BY <1>1, <1>2 DEF KeyPoolInv, TypeOK
<1>4. KeyNeverReused'
  BY <1>1, <1>2 DEF KeyPoolInv, TypeOK, KeyNeverReused, KeysSound
<1>5. IndexHasOneOwner'
  BY <1>1, <1>2, SMTT(30) DEF KeyPoolInv, TypeOK, IndexHasOneOwner
<1>6. HoldersSound'
  BY <1>2 DEF KeyPoolInv, HoldersSound
<1>7. KeysSound'
  BY <1>1, <1>2 DEF KeyPoolInv, TypeOK, KeysSound
<1>8. TopOfPool'
  BY <1>1, <1>2 DEF KeyPoolInv, TypeOK, TopOfPool
<1> QED  BY <1>3, <1>4, <1>5, <1>6, <1>7, <1>8 DEF KeyPoolInv

\* An index that is taken passes from the pool to its holder.
LEMMA TakeOldestStep ==
  ASSUME KeyPoolAssumption, TargetSize > 0, KeyPoolInv, NEW h \in Holders, TakeOldest(h)
  PROVE  KeyPoolInv'
<1>1. PICK i \in setKeyPool :
        /\ \A j \in setKeyPool : i <= j
        /\ setKeyPool' = setKeyPool \ {i}
        /\ nIndex' = [nIndex EXCEPT ![h] = i]
        /\ vchPubKey' = [vchPubKey EXCEPT ![h] = pool[i]]
  BY DEF TakeOldest
<1>2. /\ reserving = h /\ reserving' = NoHolder
      /\ UNCHANGED <<pool, nKeys, used, crashes>>
  BY DEF TakeOldest
<1>3. i \in Indexes /\ pool[i] # NoKey
  BY DEF KeyPoolInv, TypeOK, IndexHasOneOwner
<1>4. \E n \in setKeyPool \ {i} : \A j \in Indexes : pool[j] # NoKey => j <= n
  <2>1. PICK n \in setKeyPool : \A j \in Indexes : pool[j] # NoKey => j <= n
    BY DEF KeyPoolInv, TopOfPool
  <2>2. \A j \in setKeyPool : j \in Indexes /\ j <= n
    BY <2>1 DEF KeyPoolInv, TypeOK, IndexHasOneOwner
  <2>3. Cardinality(setKeyPool) > 1
    BY PoolSize DEF TakeOldest, KeyPoolAssumption, KeyPoolInv
  <2>4. PICK j \in setKeyPool : j # i
    BY <2>3, PoolNotEmptied DEF KeyPoolInv
  <2>5. n # i
    BY <1>1, <2>2, <2>4 DEF Indexes
  <2> QED  BY <2>1, <2>5
<1> USE DEF Indexes, NoKey, NoIndex, KeyPoolAssumption
<1>5. nIndex[h] = NoIndex
  BY <1>2 DEF KeyPoolInv, HoldersSound
<1>6. TypeOK'
  BY <1>1, <1>2, <1>3 DEF KeyPoolInv, TypeOK
<1>7. KeyNeverReused'
  BY <1>1, <1>2, <1>3 DEF KeyPoolInv, TypeOK, KeyNeverReused
<1>8. IndexHasOneOwner'
  <2>1. \A j \in Indexes : pool'[j] # NoKey <=> j \in setKeyPool' \/ \E g \in Holders : nIndex'[g] = j
    BY <1>1, <1>2, <1>3, <1>5 DEF KeyPoolInv, TypeOK, IndexHasOneOwner
  <2>2. ASSUME NEW g \in Holders, nIndex'[g] # NoIndex
        PROVE  /\ nIndex'[g] \notin setKeyPool'
               /\ vchPubKey'[g] = pool'[nIndex'[g]]
               /\ \A f \in Holders \ {g} : nIndex'[f] # nIndex'[g]
    BY <1>1, <1>2, <1>3, <1>5, <2>2 DEF KeyPoolInv, TypeOK, IndexHasOneOwner
  <2> QED  BY <2>1, <2>2 DEF IndexHasOneOwner
<1>9. HoldersSound'
  BY <1>1, <1>2, <1>3 DEF KeyPoolInv, TypeOK, HoldersSound
<1>10. KeysSound'
  BY <1>2 DEF KeyPoolInv, KeysSound
<1>11. TopOfPool'
  BY <1>1, <1>2, <1>4 DEF TopOfPool
<1> QED  BY <1>6, <1>7, <1>8, <1>9, <1>10, <1>11 DEF KeyPoolInv

\* KeepKey drops the index, and its key is never handed out again.
LEMMA KeepKeyStep ==
  ASSUME KeyPoolAssumption, KeyPoolInv, NEW h \in Holders, KeepKey(h)
  PROVE  KeyPoolInv'
<1> USE DEF Indexes, NoKey, NoIndex, KeyPoolAssumption
<1>1. /\ nIndex[h] \in Indexes /\ nIndex[h] \notin setKeyPool
      /\ vchPubKey[h] = pool[nIndex[h]] /\ vchPubKey[h] \in Indexes
  BY DEF KeepKey, KeyPoolInv, TypeOK, IndexHasOneOwner, HoldersSound
<1>2. /\ pool' = [pool EXCEPT ![nIndex[h]] = NoKey]
      /\ used' = used \cup {vchPubKey[h]}
      /\ nIndex' = [nIndex EXCEPT ![h] = NoIndex]
      /\ vchPubKey' = [vchPubKey EXCEPT ![h] = NoKey]
      /\ reserving = NoHolder
      /\ UNCHANGED <<setKeyPool, nKeys, reserving, crashes>>
  BY DEF KeepKey
<1>3. TypeOK'
  <2>1. pool' \in [Indexes -> 0..MaxKeys]
    <3>1. pool \in [Indexes -> 0..MaxKeys] /\ NoKey \in 0..MaxKeys
      BY DEF KeyPoolInv, TypeOK
    <3>2. pool' = [pool EXCEPT ![nIndex[h]] = NoKey]
      BY <1>2
    <3> HIDE DEF Indexes, NoKey
    <3> QED  BY ONLY <3>1, <3>2
  <2>3. used' \subseteq Indexes
    BY <1>1, <1>2 DEF KeyPoolInv, TypeOK
  <2>2. nIndex' \in [Holders -> 0..MaxKeys] /\ vchPubKey' \in [Holders -> 0..MaxKeys]
    BY <1>2 DEF KeyPoolInv, TypeOK
  <2> QED  BY <1>2, <2>1, <2>2, <2>3 DEF KeyPoolInv, TypeOK
<1>4. KeyNeverReused'
  <2>1. ASSUME NEW i \in Indexes PROVE pool'[i] \notin used'
    BY <1>1, <1>2 DEF KeyPoolInv, TypeOK, KeyNeverReused, KeysSound
  <2>2. ASSUME NEW g \in Holders PROVE vchPubKey'[g] \notin used'
    <3>1. CASE nIndex'[g] = NoIndex
      BY <3>1, <1>1, <1>2 DEF KeyPoolInv, TypeOK, HoldersSound
    <3>2. CASE nIndex'[g] # NoIndex
      <4>1. g # h /\ nIndex[g] # nIndex[h] /\ vchPubKey'[g] = pool[nIndex[g]]
        BY <3>2, <1>1, <1>2 DEF KeyPoolInv, TypeOK, IndexHasOneOwner
      <4>2. nIndex[g] \in Indexes /\ pool'[nIndex[g]] = pool[nIndex[g]]
        BY <3>2, <4>1, <1>2 DEF KeyPoolInv, TypeOK
      <4> QED  BY <2>1, <4>1, <4>2
    <3> QED  BY <3>1, <3>2
  <2> QED  BY <2>1, <2>2 DEF KeyNeverReused
<1>5. IndexHasOneOwner'
  BY <1>1, <1>2 DEF KeyPoolInv, TypeOK, IndexHasOneOwner
<1>6. HoldersSound'
  BY <1>2 DEF KeyPoolInv, TypeOK, HoldersSound
<1>7. KeysSound'
  BY <1>1, <1>2 DEF KeyPoolInv, TypeOK, KeysSound
<1>8. TopOfPool'
  BY <1>1, <1>2 DEF KeyPoolInv, TypeOK, TopOfPool
<1> QED  BY <1>3, <1>4, <1>5, <1>6, <1>7, <1>8 DEF KeyPoolInv

\* ReturnKey puts the index of its holder back.
LEMMA ReturnKeyStep ==
  ASSUME KeyPoolAssumption, KeyPoolInv, NEW h \in Holders, ReturnKey(h)
  PROVE  KeyPoolInv'
<1> USE DEF Indexes, NoKey, NoIndex, KeyPoolAssumption
<1>1. nIndex[h] \in Indexes /\ pool[nIndex[h]] # NoKey
  BY DEF ReturnKey, KeyPoolInv, TypeOK, IndexHasOneOwner
<1>2. /\ setKeyPool' = setKeyPool \cup {nIndex[h]}
      /\ nIndex' = [nIndex EXCEPT ![h] = NoIndex]
      /\ vchPubKey' = [vchPubKey EXCEPT ![h] = NoKey]
      /\ reserving = NoHolder
      /\ UNCHANGED <<pool, nKeys, reserving, used, crashes>>
  BY DEF ReturnKey
<1>3. TypeOK'
  <2>1. setKeyPool' \subseteq Indexes
    BY <1>1, <1>2 DEF KeyPoolInv, TypeOK
  <2>2. nIndex' \in [Holders -> 0..MaxKeys] /\ vchPubKey' \in [Holders -> 0..MaxKeys]
    BY <1>2 DEF KeyPoolInv, TypeOK
  <2> QED  BY <1>2, <2>1, <2>2 DEF KeyPoolInv, TypeOK
<1>4. KeyNeverReused'
  BY <1>1, <1>2 DEF KeyPoolInv, TypeOK, KeyNeverReused
<1>5. IndexHasOneOwner'
  BY <1>1, <1>2 DEF KeyPoolInv, TypeOK, IndexHasOneOwner
<1>6. HoldersSound'
  BY <1>2 DEF KeyPoolInv, TypeOK, HoldersSound
<1>7. KeysSound'
  BY <1>2 DEF KeyPoolInv, KeysSound
<1>8. TopOfPool'
  BY <1>1, <1>2 DEF KeyPoolInv, TopOfPool
<1> QED  BY <1>3, <1>4, <1>5, <1>6, <1>7, <1>8 DEF KeyPoolInv

\* A restart loads the records, and nobody holds one.
LEMMA RestartStep ==
  ASSUME KeyPoolAssumption, KeyPoolInv, CrashAndRestart
  PROVE  KeyPoolInv'
<1> USE DEF Indexes, NoKey, NoIndex, KeyPoolAssumption
<1>1. /\ setKeyPool' = {i \in Indexes : pool[i] # NoKey}
      /\ nIndex' = [h \in Holders |-> NoIndex]
      /\ vchPubKey' = [h \in Holders |-> NoKey]
      /\ reserving' = NoHolder
      /\ crashes < MaxCrashes /\ crashes' = crashes + 1
      /\ UNCHANGED <<pool, nKeys, used>>
  BY DEF CrashAndRestart
<1>2. TypeOK'
  BY <1>1 DEF KeyPoolInv, TypeOK
<1>3. KeyNeverReused'
  BY <1>1 DEF KeyPoolInv, TypeOK, KeyNeverReused
<1>4. IndexHasOneOwner'
  BY <1>1 DEF IndexHasOneOwner
<1>5. HoldersSound'
  BY <1>1 DEF HoldersSound
<1>6. KeysSound'
  BY <1>1 DEF KeyPoolInv, KeysSound
<1>7. TopOfPool'
  BY <1>1 DEF KeyPoolInv, TypeOK, TopOfPool, IndexHasOneOwner
<1> QED  BY <1>2, <1>3, <1>4, <1>5, <1>6, <1>7 DEF KeyPoolInv

\* KeyPoolInv is an invariant of every key pool that is kept to at least one key.
THEOREM KeyPoolCorrect ==
  ASSUME TargetSize > 0
  PROVE  Spec => []KeyPoolInv
<1>1. Init => KeyPoolInv
  BY KeyPoolInit, KeyPoolAssumption
<1>2. ASSUME KeyPoolInv, [Next]_vars PROVE KeyPoolInv'
  <2>1. CASE UNCHANGED vars
    BY <1>2, <2>1 DEF vars, KeyPoolInv, TypeOK, KeyNeverReused, IndexHasOneOwner,
                      HoldersSound, KeysSound, TopOfPool
  <2>2. ASSUME NEW h \in Holders, GetReservedKey(h) PROVE KeyPoolInv'
    BY <1>2, <2>2 DEF GetReservedKey, KeyPoolInv, TypeOK, KeyNeverReused,
                      IndexHasOneOwner, HoldersSound, KeysSound, TopOfPool
  <2>3. ASSUME NEW h \in Holders, TopUp(h) PROVE KeyPoolInv'
    BY <1>2, <2>3, TopUpStep, KeyPoolAssumption
  <2>4. ASSUME NEW h \in Holders, TakeOldest(h) PROVE KeyPoolInv'
    BY <1>2, <2>4, TakeOldestStep, KeyPoolAssumption
  <2>5. ASSUME NEW h \in Holders, KeepKey(h) PROVE KeyPoolInv'
    BY <1>2, <2>5, KeepKeyStep, KeyPoolAssumption
  <2>6. ASSUME NEW h \in Holders, ReturnKey(h) PROVE KeyPoolInv'
    BY <1>2, <2>6, ReturnKeyStep, KeyPoolAssumption
  <2>7. CASE CrashAndRestart
    BY <1>2, <2>7, RestartStep, KeyPoolAssumption
  <2> QED  BY <1>2, <2>1, <2>2, <2>3, <2>4, <2>5, <2>6, <2>7 DEF Next
<1> QED  BY <1>1, <1>2, PTL DEF Spec

\* No key that was kept is ever handed out again (KeyNeverReused).
THEOREM NoKeyIsReused ==
  ASSUME TargetSize > 0
  PROVE  Spec => []KeyNeverReused
<1>1. KeyPoolInv => KeyNeverReused
  BY DEF KeyPoolInv
<1> QED  BY <1>1, KeyPoolCorrect, PTL

\* No two holders ever have one key, and ReadPool never fails (IndexHasOneOwner).
THEOREM NoKeyIsShared ==
  ASSUME TargetSize > 0
  PROVE  Spec => []IndexHasOneOwner
<1>1. KeyPoolInv => IndexHasOneOwner
  BY DEF KeyPoolInv
<1> QED  BY <1>1, KeyPoolCorrect, PTL

-----------------------------------------------------------------------------
(* How processes come up.                                                  *)

\* Where a process has nothing, where it holds the lock, and where it has opened the data.
Before == {"gone", "options", "fork", "test", "lock", "end"}
Loading == {"blkindex.dat", "wallet.dat", "rescan", "arguments", "disk", "run", "crash"}
Holding == {"bind", "addr.dat"} \cup Loading

StartupTypeOK ==
  /\ stage \in [Processes -> Before \cup Holding \cup {"shutdown"}]
  /\ options \in [Processes -> SUBSET Options]
  /\ loaded \in [Processes -> SUBSET Files]
  /\ running \in [Processes -> SUBSET {"flush", "irc", "socket", "open", "message", "miner", "rpc"}]
  /\ dataOpen \subseteq Processes /\ indexed \subseteq Processes /\ strErrors \subseteq Processes

\* What has been loaded by a stage, if nothing failed.
LoadedBy(s) ==
  CASE s = "blkindex.dat" -> {"addr.dat"}
    [] s = "wallet.dat" -> {"addr.dat", "blkindex.dat"}
    [] s \in {"rescan", "arguments", "disk", "run"} -> Files
    [] OTHER -> {}

\* The threads there may be.
ThreadsAt(p) ==
  /\ stage[p] \in Before \cup {"bind", "addr.dat", "blkindex.dat", "wallet.dat"} => running[p] = {}
  /\ stage[p] \in {"rescan", "arguments", "disk", "crash"} => running[p] \subseteq {"flush"}

\* What a process was asked for when it has come this far.
AskedAt(p) ==
  /\ stage[p] \in {"fork", "test", "lock"} \cup Holding =>
       options[p] \cap {"datadir", "help", "command"} = {}
  /\ stage[p] \in {"disk", "run"} => options[p] \cap {"print", "invalid"} = {}

\* What it holds and has loaded.
HoldsAt(p) ==
  /\ stage[p] \in Before => p \notin dataOpen
  /\ stage[p] \in Holding => lockFile = p
  /\ stage[p] \in Holding \ {"bind"} => On(p, "nolisten") \/ port = p
  /\ stage[p] \in Loading => p \in dataOpen
  /\ p \in dataOpen => lockFile = p \/ On(p, "loadblockindextest")
LoadsAt(p) ==
  /\ p \in strErrors \/ LoadedBy(stage[p]) \subseteq loaded[p]
  /\ stage[p] \in {"arguments", "disk", "run"} => p \notin strErrors
  /\ "blkindex.dat" \in loaded[p] => p \in indexed

\* A process with more threads than the one that flushes has everything they need.
WholeAt(p) ==
  running[p] \ {"flush"} # {} =>
    /\ loaded[p] = Files /\ p \in indexed
    /\ lockFile = p
    /\ On(p, "nolisten") \/ port = p
    /\ options[p] \cap {"datadir", "help", "command", "print", "invalid"} = {}
LocksAt(p) == running[p] # {} => lockFile = p /\ p \in dataOpen

ComesUp(p) ==
  /\ ThreadsAt(p) /\ AskedAt(p) /\ HoldsAt(p) /\ LoadsAt(p)
  /\ WholeAt(p) /\ LocksAt(p)

\* How far a process has come says what it holds, has loaded and was asked for.
StartupInv == StartupTypeOK /\ \A p \in Processes : ComesUp(p)

\* Nothing that a process rests on is taken from it by a step of another.
LEMMA OthersUndisturbed ==
  ASSUME NEW q \in Processes, ComesUp(q),
         stage'[q] = stage[q], options'[q] = options[q], loaded'[q] = loaded[q],
         running'[q] = running[q],
         q \in dataOpen' <=> q \in dataOpen, q \in indexed' <=> q \in indexed,
         q \in strErrors' <=> q \in strErrors,
         lockFile = q => lockFile' = q, port = q => port' = q
  PROVE  ComesUp(q)'
BY DEF ComesUp, ThreadsAt, AskedAt, HoldsAt, LoadsAt, WholeAt, LocksAt, On

\* The options are read and the process is started as far as the lock without any data.
LEMMA EarlyStep ==
  ASSUME StartupAssumption, StartupInv, NEW p \in Processes,
         \/ \E o \in OptionSets : Start(p, o)
         \/ ReadOptions(p) \/ Daemonize(p) \/ CreatePidFile(p) \/ LoadBlockIndexTest(p)
         \/ TryLock(p) \/ BindListenPort(p)
  PROVE  StartupInv'
<1> USE DEF StartupInv, StartupTypeOK, shared, memory, Moves
<1>1. StartupTypeOK'
  BY DEF StartupAssumption, Start, ReadOptions, Daemonize, CreatePidFile, LoadBlockIndexTest,
         TryLock,
         BindListenPort, Before, Holding, Loading
<1>2. ASSUME NEW q \in Processes \ {p} PROVE ComesUp(q)'
  BY OthersUndisturbed DEF StartupAssumption, Start, ReadOptions, Daemonize, CreatePidFile,
                           LoadBlockIndexTest, TryLock,
         BindListenPort
<1>3. ComesUp(p)'
  <2> USE DEF ComesUp, ThreadsAt, AskedAt, HoldsAt, LoadsAt, WholeAt, LocksAt, On, Before, Holding,
              Loading, LoadedBy
  <2>1. CASE \E o \in OptionSets : Start(p, o)
    BY <2>1 DEF StartupAssumption, Start
  <2>2. CASE ReadOptions(p) BY <2>2 DEF ReadOptions
  <2>3. CASE Daemonize(p) BY <2>3 DEF Daemonize
  <2>4. CASE CreatePidFile(p) BY <2>4 DEF CreatePidFile
  <2>5. CASE LoadBlockIndexTest(p) BY <2>5 DEF LoadBlockIndexTest
  <2>6. CASE TryLock(p) BY <2>6 DEF TryLock
  <2>7. CASE BindListenPort(p) BY <2>7 DEF BindListenPort
  <2> QED BY <2>1, <2>2, <2>3, <2>4, <2>5, <2>6, <2>7
<1> QED BY <1>1, <1>2, <1>3

\* A file that is loaded is noted, and one that cannot be.
LEMMA LoadingStep ==
  ASSUME StartupAssumption, StartupInv, NEW p \in Processes,
         LoadAddresses(p) \/ LoadBlockIndex(p) \/ LoadWallet(p)
  PROVE  StartupInv'
<1> USE DEF StartupInv, StartupTypeOK, shared, memory, Moves, Load
<1>1. StartupTypeOK'
  BY DEF LoadAddresses, LoadBlockIndex, LoadWallet, Before, Holding, Loading, Files
<1>2. ASSUME NEW q \in Processes \ {p} PROVE ComesUp(q)'
  BY OthersUndisturbed DEF LoadAddresses, LoadBlockIndex, LoadWallet
<1>3. ComesUp(p)'
  <2> USE DEF ComesUp, ThreadsAt, AskedAt, HoldsAt, LoadsAt, WholeAt, LocksAt, On, Before, Holding,
              Loading,
          LoadedBy, Files
  <2>1. CASE LoadAddresses(p) BY <2>1 DEF LoadAddresses
  <2>2. CASE LoadBlockIndex(p) BY <2>2 DEF LoadBlockIndex
  <2>3. CASE LoadWallet(p) BY <2>3 DEF LoadWallet
  <2> QED BY <2>1, <2>2, <2>3
<1> QED BY <1>1, <1>2, <1>3

\* The threads are started when all is there, and end before what they need is given up.
LEMMA RunningStep ==
  ASSUME StartupAssumption, StartupInv, NEW p \in Processes,
         \/ Rescan(p) \/ Arguments(p) \/ StartNode(p) \/ RequestShutdown(p) \/ ShutDown(p) \/ End(p)
  PROVE  StartupInv'
<1> USE DEF StartupInv, StartupTypeOK, shared, memory, Moves
<1>1. StartupTypeOK'
  BY DEF Rescan, Arguments, StartNode, RequestShutdown, ShutDown, End, Before, Holding, Loading
<1>2. ASSUME NEW q \in Processes \ {p} PROVE ComesUp(q)'
  BY OthersUndisturbed DEF Rescan, Arguments, StartNode, RequestShutdown, ShutDown, End
<1>3. ComesUp(p)'
  <2> USE DEF ComesUp, ThreadsAt, AskedAt, HoldsAt, LoadsAt, WholeAt, LocksAt, On, Before, Holding,
              Loading,
          LoadedBy, Files
  <2>1. CASE Rescan(p) BY <2>1 DEF Rescan
  <2>2. CASE Arguments(p) BY <2>2 DEF Arguments
  <2>3. CASE StartNode(p) BY <2>3 DEF StartNode
  <2>4. CASE RequestShutdown(p) BY <2>4 DEF RequestShutdown
  <2>5. CASE ShutDown(p) BY <2>5 DEF ShutDown
  <2>6. CASE End(p) BY <2>6 DEF End
  <2> QED BY <2>1, <2>2, <2>3, <2>4, <2>5, <2>6
<1> QED BY <1>1, <1>2, <1>3

\* Every step preserves the invariant.
LEMMA StartupStaysSound ==
  ASSUME StartupAssumption, StartupInv, [StartupNext]_startupVars
  PROVE  StartupInv'
<1>1. CASE UNCHANGED startupVars
  BY <1>1 DEF startupVars, StartupInv, StartupTypeOK, ComesUp, ThreadsAt, AskedAt, HoldsAt,
              LoadsAt, WholeAt,
              LocksAt, On
<1>2. CASE StartupNext
  BY <1>2, EarlyStep, LoadingStep, RunningStep DEF StartupNext
<1> QED  BY <1>1, <1>2

\* The invariant says what StartsInOrder does.
LEMMA StartupInvImplies == ASSUME StartupInv PROVE StartsInOrder
BY DEF StartupInv, ComesUp, HoldsAt, WholeAt, LocksAt, StartsInOrder, OneProcess, StartsWhole,
       LockOutlives, StartupTypeOK

\* Nothing has been started yet.
LEMMA StartupInitially == ASSUME StartupInit, StartupAssumption PROVE StartupInv
BY DEF StartupInit, StartupAssumption, StartupInv, StartupTypeOK, ComesUp, ThreadsAt, AskedAt,
       HoldsAt, LoadsAt, WholeAt,
  LocksAt, On, Before, Holding, Loading, LoadedBy

-----------------------------------------------------------------------------
(* The RPC server and its callers.                                         *)

AnyCall == [address : {"loopback", "allowed", "elsewhere"}, password : {"right", "wrong", "none"},
            asks : DOMAIN Codes]
AnyReply == [status : Nat, code : Int, id : RpcClients \cup {NoCaller}]
RpcTypeOK ==
  /\ rpcCall \in [RpcClients -> AnyCall]
  /\ connection \in [RpcClients -> {"none", "open", "sent", "lost", "gone", "closed"}]
  /\ acceptQueue \in Seq(RpcClients)
  /\ told \in [RpcClients -> AnyReply]
  /\ executed \in [RpcClients -> Nat]
  /\ serving \in RpcClients \cup {NoCaller}
  /\ request \in {"none", "whole", "cut", "garbled", "done"}
  /\ nTimeouts \in Nat /\ lateReaders \in Nat

Waiting == {"open", "sent", "lost", "gone"}
Waits(c) == c # serving /\ connection[c] \in Waiting /\ told[c] = Nothing /\ executed[c] = 0

\* Nobody is in the queue twice, or in it and served; who waits has been told nothing.
QueueSound ==
  /\ \A i, j \in DOMAIN acceptQueue : acceptQueue[i] = acceptQueue[j] => i = j
  /\ \A i \in DOMAIN acceptQueue : Waits(acceptQueue[i])
  /\ \A c \in RpcClients : connection[c] = "none" => c # serving /\ told[c] = Nothing
       /\ executed[c] = 0
  /\ \A c \in RpcClients : told[c] # Nothing => connection[c] = "closed"

\* What has become of the request that is served.
ServingSound ==
  /\ serving = NoCaller => request = "none"
  /\ serving # NoCaller =>
       /\ connection[serving] \in Waiting
       /\ told[serving] = Nothing
       /\ ClientAllowed(serving)
       /\ executed[serving] = IF request = "done" THEN 1 ELSE 0
       /\ request \in {"whole", "done"} => connection[serving] \in {"sent", "gone"}
       /\ request = "cut" => connection[serving] \in {"lost", "gone"}
       /\ request = "done" =>
            /\ HTTPAuthorized(serving) /\ result = Codes[rpcCall[serving].asks]
            /\ rpcCall[serving].asks \notin {"text", "nomethod", "params", "unknown"}
  /\ lateReaders > 0 \/ request = "garbled" => nTimeouts > 0

TellsRightly(c) ==
  /\ executed[c] <= 1
  /\ Unheard(c) =>
       (executed[c] = 1 => connection[c] = "gone" \/ (serving = c /\ request = "done"))
  /\ ~Unheard(c) =>
       /\ executed[c] = 1 <=> OfMethod(told[c])
       /\ told[c].id \in {c, NoCaller} /\ (executed[c] = 1 => told[c].id = c)
       /\ ExitCode(told[c]) = 0 <=> told[c].status = 200
ExecutesRightly(c) ==
  ClientAllowed(c) /\ HTTPAuthorized(c) =>
    (~Unheard(c) /\ nTimeouts = 0 /\ Codes[rpcCall[c].asks] > -32000 =>
      executed[c] = 1 \/ told[c].code = -2)

RpcInv ==
  /\ RpcTypeOK /\ QueueSound /\ ServingSound
  /\ \A c \in RpcClients : TellsRightly(c) /\ ExecutesRightly(c)

\* What there is to be asked, and the codes of it.
LEMMA CodesOf ==
  /\ DOMAIN Codes = {"text", "nomethod", "params", "unknown", "listed", "unlisted", "failing",
                     "refused", "stop"}
  /\ Codes["text"] = -32700 /\ Codes["nomethod"] = -32600 /\ Codes["params"] = -32600
  /\ Codes["unknown"] = -32601 /\ Codes["listed"] = 0 /\ Codes["unlisted"] = 0
  /\ Codes["failing"] = -1 /\ Codes["refused"] = -5 /\ Codes["stop"] = 0
BY DEF Codes

\* An error is told as what it is, and never looks like a result to the shell.
LEMMA ErrorReplies ==
  ASSUME NEW code \in {-32700, -32600, -32601, -1, -2, -5}, NEW id, NEW reply,
    reply = ErrorReply(code, id)
  PROVE  /\ reply = [status |-> reply.status, code |-> code, id |-> id]
         /\ reply.status \in {400, 404, 500} /\ reply.code = code /\ reply.id = id
         /\ ExitCode(reply) # 0
<1>1. PICK status \in {400, 404, 500} : reply = [status |-> status, code |-> code, id |-> id]
  BY DEF ErrorReply, Reply
<1>2. reply.status = status /\ reply.code = code /\ reply.id = id
  BY <1>1
<1>3. \A n \in {32700, 32600, 32601, 1, 2, 5} : n % 256 # 0
  OBVIOUS
<1>4. -code \in {32700, 32600, 32601, 1, 2, 5}
  OBVIOUS
<1>5. ExitCode(reply) = (-code) % 256
  BY <1>2 DEF ExitCode
<1> QED BY ONLY <1>1, <1>2, <1>3, <1>4, <1>5

\* What a method returned has the exit code 0.
LEMMA Results ==
  ASSUME NEW id, NEW reply, reply = Reply(200, 0, id)
  PROVE  ExitCode(reply) = 0 /\ reply.status = 200 /\ reply.code = 0 /\ reply.id = id
<1>1. (-0) % 256 = 0
  OBVIOUS
<1> QED BY <1>1 DEF Reply, ExitCode

\* A reply that says that the method was not executed.
LEMMA RefusalsAreRight ==
  ASSUME RpcAssumption, RpcTypeOK, ServingSound, serving # NoCaller,
         request \in {"whole", "cut", "garbled"}, NEW reply \in Refusal
  PROVE  /\ reply \in AnyReply /\ reply # Nothing
         /\ ~OfMethod(reply) /\ reply.id \in {serving, NoCaller}
         /\ ExitCode(reply) # 0 /\ reply.status # 200
         /\ connection[serving] \notin {"lost", "gone"} /\ HTTPAuthorized(serving)
              /\ nTimeouts = 0 /\ Codes[rpcCall[serving].asks] > -32000 => reply.code = -2
<1> DEFINE asks == rpcCall[serving].asks
<1>1. asks \in DOMAIN Codes
  BY DEF RpcTypeOK, AnyCall
<1>2. CASE reply = Reply(401, 0, NoCaller) /\ ~Authorized
  BY <1>2 DEF Reply, AnyReply, Nothing, OfMethod, ExitCode, Authorized, ServingSound, RpcTypeOK
<1>3. CASE reply = ErrorReply(-32700, NoCaller) /\ (request = "garbled" \/ asks = "text")
  <2>1. /\ reply = [status |-> reply.status, code |-> -32700, id |-> NoCaller]
        /\ reply.status \in {400, 404, 500} /\ reply.code = -32700 /\ reply.id = NoCaller
        /\ ExitCode(reply) # 0
    BY <1>3, ErrorReplies
  <2>2. nTimeouts # 0 \/ ~(Codes[asks] > -32000)
    BY <1>3, CodesOf DEF ServingSound, RpcTypeOK
  <2> QED BY <2>1, <2>2 DEF AnyReply, Nothing, OfMethod
<1>4. CASE reply = ErrorReply(Codes[asks], serving) /\ asks \in {"nomethod", "params", "unknown"}
  <2>1. Codes[asks] \in {-32600, -32601}
    BY <1>4, CodesOf
  <2>2. /\ reply = [status |-> reply.status, code |-> Codes[asks], id |-> serving]
        /\ reply.status \in {400, 404, 500} /\ reply.code = Codes[asks] /\ reply.id = serving
        /\ ExitCode(reply) # 0
    BY <1>4, <2>1, ErrorReplies
  <2> QED BY <2>1, <2>2 DEF AnyReply, Nothing, OfMethod, RpcTypeOK
<1>5. CASE reply = ErrorReply(-2, serving)
  <2>1. /\ reply = [status |-> reply.status, code |-> -2, id |-> serving]
        /\ reply.status \in {400, 404, 500} /\ reply.code = -2 /\ reply.id = serving
        /\ ExitCode(reply) # 0
    BY <1>5, ErrorReplies
  <2> QED BY <2>1 DEF AnyReply, Nothing, OfMethod, RpcTypeOK
<1> QED BY <1>2, <1>3, <1>4, <1>5 DEF Refusal

\* A reply that says what came of it when it was.
LEMMA ReplyIsRight ==
  ASSUME RpcAssumption, RpcTypeOK, ServingSound, serving # NoCaller, request = "done",
         NEW reply, reply = ReplyFor(result, serving)
  PROVE  /\ reply \in AnyReply /\ reply # Nothing
         /\ OfMethod(reply) /\ reply.id = serving
         /\ ExitCode(reply) = 0 <=> reply.status = 200
<1>1. result \in {0, -1, -5}
  <2>1. rpcCall[serving].asks \in DOMAIN Codes
    BY DEF RpcTypeOK, AnyCall
  <2> QED BY <2>1, CodesOf DEF ServingSound
<1>2. CASE result = 0
  <2>1. reply = Reply(200, 0, serving)
    BY <1>2 DEF ReplyFor
  <2> QED BY <2>1, Results DEF Reply, AnyReply, Nothing, OfMethod, RpcTypeOK
<1>3. CASE result \in {-1, -5}
  <2>1. /\ reply = [status |-> reply.status, code |-> result, id |-> serving]
        /\ reply.status \in {400, 404, 500} /\ reply.code = result /\ reply.id = serving
        /\ ExitCode(reply) # 0
    BY <1>3, ErrorReplies DEF ReplyFor
  <2>2. reply # Nothing /\ OfMethod(reply)
    BY <1>3, <2>1 DEF Nothing, OfMethod
  <2>3. reply \in AnyReply
    BY <1>3, <2>1 DEF AnyReply, RpcTypeOK
  <2> QED BY <2>1, <2>2, <2>3
<1> QED BY <1>1, <1>2, <1>3

\* What a caller was told stays right while nothing becomes of its call.
LEMMA CallerUndisturbed ==
  ASSUME RpcTypeOK, NEW c \in RpcClients, TellsRightly(c), ExecutesRightly(c),
         rpcCall' = rpcCall, executed'[c] = executed[c], told'[c] = told[c],
         nTimeouts' \in Nat, nTimeouts' >= nTimeouts,
         connection[c] = "gone" => connection'[c] = "gone",
         serving = c /\ request = "done" =>
           (serving' = c /\ request' = "done") \/ connection'[c] = "gone"
  PROVE  TellsRightly(c)' /\ ExecutesRightly(c)'
BY DEF TellsRightly, ExecutesRightly, Unheard, ClientAllowed, HTTPAuthorized, RpcTypeOK

\* What is appended is the last of a queue.
LEMMA QueueAppended ==
  ASSUME NEW S, NEW q \in Seq(S), NEW e \in S
  PROVE  /\ Append(q, e) \in Seq(S)
         /\ \A i \in DOMAIN Append(q, e) :
              \/ i \notin DOMAIN q /\ i = Len(q) + 1 /\ Append(q, e)[i] = e
              \/ i \in DOMAIN q /\ i # Len(q) + 1 /\ Append(q, e)[i] = q[i]
<1>1. Append(q, e) \in Seq(S) /\ Len(Append(q, e)) = Len(q) + 1 /\ Len(q) \in Nat
  BY AppendProperties
<1>2. DOMAIN q = 1..Len(q) /\ DOMAIN Append(q, e) = 1..(Len(q) + 1)
  BY <1>1, LenProperties
<1>3. \A i \in 1..Len(q) : Append(q, e)[i] = q[i]
  BY AppendProperties
<1>4. Append(q, e)[Len(q) + 1] = e
  BY AppendProperties
<1> QED BY <1>1, <1>2, <1>3, <1>4

\* What is left when the first has gone.
LEMMA QueueTail ==
  ASSUME NEW S, NEW q \in Seq(S), q # <<>>
  PROVE  /\ Head(q) \in S /\ Head(q) = q[1] /\ 1 \in DOMAIN q /\ Tail(q) \in Seq(S)
         /\ \A i \in DOMAIN Tail(q) : i \in Nat /\ i + 1 # 1 /\ i + 1 \in DOMAIN q
              /\ Tail(q)[i] = q[i + 1]
<1>1. Head(q) \in S /\ Tail(q) \in Seq(S) /\ Len(Tail(q)) = Len(q) - 1 /\ Len(q) \in Nat /\ Len(q) # 0
  BY HeadTailProperties, EmptySeq, LenProperties
<1>2. DOMAIN q = 1..Len(q) /\ DOMAIN Tail(q) = 1..(Len(q) - 1)
  BY <1>1, LenProperties
<1>3. \A i \in 1..(Len(q) - 1) : Tail(q)[i] = q[i + 1]
  BY <1>1, <1>2, HeadTailProperties
<1>4. Head(q) = q[1]
  BY HeadTailProperties
<1> QED BY <1>1, <1>2, <1>3, <1>4

\* A client connects, sends or is lost.
LEMMA ClientStep ==
  ASSUME RpcAssumption, RpcInv, NEW c \in RpcClients, Connect(c) \/ SendRequest(c) \/ Lose(c)
  PROVE  RpcInv'
<1> USE DEF RpcInv, counts, server, rest
<1>1. CASE Connect(c)
  <2> USE <1>1 DEF Connect
  <2>1. /\ acceptQueue' \in Seq(RpcClients)
        /\ \A i \in DOMAIN acceptQueue' :
             \/ i \notin DOMAIN acceptQueue /\ i = Len(acceptQueue) + 1 /\ acceptQueue'[i] = c
             \/ i \in DOMAIN acceptQueue /\ i # Len(acceptQueue) + 1
                  /\ acceptQueue'[i] = acceptQueue[i]
    <3>1. acceptQueue \in Seq(RpcClients) /\ acceptQueue' = Append(acceptQueue, c)
      BY DEF RpcTypeOK
    <3> QED BY ONLY <3>1, QueueAppended, c \in RpcClients
  <2>2. RpcTypeOK' BY <2>1 DEF RpcTypeOK
  <2>3. \A i \in DOMAIN acceptQueue : acceptQueue[i] \in RpcClients /\ acceptQueue[i] # c
    <3>1. \A i \in DOMAIN acceptQueue : acceptQueue[i] \in RpcClients
            /\ connection[acceptQueue[i]] # "none"
      <4>1. \A i \in DOMAIN acceptQueue : acceptQueue[i] \in RpcClients
        BY ElementOfSeq, LenProperties DEF RpcTypeOK
      <4>2. \A i \in DOMAIN acceptQueue : connection[acceptQueue[i]] \in Waiting
        BY ONLY QueueSound DEF QueueSound, Waits
      <4> QED BY ONLY <4>1, <4>2 DEF Waiting
    <3>2. connection[c] = "none"
      OBVIOUS
    <3> QED BY ONLY <3>1, <3>2
  <2>4. QueueSound'
    <3>1. \A i, j \in DOMAIN acceptQueue' : acceptQueue'[i] = acceptQueue'[j] => i = j
      BY ONLY <2>1, <2>3, QueueSound DEF QueueSound
    <3>2. connection'[c] = "open" /\ c # serving /\ told[c] = Nothing /\ executed[c] = 0
      BY DEF QueueSound, RpcTypeOK
    <3>3. /\ \A d \in RpcClients \ {c} : connection'[d] = connection[d]
          /\ told' = told /\ executed' = executed /\ serving' = serving
      BY DEF RpcTypeOK
    <3> QED BY ONLY <2>1, <2>3, <3>1, <3>2, <3>3, QueueSound DEF QueueSound, Waits, Waiting
  <2>5. ServingSound' BY DEF ServingSound, RpcTypeOK, QueueSound, ClientAllowed, HTTPAuthorized,
                             Waiting
  <2>6. ASSUME NEW d \in RpcClients PROVE TellsRightly(d)' /\ ExecutesRightly(d)'
    BY CallerUndisturbed DEF RpcTypeOK
  <2> QED BY <2>2, <2>4, <2>5, <2>6
<1>2. CASE SendRequest(c)
  <2> USE <1>2 DEF SendRequest
  <2>1. RpcTypeOK' BY DEF RpcTypeOK
  <2>2. QueueSound' BY DEF QueueSound, Waits, RpcTypeOK, Waiting
  <2>3. ServingSound' BY DEF ServingSound, RpcTypeOK, QueueSound, ClientAllowed, HTTPAuthorized,
                             Waiting
  <2>4. ASSUME NEW d \in RpcClients PROVE TellsRightly(d)' /\ ExecutesRightly(d)'
    BY CallerUndisturbed DEF RpcTypeOK
  <2> QED BY <2>1, <2>2, <2>3, <2>4
<1>3. CASE Lose(c)
  <2> USE <1>3 DEF Lose
  <2>1. RpcTypeOK' BY DEF RpcTypeOK
  <2>2. QueueSound' BY DEF QueueSound, Waits, RpcTypeOK, Waiting
  <2>3. ServingSound' BY DEF ServingSound, RpcTypeOK, QueueSound, ClientAllowed, HTTPAuthorized,
                             Waiting
  <2>4. ASSUME NEW d \in RpcClients PROVE TellsRightly(d)' /\ ExecutesRightly(d)'
    BY CallerUndisturbed DEF RpcTypeOK
  <2> QED BY <2>1, <2>2, <2>3, <2>4
<1> QED BY <1>1, <1>2, <1>3

\* The oldest connection is taken, or refused for where it comes from.
LEMMA AcceptStep == ASSUME RpcAssumption, RpcInv, Accept PROVE RpcInv'
<1> USE DEF RpcInv, counts, rest
<1>0. PICK c : c = Head(acceptQueue)
  OBVIOUS
<1>1. /\ c \in RpcClients /\ c = acceptQueue[1] /\ 1 \in DOMAIN acceptQueue
      /\ acceptQueue' \in Seq(RpcClients)
      /\ \A i \in DOMAIN acceptQueue' :
           /\ i \in Nat /\ i + 1 # 1 /\ i + 1 \in DOMAIN acceptQueue
           /\ acceptQueue'[i] = acceptQueue[i + 1]
  <2>1. acceptQueue \in Seq(RpcClients) /\ acceptQueue # <<>> /\ acceptQueue' = Tail(acceptQueue)
    BY DEF Accept, RpcTypeOK
  <2> QED BY ONLY <1>0, <2>1, QueueTail
<1>2. connection[c] \in Waiting /\ told[c] = Nothing /\ executed[c] = 0
  BY <1>1 DEF QueueSound, Waits
<1>3. \A i \in DOMAIN acceptQueue' : acceptQueue'[i] \in RpcClients /\ acceptQueue'[i] # c
  <2> SUFFICES ASSUME NEW i \in DOMAIN acceptQueue' PROVE acceptQueue'[i] \in RpcClients
        /\ acceptQueue'[i] # c
    OBVIOUS
  <2>1. i + 1 \in DOMAIN acceptQueue /\ i + 1 # 1 /\ acceptQueue'[i] = acceptQueue[i + 1]
    BY <1>1
  <2>2. acceptQueue[i + 1] \in RpcClients
    BY <2>1 DEF RpcTypeOK
  <2> QED BY <1>1, <2>1, <2>2 DEF QueueSound
<1>4. CASE ClientAllowed(c) /\ serving' = c /\ UNCHANGED <<connection, told>>
  <2> USE <1>4 DEF Accept
  <2>1. RpcTypeOK' BY <1>1 DEF RpcTypeOK
  <2>2. QueueSound' BY <1>1, <1>2, <1>3 DEF QueueSound, Waits, RpcTypeOK, Waiting
  <2>3. ServingSound' BY <1>1, <1>2 DEF ServingSound, RpcTypeOK, RpcAssumption, ClientAllowed
  <2>4. ASSUME NEW d \in RpcClients PROVE TellsRightly(d)' /\ ExecutesRightly(d)'
    BY CallerUndisturbed DEF RpcTypeOK, ServingSound
  <2> QED BY <2>1, <2>2, <2>3, <2>4
<1>5. CASE /\ ~ClientAllowed(c) /\ UNCHANGED serving
           /\ told' = IF connection[c] \in {"lost", "gone"} THEN told
                      ELSE [told EXCEPT ![c] = Reply(403, 0, NoCaller)]
           /\ connection' = [connection EXCEPT ![c] = IF @ \in {"lost", "gone"} THEN @ ELSE "closed"]
  <2> USE <1>5 DEF Accept
  <2>1. Reply(403, 0, NoCaller) \in AnyReply /\ Reply(403, 0, NoCaller) # Nothing
    BY DEF Reply, AnyReply, Nothing
  <2>2. /\ RpcTypeOK'
        /\ \A d \in RpcClients \ {c} : told'[d] = told[d] /\ connection'[d] = connection[d]
        /\ IF connection[c] \in {"lost", "gone"}
           THEN told'[c] = told[c] /\ connection'[c] = connection[c]
           ELSE told'[c] = Reply(403, 0, NoCaller) /\ connection'[c] = "closed"
        /\ serving = NoCaller /\ serving' = NoCaller /\ request' = request
        /\ UNCHANGED <<executed, rpcCall, nTimeouts, lateReaders>>
    BY <1>1, <2>1 DEF RpcTypeOK
  <2>3. QueueSound'
    <3>1. \A i, j \in DOMAIN acceptQueue' : acceptQueue'[i] = acceptQueue'[j] => i = j
      BY ONLY <1>1, QueueSound DEF QueueSound
    <3>2. ASSUME NEW i \in DOMAIN acceptQueue' PROVE Waits(acceptQueue[i])'
      <4> DEFINE d == acceptQueue'[i]
      <4>1. d \in RpcClients /\ d # c /\ d = acceptQueue[i + 1] /\ i + 1 \in DOMAIN acceptQueue
        BY <1>1, <1>3
      <4> HIDE DEF d
      <4>2. Waits(d)
        BY ONLY <4>1, QueueSound DEF QueueSound
      <4>3. Waits(acceptQueue[i])' <=> (d # serving' /\ connection'[d] \in Waiting
                                        /\ told'[d] = Nothing /\ executed'[d] = 0)
        BY DEF Waits, d
      <4> QED BY ONLY <2>2, <4>1, <4>2, <4>3 DEF Waits
    <3>3. ASSUME NEW d \in RpcClients, connection'[d] = "none"
          PROVE  d # serving' /\ told'[d] = Nothing /\ executed'[d] = 0
      BY ONLY <1>2, <2>2, <3>3, QueueSound DEF QueueSound, Waiting
    <3>4. ASSUME NEW d \in RpcClients, told'[d] # Nothing PROVE connection'[d] = "closed"
      BY ONLY <1>2, <2>2, <3>4, QueueSound DEF QueueSound, Waiting
    <3> QED BY ONLY <3>1, <3>2, <3>3, <3>4 DEF QueueSound
  <2>4. ServingSound' BY ONLY <2>2, ServingSound DEF ServingSound
  <2>5. ASSUME NEW d \in RpcClients, d # c \/ connection[c] \in {"lost", "gone"}
        PROVE  TellsRightly(d)' /\ ExecutesRightly(d)'
    <3>1. serving # d /\ nTimeouts' \in Nat /\ nTimeouts' >= nTimeouts
      BY <2>2 DEF RpcTypeOK, RpcAssumption
    <3>2. told'[d] = told[d] /\ connection'[d] = connection[d]
      BY ONLY <2>2, <2>5
    <3>3. RpcTypeOK /\ TellsRightly(d) /\ ExecutesRightly(d)
      OBVIOUS
    <3> QED BY ONLY <2>2, <3>1, <3>2, <3>3, CallerUndisturbed
  <2>6. ASSUME connection[c] \notin {"lost", "gone"} PROVE TellsRightly(c)' /\ ExecutesRightly(c)'
    <3>1. told'[c] = Reply(403, 0, NoCaller) /\ executed'[c] = 0 /\ ~ClientAllowed(c)'
      BY ONLY <1>2, <1>5, <2>2, <2>6 DEF ClientAllowed
    <3> QED BY ONLY <2>1, <3>1 DEF TellsRightly, ExecutesRightly, Unheard, Reply, Nothing,
                                   OfMethod, ExitCode
  <2> QED BY <2>2, <2>3, <2>4, <2>5, <2>6
<1> QED BY <1>0, <1>4, <1>5 DEF Accept

\* The queue stays sound while the server is busy with a caller that has left it.
LEMMA QueueUndisturbed ==
  ASSUME RpcAssumption, RpcTypeOK, QueueSound, acceptQueue' = acceptQueue,
         serving' = serving \/ serving' = NoCaller,
         \A d \in RpcClients \ {serving} :
           told'[d] = told[d] /\ connection'[d] = connection[d] /\ executed'[d] = executed[d],
         serving \in RpcClients =>
           connection'[serving] # "none" /\ (told'[serving] # Nothing
                                             => connection'[serving] = "closed")
  PROVE  QueueSound'
<1>1. \A i \in DOMAIN acceptQueue : acceptQueue[i] \in RpcClients /\ Waits(acceptQueue[i])
  BY ElementOfSeq, LenProperties DEF RpcTypeOK, QueueSound
<1>2. \A i \in DOMAIN acceptQueue : Waits(acceptQueue[i])'
  BY <1>1 DEF Waits, RpcAssumption
<1>3. ASSUME NEW d \in RpcClients, connection'[d] = "none"
      PROVE  d # serving' /\ told'[d] = Nothing /\ executed'[d] = 0
  BY <1>3 DEF QueueSound, RpcAssumption
<1>4. ASSUME NEW d \in RpcClients, told'[d] # Nothing PROVE connection'[d] = "closed"
  BY <1>4 DEF QueueSound
<1> QED BY <1>2, <1>3, <1>4 DEF QueueSound

\* A request is read, whole or not, in time or not.
LEMMA ReadStep == ASSUME RpcAssumption, RpcInv, ReadHTTP \/ Timeout \/ LateRead PROVE RpcInv'
<1> USE DEF RpcInv, clientState, counts, rest
<1>1. CASE ReadHTTP
  <2> USE <1>1 DEF ReadHTTP
  <2>1. RpcTypeOK' BY DEF RpcTypeOK
  <2>2. QueueSound' BY DEF QueueSound, Waits
  <2>3. ServingSound' BY DEF ServingSound, RpcTypeOK, ClientAllowed, HTTPAuthorized, Waiting
  <2>4. ASSUME NEW d \in RpcClients PROVE TellsRightly(d)' /\ ExecutesRightly(d)'
    BY CallerUndisturbed DEF RpcTypeOK
  <2> QED BY <2>1, <2>2, <2>3, <2>4
<1>2. CASE Timeout
  <2> USE <1>2 DEF Timeout, Ready
  <2>1. RpcTypeOK' BY DEF RpcTypeOK
  <2>2. QueueSound'
    BY QueueUndisturbed DEF RpcTypeOK, ServingSound
  <2>3. ServingSound' BY DEF ServingSound, RpcTypeOK
  <2>4. ASSUME NEW d \in RpcClients PROVE TellsRightly(d)' /\ ExecutesRightly(d)'
    <3>1. RpcTypeOK /\ TellsRightly(d) /\ ExecutesRightly(d)
      OBVIOUS
    <3>2. /\ rpcCall' = rpcCall /\ executed' = executed /\ told' = told
          /\ nTimeouts' \in Nat /\ nTimeouts' >= nTimeouts
          /\ connection[d] = "gone" => connection'[d] = "gone"
          /\ request = "none"
      BY DEF RpcTypeOK
    <3> QED BY ONLY <3>1, <3>2, CallerUndisturbed
  <2> QED BY <2>1, <2>2, <2>3, <2>4
<1>3. CASE LateRead
  <2> USE <1>3 DEF LateRead
  <2>1. RpcTypeOK' BY DEF RpcTypeOK
  <2>2. QueueSound' BY DEF QueueSound, Waits
  <2>3. ServingSound' BY DEF ServingSound, RpcTypeOK, ClientAllowed, HTTPAuthorized, Waiting
  <2>4. ASSUME NEW d \in RpcClients PROVE TellsRightly(d)' /\ ExecutesRightly(d)'
    BY CallerUndisturbed DEF RpcTypeOK
  <2> QED BY <2>1, <2>2, <2>3, <2>4
<1> QED BY <1>1, <1>2, <1>3

\* A reply that is heard is right, and one that is not leaves the caller without.
LEMMA SentStep ==
  ASSUME RpcAssumption, RpcInv, serving \in RpcClients, NEW reply \in AnyReply, reply # Nothing,
         Sent(serving, reply), Ready, UNCHANGED <<executed, counts, rest>>,
         reply.id \in {serving, NoCaller},
         executed[serving] = 1 <=> OfMethod(reply), executed[serving] = 1 => reply.id = serving,
         ExitCode(reply) = 0 <=> reply.status = 200,
         /\ connection[serving] \notin {"lost", "gone"} /\ HTTPAuthorized(serving)
         /\ nTimeouts = 0 /\ Codes[rpcCall[serving].asks] > -32000
         => executed[serving] = 1 \/ reply.code = -2
  PROVE  RpcInv'
<1>1. PICK c : c = serving
  OBVIOUS
<1>2. /\ IF connection[c] \notin {"lost", "gone"}
         THEN told' = [told EXCEPT ![c] = reply] /\ connection' = [connection EXCEPT ![c] = "closed"]
         ELSE told' = told /\ connection' = connection
      /\ acceptQueue' = acceptQueue
      /\ serving' = NoCaller /\ request' = "none" /\ result' = 0
      /\ UNCHANGED <<executed, rpcCall, nTimeouts, lateReaders>>
  BY <1>1 DEF Sent, Ready, counts, rest
<1>3. RpcTypeOK /\ QueueSound /\ ServingSound /\ c \in RpcClients
  BY <1>1 DEF RpcInv
<1>4. /\ connection[c] \in Waiting /\ told[c] = Nothing
      /\ executed[c] = IF request = "done" THEN 1 ELSE 0
      /\ request = "done" => connection[c] \in {"sent", "gone"}
      /\ lateReaders > 0 => nTimeouts > 0
  BY <1>1, <1>3, RpcAssumption DEF ServingSound
<1>5. RpcTypeOK' BY ONLY <1>2, <1>3, reply \in AnyReply DEF RpcTypeOK
<1>6. QueueSound'
  <2>1. \A d \in RpcClients \ {serving} :
          told'[d] = told[d] /\ connection'[d] = connection[d] /\ executed'[d] = executed[d]
    BY ONLY <1>1, <1>2, <1>3 DEF RpcTypeOK
  <2>2. connection'[serving] # "none" /\ (told'[serving] # Nothing => connection'[serving] = "closed")
    BY ONLY <1>1, <1>2, <1>3, <1>4 DEF RpcTypeOK, Waiting
  <2> QED BY ONLY <1>2, <1>3, <2>1, <2>2, RpcAssumption, QueueUndisturbed
<1>7. ServingSound' BY ONLY <1>2, <1>4 DEF ServingSound
<1>8. ASSUME NEW d \in RpcClients, d # c PROVE TellsRightly(d)' /\ ExecutesRightly(d)'
  <2>1. TellsRightly(d) /\ ExecutesRightly(d) /\ serving # d
    BY <1>1, <1>8 DEF RpcInv
  <2>2. told'[d] = told[d] /\ connection'[d] = connection[d] /\ nTimeouts \in Nat
    BY ONLY <1>2, <1>3, <1>8 DEF RpcTypeOK
  <2> QED BY ONLY <1>2, <1>3, <2>1, <2>2, CallerUndisturbed
<1>9. TellsRightly(c)' /\ ExecutesRightly(c)'
  <2>1. CASE connection[c] \notin {"lost", "gone"}
    <3>1. told'[c] = reply /\ executed'[c] \in {0, 1} /\ told'[c] # Nothing
      BY ONLY <1>2, <1>3, <1>4, <2>1, reply # Nothing DEF RpcTypeOK
    <3>2. TellsRightly(c)' BY <1>1, <1>2, <3>1 DEF TellsRightly, Unheard
    <3>3. ExecutesRightly(c)'
      BY <1>1, <1>2, <2>1, <3>1 DEF ExecutesRightly, Unheard, ClientAllowed, HTTPAuthorized
    <3> QED BY ONLY <3>2, <3>3
  <2>2. CASE connection[c] \in {"lost", "gone"}
    <3>1. told'[c] = Nothing /\ executed'[c] \in {0, 1} /\ (executed'[c] = 1
                                                            => connection'[c] = "gone")
      BY ONLY <1>2, <1>3, <1>4, <2>2 DEF RpcTypeOK
    <3> QED BY ONLY <3>1 DEF TellsRightly, ExecutesRightly, Unheard
  <2> QED BY ONLY <2>1, <2>2
<1> QED BY ONLY <1>5, <1>6, <1>7, <1>8, <1>9 DEF RpcInv

\* The server replies.
LEMMA ReplyStep == ASSUME RpcAssumption, RpcInv, Refuse \/ SendReply PROVE RpcInv'
<1>1. serving \in RpcClients /\ serving # NoCaller
  BY DEF RpcInv, Refuse, SendReply, ServingSound, RpcTypeOK
<1>2. executed[serving] = IF request = "done" THEN 1 ELSE 0
  BY <1>1 DEF RpcInv, ServingSound
<1>3. RpcTypeOK /\ ServingSound
  BY DEF RpcInv
<1>4. CASE Refuse
  <2>1. PICK reply \in Refusal : Sent(serving, reply)
    BY <1>4 DEF Refuse
  <2>2. request \in {"whole", "cut", "garbled"} /\ Ready /\ UNCHANGED <<executed, counts, rest>>
    BY <1>4 DEF Refuse
  <2>3. /\ reply \in AnyReply /\ reply # Nothing
        /\ ~OfMethod(reply) /\ reply.id \in {serving, NoCaller}
        /\ ExitCode(reply) # 0 /\ reply.status # 200
        /\ connection[serving] \notin {"lost", "gone"} /\ HTTPAuthorized(serving)
             /\ nTimeouts = 0 /\ Codes[rpcCall[serving].asks] > -32000 => reply.code = -2
    BY ONLY <1>1, <1>3, <2>1, <2>2, RpcAssumption, RefusalsAreRight
  <2>4. executed[serving] = 0
    BY ONLY <1>2, <2>2
  <2> QED BY ONLY <1>1, <2>1, <2>2, <2>3, <2>4, RpcAssumption, RpcInv, SentStep
<1>5. CASE SendReply
  <2>1. PICK reply : reply = ReplyFor(result, serving) /\ Sent(serving, reply)
    BY <1>5 DEF SendReply
  <2>2. request = "done" /\ Ready /\ UNCHANGED <<executed, counts, rest>>
    BY <1>5 DEF SendReply
  <2>3. /\ reply \in AnyReply /\ reply # Nothing
        /\ OfMethod(reply) /\ reply.id = serving
        /\ ExitCode(reply) = 0 <=> reply.status = 200
    BY ONLY <1>1, <1>3, <2>1, <2>2, RpcAssumption, ReplyIsRight
  <2>4. executed[serving] = 1
    BY ONLY <1>2, <2>2
  <2> QED BY ONLY <1>1, <2>1, <2>2, <2>3, <2>4, RpcAssumption, RpcInv, SentStep
<1> QED BY <1>4, <1>5

\* A method is executed for who may, once.
LEMMA ExecuteStep == ASSUME RpcAssumption, RpcInv, Execute PROVE RpcInv'
<1>1. PICK c : c = serving
  OBVIOUS
<1>2. /\ request = "whole" /\ HTTPAuthorized(c)
      /\ rpcCall[c].asks \in AllowInSafeMode \cup {"unlisted"}
      /\ request' = "done" /\ result' = Codes[rpcCall[c].asks]
      /\ executed' = [executed EXCEPT ![c] = @ + 1]
      /\ UNCHANGED <<connection, acceptQueue, told, serving, rpcCall, nTimeouts, lateReaders>>
  BY <1>1 DEF Execute, Authorized, MayExecute, clientState, counts
<1>3. c # NoCaller /\ c \in RpcClients /\ RpcTypeOK /\ QueueSound
  BY <1>1, <1>2 DEF RpcInv, ServingSound, RpcTypeOK
<1>4. /\ connection[c] \in {"sent", "gone"} /\ told[c] = Nothing /\ ClientAllowed(c)
           /\ executed[c] = 0
      /\ lateReaders > 0 => nTimeouts > 0
  BY <1>1, <1>2, <1>3 DEF RpcInv, ServingSound
<1>5. RpcTypeOK' BY ONLY <1>2, <1>3 DEF RpcTypeOK
<1>6. /\ executed'[c] = 1
      /\ \A d \in RpcClients \ {c} : executed'[d] = executed[d]
  BY ONLY <1>2, <1>3, <1>4 DEF RpcTypeOK
<1>7. QueueSound'
  <2>1. /\ connection'[serving] # "none" /\ told'[serving] = Nothing
        /\ told' = told /\ connection' = connection
    BY ONLY <1>1, <1>2, <1>4
  <2> QED BY ONLY <1>1, <1>2, <1>3, <1>6, <2>1, RpcAssumption, QueueUndisturbed
<1>8. ServingSound'
  <2>1. serving' = c /\ c # NoCaller
    BY ONLY <1>1, <1>2, <1>3
  <2>2. ClientAllowed(c)' /\ HTTPAuthorized(c)'
    BY ONLY <1>2, <1>4 DEF ClientAllowed, HTTPAuthorized
  <2>3. rpcCall[c].asks \notin {"text", "nomethod", "params", "unknown"}
    BY ONLY <1>2 DEF AllowInSafeMode
  <2>4. ClientAllowed(serving)' /\ HTTPAuthorized(serving)'
    BY ONLY <2>1, <2>2 DEF ClientAllowed, HTTPAuthorized
  <2> QED BY ONLY <1>2, <1>4, <1>6, <2>1, <2>3, <2>4 DEF ServingSound, Waiting
<1>9. ASSUME NEW d \in RpcClients PROVE TellsRightly(d)' /\ ExecutesRightly(d)'
  <2>1. TellsRightly(d) /\ ExecutesRightly(d)
    BY DEF RpcInv
  <2>2. CASE d # c
    <3>1. executed'[d] = executed[d] /\ nTimeouts \in Nat
      BY ONLY <1>3, <1>6, <1>9, <2>2 DEF RpcTypeOK
    <3> QED BY ONLY <1>1, <1>2, <1>3, <1>9, <2>1, <2>2, <3>1, CallerUndisturbed
  <2>3. CASE d = c
    BY ONLY <1>1, <1>2, <1>4, <1>6, <2>3 DEF TellsRightly, ExecutesRightly, Unheard
  <2> QED BY ONLY <2>2, <2>3
<1> QED BY ONLY <1>5, <1>7, <1>8, <1>9 DEF RpcInv

\* What the invariant rests on, which the other steps leave alone.
LEMMA RpcUndisturbed ==
  ASSUME RpcInv, UNCHANGED <<clientState, server, counts, lateReaders>>
  PROVE  RpcInv'
BY DEF clientState, server, counts, RpcInv, RpcTypeOK, QueueSound, Waits, ServingSound,
       TellsRightly,
   ExecutesRightly, Unheard, ClientAllowed, HTTPAuthorized

\* Every step preserves the invariant.
LEMMA RpcStaysSound == ASSUME RpcAssumption, RpcInv, [RpcNext]_rpcVars PROVE RpcInv'
<1>1. CASE UNCHANGED rpcVars \/ Warn \/ RpcEnds
  BY <1>1, RpcUndisturbed DEF rpcVars, rest, Warn, RpcEnds
<1>2. CASE \E c \in RpcClients : Connect(c) \/ SendRequest(c) \/ Lose(c)
  BY <1>2, ClientStep
<1>3. CASE Accept BY <1>3, AcceptStep
<1>4. CASE ReadHTTP \/ Timeout \/ LateRead BY <1>4, ReadStep
<1>5. CASE Refuse \/ SendReply BY <1>5, ReplyStep
<1>6. CASE Execute BY <1>6, ExecuteStep
<1> QED BY <1>1, <1>2, <1>3, <1>4, <1>5, <1>6 DEF RpcNext, ServerStep

\* The invariant says what RpcIsSound does.
LEMMA RpcInvImplies == ASSUME RpcInv PROVE RpcIsSound
BY DEF RpcInv, TellsRightly, ExecutesRightly, RpcIsSound, TellsWhatHappened, AllowedIsExecuted

\* Nobody has connected yet.
LEMMA RpcInitially ==
  ASSUME NEW calls, calls \subseteq AnyCall, RpcInit(calls), RpcAssumption
  PROVE  RpcInv
<1>1. Nothing \in AnyReply
  BY DEF Nothing, AnyReply
<1>2. acceptQueue \in Seq(RpcClients) /\ DOMAIN acceptQueue = {}
  BY DEF RpcInit
<1> QED BY <1>1, <1>2 DEF RpcInit, RpcInv, RpcTypeOK, QueueSound, ServingSound, TellsRightly,
                          ExecutesRightly,
     Unheard

-----------------------------------------------------------------------------
(* The whole of MCProcess, one part of which runs.                         *)

\* A step of the whole is a step of each part, or leaves it alone.
LEMMA OnePartRuns ==
  ASSUME [ProcessNext]_<<part, vars, shutdownVars, startupVars, rpcVars>>
  PROVE  /\ [Next]_vars /\ [StartupNext]_startupVars
         /\ [RpcNext]_rpcVars /\ [ShutdownNext]_shutdownVars
BY DEF ProcessNext, Idle

\* What the processes tell the outside (StartsInOrder, of AppInit2 and StartNode): the threads
\* of a process are started on what it has loaded and holds; and RpcIsSound, of
\* ThreadRPCServer2: who may is executed once and told what came of it, nobody else is.
THEOREM ProcessCorrect == ProcessSpec => []ProcessIsSound
<1>1. ProcessInit => StartupInv /\ RpcInv
  <2>1. SUFFICES ASSUME ProcessInit PROVE StartupInv /\ RpcInv
    OBVIOUS
  <2>2. PICK calls : calls = IF part = "rpc" THEN RpcCalls ELSE {Call("loopback", "right", "listed")}
    OBVIOUS
  <2>3. Call("loopback", "right", "listed") \in AnyCall
    BY CodesOf DEF Call, AnyCall
  <2>4. calls \subseteq AnyCall
    BY <2>2, <2>3, RpcAssumption DEF RpcAssumption, AnyCall
  <2>5. RpcInit(calls) /\ StartupInit
    BY <2>1, <2>2 DEF ProcessInit
  <2> QED  BY <2>4, <2>5, RpcInitially, StartupInitially, RpcAssumption, StartupAssumption
<1>2. (StartupInv /\ RpcInv) /\ [ProcessNext]_<<part, vars, shutdownVars, startupVars, rpcVars>>
        => (StartupInv /\ RpcInv)'
  BY OnePartRuns, StartupStaysSound, RpcStaysSound, StartupAssumption, RpcAssumption
<1>3. StartupInv /\ RpcInv => ProcessIsSound
  BY StartupInvImplies, RpcInvImplies DEF ProcessIsSound
<1> QED  BY <1>1, <1>2, <1>3, PTL DEF ProcessSpec

\* ShutdownIsClean, of Shutdown, StopNode and the threads in net.cpp, rpc.cpp and main.cpp: when
\* the databases are closed or the wallet is deleted neither a message handler nor a method nor
\* a miner is at work, unless StopNode gave up or two miners spoilt their count.
THEOREM ShutdownCorrect == ProcessSpec => []ShutdownIsClean
<1>1. ProcessInit => ShutdownInv
  BY ShutdownInvInitially, ShutdownAssumption DEF ProcessInit
<1>2. ShutdownInv /\ [ProcessNext]_<<part, vars, shutdownVars, startupVars, rpcVars>> => ShutdownInv'
  BY OnePartRuns, ShutdownInvKept, ShutdownAssumption
<1>3. ShutdownInv => ShutdownIsClean
  BY ShutdownInvImplies, ShutdownAssumption
<1> QED  BY <1>1, <1>2, <1>3, PTL DEF ProcessSpec
=============================================================================
