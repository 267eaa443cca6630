------------------------------ MODULE MCBlockSync ------------------------------
(***************************************************************************)
(* Two downloads for TLC, which the first state chooses from: from two     *)
(* peers on one branch, who may go away, and from one alone on a longer    *)
(* branch than ours.  The constants of the cfg are those of the first.     *)
(***************************************************************************)
EXTENDS BlockSync, TLC

VARIABLE part

\* A trunk, a branch of our own and a longer one of the peer.
ForkPrev == [g |-> "g", c1 |-> "g", c2 |-> "c1", a1 |-> "c2", a2 |-> "a1", a3 |-> "a2",
             b1 |-> "c2", b2 |-> "b1", b3 |-> "b2", b4 |-> "b3", b5 |-> "b4", b6 |-> "b5", b7 |-> "b6"]
UnitSize == [b \in Blocks |-> 1]
\* The two have five blocks of the longer one, of which we have none.
LineTips == [p |-> {"b2", "b3"}, q |-> {"b1", "b2"}]
\* The locator of our branch skips the fork, a batch is one block, and an answer may take
\* longer than two minutes.
Lone == INSTANCE BlockSync
  WITH DenseSteps <- 1, Peers <- {Steady}, Tips <- [p |-> {"b5", "b6", "b7"}],
       OurBlocks <- {"g", "c1", "c2", "a1", "a2", "a3"}, BlockLimit <- 1, Prompt <- FALSE, MaxDrops <- 0

DownloadInit ==
  \/ part = "two" /\ SyncInit
  \/ part = "lone" /\ Lone!SyncInit
DownloadNext ==
  /\ UNCHANGED part
  /\ \/ part = "two" /\ SyncNext
     \/ part = "lone" /\ Lone!SyncNext
DownloadSpec ==
  /\ DownloadInit /\ [][DownloadNext]_<<part, syncVars>>
  /\ WF_syncVars(part = "lone" /\ Lone!Attended)

\* Two peers are asked for each block once at a time (AskFor, mapAlreadyAskedFor).
AskedOnce == part = "two" => OneRequest
\* A download that the two left unfinished is taken up again, and all that a lone peer has
\* is downloaded (getblocks, hashContinue).
DownloadsGoOn == [](part = "two" => Restarts) /\ (part = "lone" => Lone!Downloaded)
================================================================================
