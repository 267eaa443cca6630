----------------------------- MODULE BlockFiles ------------------------------
(***************************************************************************)
(* The files that blocks are appended to (main.cpp, main.h) and the index  *)
(* that says where each is, whose commits are not synced: what a process   *)
(* that dies, or a loss of power, leaves of either, and where the next     *)
(* block goes.  A file is a sequence of cells, <<b, 0>> for the message    *)
(* start and the size, <<b, 1>> and so on for the block b.                 *)
(***************************************************************************)
EXTENDS SequencesExt, Integers

CONSTANTS
  BlockLengths, \* of each block that is written, in turn
  FileLimit,    \* 0x7F000000
  MaxBlockSize, \* MAX_SIZE
  SyncEvery     \* 500

ASSUME BlockFilesAssumption ==
  /\ BlockLengths \in Seq(1..MaxBlockSize)
  /\ FileLimit \in Nat /\ FileLimit > MaxBlockSize /\ SyncEvery \in Nat \ {0}

\* Files, and how much of each is on the disk; the records of the index in the order of their
\* commits, and how many of them are on the disk; the block that is written but not indexed yet.
NoFiles ==
  [files |-> <<>>, synced |-> <<>>, index |-> <<>>, indexSynced |-> 0, nCurrentBlockFile |-> 1,
   pending |-> <<>>, written |-> 0, starts |-> 1, powerLost |-> FALSE]

FileLength(d, nFile) == IF nFile \in DOMAIN d.files THEN Len(d.files[nFile]) ELSE 0

\* The first file from the current one on that has room.
AppendBlockFile(d) ==
  CHOOSE nFile \in d.nCurrentBlockFile..Len(d.files) + d.nCurrentBlockFile :
    /\ FileLength(d, nFile) < FileLimit - MaxBlockSize
    /\ \A i \in d.nCurrentBlockFile..nFile - 1 : FileLength(d, i) >= FileLimit - MaxBlockSize

BytesOf(b) == [k \in 1..BlockLengths[b] + 1 |-> <<b, k - 1>>]

\* IsInitialBlockDownload() is initial.
SyncsFile(initial, nBestHeight) == ~initial \/ (nBestHeight + 1) % SyncEvery = 0
WriteToDisk(d, initial, nBestHeight) ==
  LET b == d.written + 1
      nFile == AppendBlockFile(d)
      fresh == nFile > Len(d.files)
      files == IF fresh THEN Append(d.files, BytesOf(b)) ELSE [d.files EXCEPT ![nFile] = @ \o BytesOf(b)]
      upTo == IF fresh THEN Append(d.synced, 0) ELSE d.synced
      entry == [block |-> b, nFile |-> nFile, nBlockPos |-> FileLength(d, nFile) + 1, initial |-> initial]
  IN [d EXCEPT !.files = files, !.nCurrentBlockFile = nFile, !.written = b, !.pending = <<entry>>,
               !.synced = IF SyncsFile(initial, nBestHeight) THEN [upTo EXCEPT ![nFile] = Len(files[nFile])] ELSE upTo]

\* AddToBlockIndex commits the record, unsynced.
WriteBlockIndex(d) == [d EXCEPT !.index = @ \o d.pending, !.pending = <<>>]
\* The log of the database is flushed, or the system writes its pages.
FlushIndex(d) == [d EXCEPT !.indexSynced = Len(d.index)]
FlushFile(d, nFile) == [d EXCEPT !.synced[nFile] = Len(d.files[nFile])]

\* What is found at the next start, which begins with the first file again.
Restarted(d, files, k) ==
  [d EXCEPT !.files = files, !.synced = [i \in DOMAIN files |-> Min({d.synced[i], Len(files[i])})],
            !.index = SubSeq(@, 1, k), !.indexSynced = k, !.pending = <<>>, !.nCurrentBlockFile = 1,
            !.starts = @ + 1]
\* A process that dies leaves its last commits behind, and of a block that it writes a part.
Died(d) ==
  {Restarted(d, files, k) :
     files \in {[i \in DOMAIN d.files |-> IF \E r \in ToSet(d.pending) : r.nFile = i
                                          THEN SubSeq(d.files[i], 1, n) ELSE d.files[i]] :
                  n \in {m \in 0..FileLimit : \A r \in ToSet(d.pending) :
                              m \in r.nBlockPos - 1..Len(d.files[r.nFile])}},
     k \in d.indexSynced..Len(d.index)}
\* Without power all is lost that is not on the disk, or any part of it.
PowerLost(d) ==
  {[Restarted(d, [i \in DOMAIN d.files |-> SubSeq(d.files[i], 1, cut[i])], k) EXCEPT !.powerLost = TRUE] :
     cut \in {c \in [DOMAIN d.files -> 0..FileLimit] :
                \A i \in DOMAIN d.files : c[i] \in d.synced[i]..Len(d.files[i])},
     k \in d.indexSynced..Len(d.index)}

\* CBlock::ReadFromDisk, for a record of the index: whether the block is there.
ReadFromDisk(d, r) ==
  LET end == r.nBlockPos + BlockLengths[r.block] IN
  /\ r.nFile \in DOMAIN d.files /\ end <= Len(d.files[r.nFile])
  /\ SubSeq(d.files[r.nFile], r.nBlockPos + 1, end) = Tail(BytesOf(r.block))
=============================================================================
