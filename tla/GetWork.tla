-------------------------------- MODULE GetWork --------------------------------
(***************************************************************************)
(* The RPC methods getwork, getworkaux and getauxblock (rpc.cpp): work is  *)
(* handed out to programs outside, several pieces of one block and several *)
(* blocks at a time, and what comes back is put together again from what   *)
(* the method remembers.  One thread serves the calls, while the message   *)
(* thread goes on; w is what is kept between two calls.                    *)
(*                                                                         *)
(* The best block is a number that grows; what CreateNewBlock collects is  *)
(* one of a few contents.  The time is left out, except that it lets the   *)
(* extra nonce start over; a solution is right for one header.             *)
(***************************************************************************)
EXTENDS SequencesExt, Integers

CONSTANT NonceLimit  \* from here on the extra nonce may start over (0x7f)

Fresh(method) ==
  [method |-> method,
   best |-> 1, nTransactionsUpdated |-> 0,                      \* of the message thread
   mapNewBlock |-> {}, vNewBlock |-> {}, pblock |-> 0,          \* statics of the method
   pindexPrev |-> 0, nTransactionsUpdatedLast |-> 0, vchAuxPrev |-> "none", nExtraNonce |-> 0,
   reservekey |-> 0, nKeys |-> 0,
   blocks |-> <<>>,                                             \* every block it ever made
   handed |-> {}, paid |-> <<>>]                                \* work given out; blocks accepted

\* hashMerkleRoot, which has the coinbase in it; the header; and which of the two is what the
\* map of the method goes by.
MerkleRoot(b) == [content |-> b.content, key |-> b.key, nExtraNonce |-> b.nExtraNonce, aux |-> b.aux]
HeaderOf(b) == [prev |-> b.prev, root |-> MerkleRoot(b), auxpow |-> b.auxpow]
Ticket(w, b) == IF w.method = "getauxblock" THEN HeaderOf(b) ELSE [HeaderOf(b) EXCEPT !.prev = 0]

Put(map, e) == {f \in map : f.ticket # e.ticket} \cup {e}

\* A call is [aux, content, late, minute, reset]: what the caller wants merged, what there is
\* to collect, whether another block comes first, whether a minute has passed since the last
\* block was made, whether the extra nonce starts over.  Mutant: one block serves all.
OutdatedWhateverAux(w, call) ==
  \/ w.pindexPrev # w.best
  \/ w.nTransactionsUpdated # w.nTransactionsUpdatedLast /\ call.minute

Outdated(w, call) ==
  \/ w.pindexPrev # w.best
  \/ w.method = "getworkaux" /\ call.aux # w.vchAuxPrev
  \/ w.nTransactionsUpdated # w.nTransactionsUpdatedLast /\ call.minute

\* The best block is read, and read again by CreateNewBlock, without a lock in between.
MakeBlock(w, call) ==
  LET key == IF w.reservekey = 0 THEN w.nKeys + 1 ELSE w.reservekey
      best == IF call.late THEN w.best + 1 ELSE w.best
      merged == w.method = "getauxblock"
      b == [prev |-> best, content |-> call.content, key |-> key, aux |-> "none",
            nExtraNonce |-> IF merged THEN 1 ELSE 0, auxpow |-> merged]
      n == Len(w.blocks) + 1
      kept == IF w.pindexPrev = w.best THEN w
              ELSE [w EXCEPT !.mapNewBlock = {}, !.vNewBlock = {}]
  IN [kept EXCEPT !.best = best,
                  !.pindexPrev = w.best,
                  !.nTransactionsUpdatedLast = w.nTransactionsUpdated,
                  !.vchAuxPrev = call.aux,
                  !.reservekey = key,
                  !.nKeys = IF key > w.nKeys THEN key ELSE @,
                  !.blocks = Append(@, b),
                  !.pblock = n,
                  !.vNewBlock = @ \cup {n},
                  !.mapNewBlock = IF merged THEN Put(@, [ticket |-> HeaderOf(b), block |-> n, nExtraNonce |-> 1])
                                  ELSE @]

\* IncrementExtraNonce(WithAux): the block at hand gets another coinbase, and is remembered
\* by its new root.
NextPiece(w, call) ==
  LET n == IF call.reset /\ w.nExtraNonce + 1 >= NonceLimit THEN 1 ELSE w.nExtraNonce + 1
      b == [w.blocks[w.pblock] EXCEPT !.nExtraNonce = n,
                                      !.aux = IF w.method = "getworkaux" THEN call.aux ELSE @]
  IN [w EXCEPT !.nExtraNonce = n,
               !.blocks[w.pblock] = b,
               !.mapNewBlock = Put(@, [ticket |-> Ticket(w, b), block |-> w.pblock, nExtraNonce |-> n])]

GiveOut(w) ==
  [w EXCEPT !.handed = @ \cup {[block |-> w.blocks[w.pblock], seen |-> w.pindexPrev]}]

GetWork(w, call) ==
  LET made == IF Outdated(w, call) THEN MakeBlock(w, call) ELSE w
  IN GiveOut(IF w.method = "getauxblock" THEN made ELSE NextPiece(made, call))

-----------------------------------------------------------------------------
Saved(w, b) == {e \in w.mapNewBlock : e.ticket = Ticket(w, b)}

\* The block with the coinbase that this entry says; what it is to be merged with is read
\* from the coinbase that it has.
Rebuilt(w, e) == [w.blocks[e.block] EXCEPT !.nExtraNonce = e.nExtraNonce]

\* CheckWork: a solution of this header; stale work is refused, and the key is taken before
\* the block is processed, which may refuse it.
CheckWork(w, b, solved, accepted) ==
  IF HeaderOf(b) # solved \/ b.prev # w.best THEN w
  ELSE IF accepted THEN [w EXCEPT !.reservekey = 0, !.best = @ + 1, !.paid = Append(@, b.key)]
  ELSE [w EXCEPT !.reservekey = 0]

\* Work comes back, solved for the header it was given out with.
Submit(w, b, accepted) ==
  IF Saved(w, b) = {} THEN w
  ELSE LET e == CHOOSE e \in Saved(w, b) : TRUE
           rebuilt == Rebuilt(w, e)
       IN CheckWork([w EXCEPT !.blocks[e.block] = rebuilt], rebuilt, HeaderOf(b), accepted)
================================================================================
