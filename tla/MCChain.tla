------------------------------- MODULE MCChain -------------------------------
(***************************************************************************)
(* Small trees of blocks for TLC.  A cfg picks the blocks; everything else *)
(* is read off the tables below.                                           *)
(***************************************************************************)
EXTENDS ChainSafety, TLC

\* g2 is the fork of most trees: a3, a4 against b3, b4 (b4 has the work of two).
\* c4 is valid only before t1 is spent in its own block a second time; e4 pays
\* itself too much, u3 carries a bad signature, h4 and x3
\* fail a check on the block alone, c5 and x4 extend bad blocks; c3 and k4 are good.
BlockTable ==
  [g0 |-> [prev |-> "g0", work |-> 0, vtx |-> <<"cg0">>, failsAt |-> "never"],
   g1 |-> [prev |-> "g0", work |-> 1, vtx |-> <<"cg1">>, failsAt |-> "never"],
   g2 |-> [prev |-> "g1", work |-> 2, vtx |-> <<"cg2">>, failsAt |-> "never"],
   a3 |-> [prev |-> "g2", work |-> 3, vtx |-> <<"ca3", "t1", "t3">>, failsAt |-> "never"],
   a4 |-> [prev |-> "a3", work |-> 4, vtx |-> <<"ca4", "t5">>, failsAt |-> "never"],
   b3 |-> [prev |-> "g2", work |-> 3, vtx |-> <<"cb3", "t4">>, failsAt |-> "never"],
   b4 |-> [prev |-> "b3", work |-> 5, vtx |-> <<"cb4">>, failsAt |-> "never"],
   c3 |-> [prev |-> "g2", work |-> 3, vtx |-> <<"cc3", "t4">>, failsAt |-> "never"],
   c4 |-> [prev |-> "c3", work |-> 4, vtx |-> <<"cc4", "t1", "t2">>, failsAt |-> "never"],
   c5 |-> [prev |-> "c4", work |-> 5, vtx |-> <<"cc5">>, failsAt |-> "never"],
   k4 |-> [prev |-> "c3", work |-> 5, vtx |-> <<"ck4", "t1">>, failsAt |-> "never"],
   e4 |-> [prev |-> "a3", work |-> 4, vtx |-> <<"ce4">>, failsAt |-> "never"],
   u3 |-> [prev |-> "g2", work |-> 4, vtx |-> <<"cu3", "t7">>, failsAt |-> "never"],
   h4 |-> [prev |-> "a3", work |-> 4, vtx |-> <<"ch4">>, failsAt |-> "height"],
   x3 |-> [prev |-> "g2", work |-> 3, vtx |-> <<"cx3">>, failsAt |-> "context"],
   x4 |-> [prev |-> "x3", work |-> 4, vtx |-> <<"cx4">>, failsAt |-> "never"],
   y3 |-> [prev |-> "g2", work |-> 3, vtx |-> <<"cy3">>, failsAt |-> "check"]]

\* Inputs and the values of the outputs.  t1 and t2 compete for <<"cg1", 1>>, t3 spends
\* t1, t4 pays a fee, t8 names an output that does not exist.
TxTable ==
  [cg0 |-> [ins |-> {}, outs |-> <<2>>],
   cg1 |-> [ins |-> {}, outs |-> <<1, 1>>],
   cg2 |-> [ins |-> {}, outs |-> <<2>>],
   ca3 |-> [ins |-> {}, outs |-> <<2>>],
   ca4 |-> [ins |-> {}, outs |-> <<1>>],
   cb3 |-> [ins |-> {}, outs |-> <<3>>],
   cb4 |-> [ins |-> {}, outs |-> <<2>>],
   cc3 |-> [ins |-> {}, outs |-> <<2>>],
   cc4 |-> [ins |-> {}, outs |-> <<2>>],
   cc5 |-> [ins |-> {}, outs |-> <<2>>],
   ck4 |-> [ins |-> {}, outs |-> <<2>>],
   ce4 |-> [ins |-> {}, outs |-> <<3>>],
   cu3 |-> [ins |-> {}, outs |-> <<2>>],
   ch4 |-> [ins |-> {}, outs |-> <<2>>],
   cx3 |-> [ins |-> {}, outs |-> <<2>>],
   cx4 |-> [ins |-> {}, outs |-> <<2>>],
   cy3 |-> [ins |-> {}, outs |-> <<2>>],
   t1 |-> [ins |-> {<<"cg1", 1>>}, outs |-> <<1>>],
   t2 |-> [ins |-> {<<"cg1", 1>>}, outs |-> <<1>>],
   t3 |-> [ins |-> {<<"t1", 1>>}, outs |-> <<1>>],
   t4 |-> [ins |-> {<<"cg1", 2>>}, outs |-> <<0>>],
   t5 |-> [ins |-> {<<"cg2", 1>>, <<"t3", 1>>}, outs |-> <<3>>],
   t7 |-> [ins |-> {<<"cg1", 2>>}, outs |-> <<1>>],
   t8 |-> [ins |-> {<<"cg1", 3>>}, outs |-> <<1>>]]

MCPrev == [b \in Blocks |-> BlockTable[b].prev]
MCChainWork == [b \in Blocks |-> BlockTable[b].work]
MCVtx == [b \in Blocks |-> BlockTable[b].vtx]
MCFailsAt == [b \in Blocks |-> BlockTable[b].failsAt]
MCIns == [t \in Txs |-> TxTable[t].ins]
MCNOut == [t \in Txs |-> Len(TxTable[t].outs)]
MCValue == [o \in OutPoints |-> TxTable[o[1]].outs[o[2]]]
MCSubsidy(h) == 2
=============================================================================
