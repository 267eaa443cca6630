------------------------------ MODULE MCOrphanTx ------------------------------
(* A chain of four blocks and a family of transactions for OrphanTx.              *)
EXTENDS OrphanTx, TLC

\* n3 confirms p1.
OrphanPrev == [g0 |-> "g0", g1 |-> "g0", g2 |-> "g1", n3 |-> "g2"]
OrphanWork == [g0 |-> 0, g1 |-> 1, g2 |-> 2, n3 |-> 3]
OrphanVtx == [g0 |-> <<"cg0">>, g1 |-> <<"cg1">>, g2 |-> <<"cg2">>, n3 |-> <<"cn3", "p1">>]
OrphanFails == [b \in Blocks |-> "never"]

\* r1 spends both p1 and q1; s1 spends r1; p2 competes with p1 and both its inputs are of
\* one transaction; v1 carries a bad signature.
OrphanIns ==
  [cg0 |-> {}, cg1 |-> {}, cg2 |-> {}, cn3 |-> {},
   p1 |-> {<<"cg1", 1>>}, q1 |-> {<<"cg1", 2>>},
   p2 |-> {<<"cg1", 1>>, <<"cg1", 2>>},
   r1 |-> {<<"p1", 1>>, <<"q1", 1>>}, s1 |-> {<<"r1", 1>>}, v1 |-> {<<"q1", 2>>}]
OrphanNOut == [cg0 |-> 1, cg1 |-> 2, cg2 |-> 1, cn3 |-> 1,
               p1 |-> 1, q1 |-> 2, p2 |-> 1, r1 |-> 1, s1 |-> 1, v1 |-> 1]
OrphanValue == [o \in OutPoints |-> IF o[1] \in {"cg0", "cg2", "cn3"} THEN 2
                                   ELSE IF o[1] = "q1" THEN 0 ELSE 1]
OrphanSubsidy(h) == 2
================================================================================
