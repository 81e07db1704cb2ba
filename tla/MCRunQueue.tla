---------------------------- MODULE MCRunQueue ----------------------------
(* RunQueue on two trees: a and b contend for t1, c shares only the total   *)
(* cap with them.                                                           *)
EXTENDS RunQueue

CONSTANTS t1, t2, a, b, c

MCTrees == {t1, t2}
MCItems == {a, b, c}
MCTreeOf == [i \in MCItems |-> IF i = c THEN t2 ELSE t1]
MCMinStamp == -1
=============================================================================
