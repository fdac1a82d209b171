---------------------------- MODULE MCStrategies ----------------------------
(* Two strategies of one pocket.                                           *)
EXTENDS Strategies, TLC

OnePocket == [s \in Ids |-> CHOOSE p \in Pockets : TRUE]
IdSymmetry == Permutations(Ids)
=============================================================================
