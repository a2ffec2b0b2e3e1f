------------------------ MODULE MCSettlementEffects ------------------------
(* Instances of SettlementEffects for TLC.                                    *)
EXTENDS SettlementEffects, TLC

CONSTANTS w1, w2, o1, o2, r1, none

Symmetry == Permutations(Workers) \cup Permutations(Purchases)
=============================================================================
