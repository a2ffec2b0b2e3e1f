---------------------------- MODULE MCXmplusOrder ----------------------------
(* Instances of XmplusOrder for TLC.                                          *)
EXTENDS XmplusOrder, TLC

CONSTANTS w1, w2

WorkerSymmetry == Permutations(Workers)
=============================================================================
