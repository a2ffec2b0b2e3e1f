---------------------------- MODULE MCOffsitePoll ----------------------------
(* Instances of OffsitePoll for TLC.                                          *)
EXTENDS OffsitePoll

CONSTANTS q1, q2, p1
=============================================================================
