------------------------------ MODULE MCGateway ------------------------------
(* Windows of two units and the moments 0..6: two windows and the start of *)
(* a third.  One request a window (RateMax = 1), each of the whole budget, *)
(* so that three requests through one visitor break both bounds if ever    *)
(* more than two windows meet.                                             *)
EXTENDS Gateway, TLC

CONSTANTS r1, r2, r3, v1, v2

Alike == Permutations(Request) \cup Permutations(Visitor)
=============================================================================
