---------------------------- MODULE MCReliability ----------------------------
(* One user, two handlers at once.                                         *)
EXTENDS Reliability, TLC

CONSTANTS w1, w2, u1

TwoWorkers == Permutations({w1, w2})
=============================================================================
