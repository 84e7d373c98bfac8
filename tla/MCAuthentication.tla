-------------------------- MODULE MCAuthentication --------------------------
(* Two phones that one email is registered with, from one address.         *)
EXTENDS Authentication, TLC

CONSTANTS w1, w2, p1, p2, m1, a1

Alike == Permutations({w1, w2}) \cup Permutations({p1, p2})
=============================================================================
