---------------------------- MODULE MCSwapChains ----------------------------
(* Small instances of SwapChains: three listings of three tenants, and     *)
(* whose wishes fit whose apartment.                                       *)
EXTENDS SwapChains, TLC

CONSTANTS a, b, c, w1, w2, t1, u1, u2

Three == {a, b, c}
ThreeOwners == [l \in Three |-> l]
Two == {a, b}
TwoOwners == [l \in Two |-> l]

(* One direct pair.                                                        *)
Pair == {<<a, b>>, <<b, a>>}
(* b is in two direct pairs.                                               *)
Rivals == Pair \cup {<<b, c>>, <<c, b>>}
(* A ring of three, and a direct pair inside it.                           *)
Ring == {<<a, b>>, <<b, c>>, <<c, a>>, <<b, a>>}

NothingSwept == {{}}
OneSwept == {{}, {a}}

TwoWorkers == Permutations({w1, w2})
=============================================================================
