------------------------- MODULE MCListingInterests -------------------------
(* Small instances of ListingInterests: three tenants with one listing     *)
(* each, and which of them may ask for which.                              *)
EXTENDS ListingInterests, TLC

CONSTANTS a, b, c, w1, w2, t1

MCListings == {a, b, c}
MCOwner == [l \in MCListings |-> l]

(* Two tenants want b's apartment.                                         *)
Rivals == {<<b, a>>, <<b, c>>}
(* a wants two apartments.                                                 *)
Fork == {<<b, a>>, <<c, a>>}
(* Both: a wants two apartments, one of them c's, who is its rival.        *)
Triangle == Rivals \cup Fork
(* a and b want each other's.                                              *)
Pair == {<<b, a>>, <<a, b>>}

PairOf == {a, b}
PairOwner == [l \in PairOf |-> l]
OnePair == {{a, b}}

TwoWorkers == Permutations({w1, w2})
=============================================================================
