-------------------------- MODULE ExclusiveRenting --------------------------
(* What confirming a renter promises (docs/api/endpoints.md, "confirm-     *)
(* renter"): an apartment gets one renter, a tenant takes one apartment    *)
(* for a listing, and neither is taken back.                               *)
CONSTANT Interests      \* pairs <<apartment, listing of who moves in>>
VARIABLE renters        \* the confirmed pairs

Init == renters = {}

Clash(i, j) == i # j /\ (i[1] = j[1] \/ i[2] = j[2])

Confirm(i) ==
    /\ \A j \in renters : ~Clash(i, j)
    /\ renters' = renters \cup {i}

Next == \E i \in Interests : Confirm(i)

Spec == Init /\ [][Next]_renters
=============================================================================
