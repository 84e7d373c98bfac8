---------------------------- MODULE MCMatchGraph ----------------------------
(* Five listings: a ring of four kinds of home in which no two suit each   *)
(* other, two that do, and some that differ from these in one respect.     *)
EXTENDS MatchGraph, TLC

CONSTANTS l1, l2, l3, l4, l5

Home(current, desired, rent, budget, city, wish, day, features) ==
    [currentType |-> current, desiredType |-> desired, currentRent |-> rent,
     maxBudget |-> budget, currentCity |-> city, desiredCity |-> wish,
     availableOn |-> day, features |-> features]

SomeHomes ==
    LET lekki == <<"lekki", "lagos">>  ikeja == <<"ikeja", "lagos">>  wuse == <<"wuse">>
    IN {Home("studio", "flat", 50, 80, lekki, lekki, 0, {"gym"}),
        Home("mini flat", "duplex", 70, 90, lekki, ikeja, 10, {"gym", "lift"}),
        Home("duplex", "villa", 80, 90, ikeja, lekki, 20, {}),
        Home("villa", "studio", 90, 60, wuse, wuse, 70, {"lift"}),
        Home("flat", "studio", 80, 80, ikeja, lekki, 40, {"gym", "lift"}),
        Home("flat", "duplex", 60, 80, lekki, wuse, 200, {"lift"})}

SomeIncluded == {<<"mini flat", "flat">>}

Alike == Permutations(Listings)
=============================================================================
