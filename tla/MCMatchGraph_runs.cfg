SPECIFICATION Spec
CONSTANTS
    l1 = l1
    l2 = l2
    l3 = l3
    l4 = l4
    l5 = l5
    Null = Null
    Listings = {l1, l2, l3, l4, l5}
    Homes <- SomeHomes
    Includes <- SomeIncluded
    ReliabilityScores = {40, 100}
    PenaltyWeight = 25
SYMMETRY Alike
INVARIANTS
    FindsBestSwap
    PartnersDoAsWell
PROPERTIES
    PenaltyOnlyLowers
