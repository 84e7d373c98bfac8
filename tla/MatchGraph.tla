----------------------------- MODULE MatchGraph -----------------------------
(***************************************************************************)
(* Scoring and the choice of a chain in MatchingService: the graph of the  *)
(* ACTIVE listings, the direct pairs and rings through one of them, and    *)
(* the best of these, as a run computes them from one read of the tables.  *)
(* SwapChains says what becomes of the chain; here the scores are kept     *)
(* that it leaves out.                                                     *)
(*                                                                         *)
(* Where two candidates have the same average the code takes the first of  *)
(* a sorted array; here either may be taken.                               *)
(***************************************************************************)
EXTENDS Integers, FiniteSets, FiniteSetsExt, SequencesExt

CONSTANTS
    Listings,
    Homes,              \* what a listing may have and want
    Includes,           \* <<s, t>>: the name of type s has that of t in it
    ReliabilityScores,  \* of the owners of the listings
    PenaltyWeight,      \* RELIABILITY_RANK_PENALTY_WEIGHT
    Null

ASSUME HomesAssumption ==
    /\ Null \notin Homes
    /\ \A h \in Homes : /\ {h.currentRent, h.maxBudget, h.availableOn} \subseteq Int
                       /\ IsFiniteSet(h.features)
ASSUME ScoresAssumption ==
    ReliabilityScores \subseteq Int /\ 100 \in ReliabilityScores /\ PenaltyWeight \in Nat

VARIABLES
    home,       \* the home of an ACTIVE listing, Null of any other
    score,      \* the reliability score of its owner
    found       \* what the last run found: [by, cycle, avg], or Null

vars == <<home, score, found>>

Active == {l \in Listings : home[l] # Null}

TypeOK ==
    /\ home \in [Listings -> Homes \cup {Null}]
    /\ score \in [Listings -> ReliabilityScores]
    /\ found # Null => found.by \in Active /\ found.avg \in Nat

-----------------------------------------------------------------------------
(* Scores.  A city is the sequence of its tokens, a date its day.          *)

Round(n, d) == (2 * n + d) \div (2 * d)    \* Math.round(n / d), n not negative
Clamp(n, lo, hi) == IF n < lo THEN lo ELSE IF n > hi THEN hi ELSE n

LocationScore(a, b) ==
    IF a.desiredCity = b.currentCity THEN 30
    ELSE IF ToSet(a.desiredCity) \cap ToSet(b.currentCity) # {} THEN 15 ELSE 0

TypeScore(a, b) ==
    IF a.desiredType = b.currentType THEN 30
    ELSE IF {<<a.desiredType, b.currentType>>, <<b.currentType, a.desiredType>>}
              \cap Includes # {} THEN 15 ELSE 0

BudgetScore(a, b) ==
    IF a.maxBudget <= 0 \/ b.currentRent <= 0 \/ a.maxBudget < b.currentRent THEN 0
    ELSE Clamp(Round(25 * (a.maxBudget - b.currentRent), a.maxBudget), 0, 25)

TimelineScore(a, b) ==
    LET days == IF a.availableOn < b.availableOn THEN b.availableOn - a.availableOn
                                                 ELSE a.availableOn - b.availableOn
    IN  IF days <= 14 THEN 10 ELSE IF days <= 30 THEN 8 ELSE IF days <= 60 THEN 5
        ELSE IF days <= 90 THEN 2 ELSE 0

FeatureScore(a, b) ==
    IF a.features = {} \/ b.features = {} THEN 0
    ELSE Round(5 * Cardinality(a.features \cap b.features),
               Max({Cardinality(a.features), Cardinality(b.features)}))

ReliabilityPenalty(s) == Round((100 - Clamp(s, 0, 100)) * PenaltyWeight, 100)

(* What an edge from l to m is worth to l: the reliability of m counts.    *)
OwnPenaltyScore(l, m) ==    \* slip: the reliability of l
    LET a == home[l]  b == home[m] IN
    Clamp(LocationScore(a, b) + TypeScore(a, b) + BudgetScore(a, b) + TimelineScore(a, b)
            + FeatureScore(a, b) - ReliabilityPenalty(score[l]), 0, 100)
TotalScore(l, m) ==
    LET a == home[l]  b == home[m] IN
    Clamp(LocationScore(a, b) + TypeScore(a, b) + BudgetScore(a, b) + TimelineScore(a, b)
            + FeatureScore(a, b) - ReliabilityPenalty(score[m]), 0, 100)

-----------------------------------------------------------------------------
(* The graph.                                                              *)

IsEdge(l, m) ==
    /\ l # m /\ {l, m} \subseteq Active
    /\ TypeScore(home[l], home[m]) # 0
    /\ home[l].maxBudget >= home[m].currentRent

CheaperFirst(l, m) ==    \* slip: the reverse edge sought before it is stored
    IsEdge(l, m) /\ IsEdge(m, l) /\ home[l].currentRent >= home[m].currentRent
IsMutual(l, m) == IsEdge(l, m) /\ IsEdge(m, l)
RankScore(l, m) == TotalScore(l, m) + IF IsMutual(l, m) THEN 15 ELSE 0

(* A cycle has two to four members.                                        *)
Average(cycle) ==
    LET n == Len(cycle)
        Edge(i) == IF i > n THEN 0 ELSE RankScore(cycle[i], cycle[(i % n) + 1])
    IN  Round(Edge(1) + Edge(2) + Edge(3) + Edge(4), n)

(* The depth-first search: a path grows by each edge to a listing that is  *)
(* not on it, up to four listings, and closes by an edge to its first.     *)
Longer(paths) ==
    UNION {{Append(path, m) : m \in {n \in Active : IsEdge(Last(path), n)} \ ToSet(path)} :
               path \in paths}
PathsShort(l) ==    \* slip: a ring is closed below the limit only
    LET two == Longer({<<l>>}) IN two \cup Longer(two)
Paths(l) ==
    LET two == Longer({<<l>>})
        three == Longer(two)
    IN  two \cup three \cup Longer(three)

FindCyclesFrom(l) == {path \in Paths(l) : IsEdge(Last(path), l)}

Best(cycles) == {c \in cycles : \A d \in cycles : Average(d) <= Average(c)}

DirectPairs(l) == {<<l, m>> : m \in {n \in Active : IsMutual(l, n)}}
Rings(l) == {c \in FindCyclesFrom(l) : Len(c) >= 3}
Shortest(cycles) == {c \in cycles : \A d \in cycles : Len(c) <= Len(d)}

(* runForListing: the best direct pair, else the best of the shortest      *)
(* rings.                                                                  *)
Picks(l) ==
    IF DirectPairs(l) # {} THEN Best(DirectPairs(l)) ELSE Best(Shortest(Rings(l)))

-----------------------------------------------------------------------------
RunForListing(l) ==
    /\ l \in Active
    /\ IF Picks(l) = {} THEN found' = [by |-> l, cycle |-> <<>>, avg |-> 0]
       ELSE \E c \in Picks(l) : found' = [by |-> l, cycle |-> c, avg |-> Average(c)]
    /\ UNCHANGED <<home, score>>

(* The tables change between runs: a listing is created or ends, a user is *)
(* penalised.                                                              *)
CreateListing(l, h) ==
    /\ home[l] = Null
    /\ home' = [home EXCEPT ![l] = h]
    /\ found' = Null
    /\ UNCHANGED score

EndListing(l) ==
    /\ home[l] # Null
    /\ home' = [home EXCEPT ![l] = Null]
    /\ found' = Null
    /\ UNCHANGED score

Penalise(l, s) ==
    /\ s < score[l]
    /\ score' = [score EXCEPT ![l] = s]
    /\ found' = Null
    /\ UNCHANGED home

Init ==
    /\ home = [l \in Listings |-> Null]
    /\ score = [l \in Listings |-> 100]
    /\ found = Null

Next ==
    \E l \in Listings :
        \/ RunForListing(l)
        \/ \E h \in Homes : CreateListing(l, h)
        \/ EndListing(l)
        \/ \E s \in ReliabilityScores : Penalise(l, s)

Spec == Init /\ [][Next]_vars

-----------------------------------------------------------------------------
(* What a run is to find, without a search: the swaps of two to four       *)
(* different listings in which each one's next is a home it wants.         *)
Swaps(l) ==
    {c \in UNION {[1 .. n -> Active] : n \in 2 .. 4} :
        /\ c[1] = l
        /\ IsInjective(c)
        /\ \A i \in DOMAIN c : IsEdge(c[i], c[(i % Len(c)) + 1])}
Worth(c) == [length |-> Len(c), average |-> Average(c)]
Beats(v, w) ==
    v.length < w.length \/ (v.length = w.length /\ v.average > w.average)

(* The run finds a swap if there is one, and none that has fewer members   *)
(* or, of as many, a better average.                                       *)
FindsBestSwap ==
    found # Null =>
        IF Swaps(found.by) = {} THEN found.cycle = <<>>
        ELSE /\ found.cycle \in Swaps(found.by)
             /\ found.avg = Average(found.cycle)
             /\ \A c \in Swaps(found.by) : ~Beats(Worth(c), Worth(found.cycle))

(* Whoever of a chain's members runs next finds one no worse: no member is *)
(* left to wait for a chain that another has to propose.                   *)
PartnersDoAsWell ==
    found # Null /\ found.cycle # <<>> =>
        \A m \in ToSet(found.cycle) :
            /\ Picks(m) # {}
            /\ \A c \in Picks(m) : ~Beats(Worth(found.cycle), Worth(c))

(* A penalty ranks the edges to the penalised lower, or leaves them in     *)
(* place, changes no other rank, and takes no edge away.                   *)
PenaltyOnlyLowers ==
    [][\A p \in Listings, s \in ReliabilityScores : Penalise(p, s) =>
          \A l, m \in Active :
              /\ IsEdge(l, m)' <=> IsEdge(l, m)
              /\ IsEdge(l, m) =>
                    IF m = p THEN RankScore(l, m)' <= RankScore(l, m)
                    ELSE RankScore(l, m)' = RankScore(l, m)]_vars
=============================================================================
