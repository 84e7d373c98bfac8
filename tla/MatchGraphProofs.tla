-------------------------- MODULE MatchGraphProofs --------------------------
(* Machine-checked proofs about MatchGraph, for any listings, homes, type  *)
(* names and reliability scores.                                           *)
EXTENDS MatchGraph, FiniteSetTheorems, WellFoundedInduction, TLAPS

-----------------------------------------------------------------------------
(* The scores: each is an integer, a rank is between 0 and 115, and it is  *)
(* the lower the less reliable the other owner is.                         *)

LEMMA RoundType ==
    ASSUME NEW n \in Nat, NEW d \in Nat \ {0}
    PROVE  Round(n, d) \in Nat
<1>1. 2 * n + d \in Nat /\ 2 * d \in Nat \ {0}
  OBVIOUS
<1>2. \A x \in Nat, y \in Nat \ {0} : x \div y \in Nat
  OBVIOUS
<1> QED
  BY <1>1, <1>2 DEF Round

LEMMA BudgetType ==
    ASSUME NEW a \in Homes, NEW b \in Homes
    PROVE  BudgetScore(a, b) \in Int
<1>0. a.maxBudget \in Int /\ b.currentRent \in Int
  BY HomesAssumption
<1>1. CASE a.maxBudget <= 0 \/ b.currentRent <= 0 \/ a.maxBudget < b.currentRent
  BY <1>1 DEF BudgetScore
<1>2. CASE ~(a.maxBudget <= 0 \/ b.currentRent <= 0 \/ a.maxBudget < b.currentRent)
  <2>1. a.maxBudget \in Nat \ {0} /\ 25 * (a.maxBudget - b.currentRent) \in Nat
    BY <1>0, <1>2
  <2>2. Round(25 * (a.maxBudget - b.currentRent), a.maxBudget) \in Nat
    BY <2>1, RoundType
  <2> QED
    BY <1>2, <2>2 DEF BudgetScore, Clamp
<1> QED
  BY <1>1, <1>2

LEMMA FeatureType ==
    ASSUME NEW a \in Homes, NEW b \in Homes
    PROVE  FeatureScore(a, b) \in Int
<1>0. IsFiniteSet(a.features) /\ IsFiniteSet(b.features)
  BY HomesAssumption
<1>1. CASE a.features = {} \/ b.features = {}
  BY <1>1 DEF FeatureScore
<1>2. CASE a.features # {} /\ b.features # {}
  <2>1. /\ Cardinality(a.features) \in Nat \ {0} /\ Cardinality(b.features) \in Nat \ {0}
        /\ Cardinality(a.features \cap b.features) \in Nat
    BY <1>0, <1>2, FS_CardinalityType, FS_EmptySet, FS_Intersection
  <2>2. PICK x, y \in Nat \ {0} :
          x = Cardinality(a.features) /\ y = Cardinality(b.features)
    BY <2>1
  <2>3. PICK n \in Nat : n = 5 * Cardinality(a.features \cap b.features)
    BY <2>1
  <2>4. Max({x, y}) \in Nat \ {0}
    <3>1. \E m \in {x, y} : \A z \in {x, y} : m >= z
      BY <2>2
    <3>2. Max({x, y}) \in {x, y}
      BY <3>1 DEF Max
    <3> QED
      BY <2>2, <3>2
  <2>5. Round(n, Max({x, y})) \in Nat
    BY <2>3, <2>4, RoundType
  <2>6. FeatureScore(a, b) =
          Round(5 * Cardinality(a.features \cap b.features),
                Max({Cardinality(a.features), Cardinality(b.features)}))
    BY <1>2 DEF FeatureScore
  <2>7. {Cardinality(a.features), Cardinality(b.features)} = {x, y}
    BY <2>2
  <2>8. FeatureScore(a, b) = Round(n, Max({x, y}))
    BY <2>3, <2>6, <2>7
  <2> QED
    BY <2>5, <2>8
<1> QED
  BY <1>1, <1>2

LEMMA PenaltyType ==
    ASSUME NEW s \in Int
    PROVE  ReliabilityPenalty(s) \in Nat
<1>1. Clamp(s, 0, 100) \in 0 .. 100
  BY DEF Clamp
<1>2. (100 - Clamp(s, 0, 100)) * PenaltyWeight \in Nat
  <2>1. \A x, y \in Nat : x * y \in Nat
    OBVIOUS
  <2>2. 100 - Clamp(s, 0, 100) \in Nat
    BY <1>1
  <2> QED
    BY <2>1, <2>2, ScoresAssumption
<1> QED
  BY <1>2, RoundType DEF ReliabilityPenalty

(* The less reliable the owner, the higher the penalty.                    *)
LEMMA PenaltyGrows ==
    ASSUME NEW s \in Int, NEW t \in Int, s <= t
    PROVE  ReliabilityPenalty(t) <= ReliabilityPenalty(s)
<1> DEFINE x == 100 - Clamp(t, 0, 100)
           y == 100 - Clamp(s, 0, 100)
<1>1. x \in Nat /\ y \in Nat /\ x <= y
  BY DEF Clamp
<1>2. PenaltyWeight \in Nat
  BY ScoresAssumption
<1> HIDE DEF x, y
<1>3. x * PenaltyWeight \in Nat /\ y * PenaltyWeight \in Nat
      /\ x * PenaltyWeight <= y * PenaltyWeight
  <2>1. \A u, v, w \in Nat : u <= v => u * w \in Nat /\ v * w \in Nat /\ u * w <= v * w
    <3> SUFFICES ASSUME NEW u \in Nat, NEW v \in Nat, NEW w \in Nat, u <= v
                 PROVE  u * w \in Nat /\ v * w \in Nat /\ u * w <= v * w
      OBVIOUS
    <3>1. PICK k \in Nat : v = u + k
      <4>1. v - u \in Nat /\ v = u + (v - u)
        OBVIOUS
      <4> QED
        BY <4>1
    <3>2. v * w = u * w + k * w /\ k * w \in Nat /\ u * w \in Nat
      BY <3>1
    <3> QED
      BY <3>2
  <2> QED
    BY <1>1, <1>2, <2>1
<1>4. \A m, n \in Nat : m <= n => (2 * m + 100) \div (2 * 100) <= (2 * n + 100) \div (2 * 100)
  OBVIOUS
<1>5. Round(x * PenaltyWeight, 100) <= Round(y * PenaltyWeight, 100)
  BY <1>3, <1>4 DEF Round
<1> QED
  BY <1>5 DEF ReliabilityPenalty, x, y

(* What an edge from a to b is worth before the penalty.                   *)
Fit(a, b) ==
    LocationScore(a, b) + TypeScore(a, b) + BudgetScore(a, b) + TimelineScore(a, b)
      + FeatureScore(a, b)

LEMMA FitType ==
    ASSUME NEW a \in Homes, NEW b \in Homes
    PROVE  /\ Fit(a, b) \in Int
           /\ \A s \in Int :
                 LocationScore(a, b) + TypeScore(a, b) + BudgetScore(a, b)
                   + TimelineScore(a, b) + FeatureScore(a, b) - ReliabilityPenalty(s)
                 = Fit(a, b) - ReliabilityPenalty(s)
<1>1. LocationScore(a, b) \in Int /\ TypeScore(a, b) \in Int
  BY DEF LocationScore, TypeScore
<1>2. TimelineScore(a, b) \in Int
  BY DEF TimelineScore
<1>3. PICK c, t, e, d, f \in Int :
        /\ c = LocationScore(a, b) /\ t = TypeScore(a, b) /\ e = BudgetScore(a, b)
        /\ d = TimelineScore(a, b) /\ f = FeatureScore(a, b)
  BY <1>1, <1>2, BudgetType, FeatureType
<1>4. \A r \in Int : c + t + e + d + f - r = (c + t + e + d + f) - r
  OBVIOUS
<1>5. ASSUME NEW s \in Int
      PROVE  LocationScore(a, b) + TypeScore(a, b) + BudgetScore(a, b)
               + TimelineScore(a, b) + FeatureScore(a, b) - ReliabilityPenalty(s)
             = Fit(a, b) - ReliabilityPenalty(s)
  <2>1. PICK r \in Int : r = ReliabilityPenalty(s)
    BY PenaltyType
  <2> QED
    BY <1>3, <1>4, <2>1 DEF Fit
<1>6. Fit(a, b) \in Int
  BY <1>3 DEF Fit
<1> QED
  BY <1>5, <1>6

LEMMA TotalScoreIs ==
    ASSUME TypeOK, NEW l \in Active, NEW m \in Active
    PROVE  /\ home[l] \in Homes /\ home[m] \in Homes /\ score[m] \in Int
           /\ TotalScore(l, m) =
                 Clamp(Fit(home[l], home[m]) - ReliabilityPenalty(score[m]), 0, 100)
<1>1. home[l] \in Homes /\ home[m] \in Homes /\ score[m] \in Int
  BY ScoresAssumption DEF TypeOK, Active
<1> QED
  BY <1>1, FitType DEF TotalScore

LEMMA RankBounds ==
    ASSUME TypeOK, NEW l \in Active, NEW m \in Active
    PROVE  RankScore(l, m) \in 0 .. 115
<1>1. PICK n \in Int : n = Fit(home[l], home[m]) - ReliabilityPenalty(score[m])
  BY TotalScoreIs, FitType, PenaltyType
<1>2. TotalScore(l, m) \in 0 .. 100
  <2>1. Clamp(n, 0, 100) \in 0 .. 100
    BY DEF Clamp
  <2>2. TotalScore(l, m) = Clamp(n, 0, 100)
    BY <1>1, TotalScoreIs
  <2> QED
    BY <2>1, <2>2
<1> QED
  BY <1>2 DEF RankScore

-----------------------------------------------------------------------------
(* The graph depends on the homes only, the ranks on the scores as well.   *)

LEMMA SameGraph ==
    ASSUME home' = home
    PROVE  /\ Active' = Active
           /\ \A l, m : /\ IsEdge(l, m)' <=> IsEdge(l, m)
                        /\ IsMutual(l, m)' <=> IsMutual(l, m)
<1>1. Active' = Active
  BY DEF Active
<1>2. \A l, m : IsEdge(l, m)' <=> IsEdge(l, m)
  BY <1>1 DEF IsEdge
<1> QED
  BY <1>1, <1>2 DEF IsMutual

LEMMA PenaltyStep ==
    ASSUME TypeOK, NEW p \in Listings, NEW s \in ReliabilityScores, Penalise(p, s),
           NEW l \in Active, NEW m \in Active
    PROVE  /\ IsEdge(l, m)' <=> IsEdge(l, m)
           /\ IsEdge(l, m) =>
                 IF m = p THEN RankScore(l, m)' <= RankScore(l, m)
                 ELSE RankScore(l, m)' = RankScore(l, m)
<1>0. /\ home' = home /\ s < score[p] /\ score' = [score EXCEPT ![p] = s]
      /\ score \in [Listings -> ReliabilityScores] /\ m \in Listings /\ s \in Int
  BY ScoresAssumption DEF Penalise, TypeOK, Active
<1>1. /\ IsEdge(l, m)' <=> IsEdge(l, m)
      /\ IsMutual(l, m)' <=> IsMutual(l, m)
  BY <1>0, SameGraph
<1>2. CASE m # p
  <2>1. score'[m] = score[m]
    BY <1>0, <1>2
  <2>2. TotalScore(l, m)' = TotalScore(l, m)
    BY <1>0, <2>1 DEF TotalScore
  <2> QED
    BY <1>1, <1>2, <2>2 DEF RankScore
<1>3. CASE m = p
  <2>1. score'[m] = s /\ score[m] \in Int /\ s <= score[m]
    <3>1. score[m] \in Int /\ s < score[m]
      BY <1>0, <1>3, TotalScoreIs
    <3> QED
      BY <1>0, <1>3, <3>1
  <2>2. PICK f, r, q \in Int : /\ f = Fit(home[l], home[m])
                              /\ r = ReliabilityPenalty(score[m])
                              /\ q = ReliabilityPenalty(s)
    BY <1>0, <2>1, TotalScoreIs, FitType, PenaltyType
  <2>3. r <= q
    <3>1. PICK t \in Int : t = score[m] /\ s <= t
      BY <2>1
    <3>2. ReliabilityPenalty(t) <= ReliabilityPenalty(s)
      BY <1>0, <3>1, PenaltyGrows
    <3> QED
      BY <2>2, <3>1, <3>2
  <2>4. TotalScore(l, m) = Clamp(f - r, 0, 100)
    BY <2>2, TotalScoreIs
  <2>5. TotalScore(l, m)' = Clamp(f - q, 0, 100)
    <3>1. home[l] \in Homes /\ home[m] \in Homes
      BY TotalScoreIs
    <3>2. TotalScore(l, m)' =
            Clamp(LocationScore(home[l], home[m]) + TypeScore(home[l], home[m])
                    + BudgetScore(home[l], home[m]) + TimelineScore(home[l], home[m])
                    + FeatureScore(home[l], home[m]) - ReliabilityPenalty(s), 0, 100)
      BY <1>0, <2>1 DEF TotalScore
    <3> QED
      BY <1>0, <2>2, <3>1, <3>2, FitType
  <2>6. Clamp(f - q, 0, 100) <= Clamp(f - r, 0, 100)
        /\ Clamp(f - q, 0, 100) \in Int /\ Clamp(f - r, 0, 100) \in Int
    BY <2>3 DEF Clamp
  <2>7. RankScore(l, m)' <= RankScore(l, m)
    BY <1>1, <2>4, <2>5, <2>6 DEF RankScore
  <2> QED
    BY <1>1, <1>3, <2>7
<1> QED
  BY <1>2, <1>3

-----------------------------------------------------------------------------
(* The search finds every swap: the paths of n listings from l are the     *)
(* ways, and those that close are the swaps.                               *)

Way(n, l) ==
    {c \in [1 .. n -> Active] :
        /\ c[1] = l
        /\ \A i, j \in 1 .. n : c[i] = c[j] => i = j
        /\ \A i \in 1 .. n - 1 : IsEdge(c[i], c[i + 1])}

LEMMA WaySeq ==
    ASSUME NEW n \in Nat, NEW c \in [1 .. n -> Active]
    PROVE  /\ c \in Seq(Active) /\ Len(c) = n /\ DOMAIN c = 1 .. n
           /\ ToSet(c) = {c[i] : i \in 1 .. n}
           /\ Last(c) = c[n]
<1>1. c \in Seq(Active) /\ Len(c) = n /\ DOMAIN c = 1 .. n
  OBVIOUS
<1> QED
  BY <1>1 DEF ToSet, Last

LEMMA OneWay ==
    ASSUME NEW l \in Active
    PROVE  {<<l>>} = Way(1, l)
<1>1. <<l>> \in Way(1, l)
  BY DEF Way
<1>2. ASSUME NEW c \in Way(1, l)
      PROVE  c = <<l>>
  <2>1. c \in [1 .. 1 -> Active] /\ c[1] = l
    BY <1>2 DEF Way
  <2> QED
    BY <2>1
<1> QED
  BY <1>1, <1>2

LEMMA LongerWays ==
    ASSUME NEW n \in Nat \ {0}, NEW l \in Active
    PROVE  Longer(Way(n, l)) = Way(n + 1, l)
<1>1. ASSUME NEW c \in Way(n, l),
             NEW m \in {k \in Active : IsEdge(Last(c), k)} \ ToSet(c)
      PROVE  Append(c, m) \in Way(n + 1, l)
  <2>1. /\ c \in [1 .. n -> Active] /\ c[1] = l
        /\ \A i, j \in 1 .. n : c[i] = c[j] => i = j
        /\ \A i \in 1 .. n - 1 : IsEdge(c[i], c[i + 1])
    BY <1>1 DEF Way
  <2>2. /\ c \in Seq(Active) /\ Len(c) = n
        /\ \A i \in 1 .. n : c[i] # m
        /\ IsEdge(c[n], m)
    BY <1>1, <2>1, WaySeq
  <2>3. PICK d : d = Append(c, m)
    OBVIOUS
  <2>4. /\ d \in [1 .. n + 1 -> Active]
        /\ \A i \in 1 .. n : d[i] = c[i]
        /\ d[n + 1] = m
    <3>1. d \in Seq(Active) /\ Len(d) = n + 1
      BY <2>2, <2>3
    <3>2. d \in [1 .. n + 1 -> Active]
      BY <3>1
    <3>3. \A i \in 1 .. n : d[i] = c[i]
      BY <2>2, <2>3
    <3>4. d[n + 1] = m
      BY <2>2, <2>3
    <3> QED
      BY <3>2, <3>3, <3>4
  <2>5. d[1] = l
    BY <2>1, <2>4
  <2>6. \A i, j \in 1 .. n + 1 : d[i] = d[j] => i = j
    <3>1. \A i \in 1 .. n + 1 : i \in 1 .. n \/ i = n + 1
      OBVIOUS
    <3> QED
      BY <2>1, <2>2, <2>4, <3>1
  <2>7. ASSUME NEW i \in 1 .. n
        PROVE  IsEdge(d[i], d[i + 1])
    <3>1. CASE i = n
      BY <2>2, <2>4, <3>1
    <3>2. CASE i \in 1 .. n - 1
      <4>1. i + 1 \in 1 .. n
        BY <3>2
      <4> QED
        BY <2>1, <2>4, <3>2, <4>1
    <3> QED
      BY <3>1, <3>2
  <2>8. (n + 1) - 1 = n
    OBVIOUS
  <2> QED
    BY <2>3, <2>4, <2>5, <2>6, <2>7, <2>8 DEF Way
<1>2. ASSUME NEW d \in Way(n + 1, l)
      PROVE  \E c \in Way(n, l) : \E m \in {k \in Active : IsEdge(Last(c), k)} \ ToSet(c) :
                d = Append(c, m)
  <2>0. (n + 1) - 1 = n
    OBVIOUS
  <2>1. /\ d \in [1 .. n + 1 -> Active] /\ d[1] = l
        /\ \A i, j \in 1 .. n + 1 : d[i] = d[j] => i = j
        /\ \A i \in 1 .. n : IsEdge(d[i], d[i + 1])
    BY <1>2, <2>0 DEF Way
  <2>2. PICK c : c = [i \in 1 .. n |-> d[i]]
    OBVIOUS
  <2>3. PICK m \in Active : m = d[n + 1]
    BY <2>1
  <2>4. c \in Way(n, l)
    <3>1. c \in [1 .. n -> Active] /\ c[1] = l /\ \A i \in 1 .. n : c[i] = d[i]
      BY <2>1, <2>2
    <3>2. \A i, j \in 1 .. n : c[i] = c[j] => i = j
      BY <2>1, <3>1
    <3>3. \A i \in 1 .. n - 1 : IsEdge(c[i], c[i + 1])
      <4> SUFFICES ASSUME NEW i \in 1 .. n - 1
                   PROVE  IsEdge(c[i], c[i + 1])
        OBVIOUS
      <4>1. i \in 1 .. n /\ i + 1 \in 1 .. n
        OBVIOUS
      <4> QED
        BY <2>1, <3>1, <4>1
    <3> QED
      BY <3>1, <3>2, <3>3 DEF Way
  <2>5. /\ c \in [1 .. n -> Active] /\ c \in Seq(Active) /\ Len(c) = n
        /\ ToSet(c) = {c[i] : i \in 1 .. n} /\ Last(c) = c[n]
        /\ \A i \in 1 .. n : c[i] = d[i]
    BY <2>2, <2>4, WaySeq DEF Way
  <2>6. m \notin ToSet(c) /\ IsEdge(Last(c), m)
    BY <2>1, <2>3, <2>5
  <2>7. d = Append(c, m)
    BY <2>1, <2>3, <2>5
  <2> QED
    BY <2>3, <2>4, <2>6, <2>7
<1>3. Longer(Way(n, l)) \subseteq Way(n + 1, l)
  <2> SUFFICES ASSUME NEW d \in Longer(Way(n, l))
               PROVE  d \in Way(n + 1, l)
    OBVIOUS
  <2>1. PICK c \in Way(n, l) :
          d \in {Append(c, m) : m \in {k \in Active : IsEdge(Last(c), k)} \ ToSet(c)}
    BY DEF Longer
  <2>2. PICK m \in {k \in Active : IsEdge(Last(c), k)} \ ToSet(c) : d = Append(c, m)
    BY <2>1
  <2> QED
    BY <1>1, <2>2
<1>4. Way(n + 1, l) \subseteq Longer(Way(n, l))
  BY <1>2 DEF Longer
<1> QED
  BY <1>3, <1>4

LEMMA PathsAre ==
    ASSUME NEW l \in Active
    PROVE  Paths(l) = Way(2, l) \cup Way(3, l) \cup Way(4, l)
<1>1. Longer({<<l>>}) = Way(2, l)
  BY OneWay, LongerWays
<1>2. Longer(Way(2, l)) = Way(3, l)
  BY LongerWays
<1>3. Longer(Way(3, l)) = Way(4, l)
  BY LongerWays
<1> QED
  BY <1>1, <1>2, <1>3 DEF Paths

LEMMA NextMember ==
    ASSUME NEW n \in 2 .. 4, NEW i \in 1 .. n
    PROVE  (i % n) + 1 = IF i = n THEN 1 ELSE i + 1
<1>1. n = 2 \/ n = 3 \/ n = 4
  OBVIOUS
<1>2. i = 1 \/ i = 2 \/ i = 3 \/ i = 4
  OBVIOUS
<1> QED
  BY <1>1, <1>2

(* A swap is a way that an edge to its first member closes.                *)
LEMMA SwapIsWay ==
    ASSUME NEW l \in Active, NEW n \in 2 .. 4, NEW c \in [1 .. n -> Active]
    PROVE  c \in Swaps(l) <=> c \in Way(n, l) /\ IsEdge(c[n], l)
<1>0. n \in Nat /\ DOMAIN c = 1 .. n /\ Len(c) = n
  BY WaySeq
<1>1. c \in UNION {[1 .. k -> Active] : k \in 2 .. 4}
  OBVIOUS
<1>2. c \in Swaps(l) <=> /\ c[1] = l
                         /\ \A i, j \in 1 .. n : c[i] = c[j] => i = j
                         /\ \A i \in 1 .. n : IsEdge(c[i], c[(i % n) + 1])
  BY <1>0, <1>1 DEF Swaps, IsInjective
<1>3. ASSUME c[1] = l
      PROVE  (\A i \in 1 .. n : IsEdge(c[i], c[(i % n) + 1]))
             <=> (\A i \in 1 .. n - 1 : IsEdge(c[i], c[i + 1])) /\ IsEdge(c[n], l)
  <2>1. \A i \in 1 .. n - 1 : i \in 1 .. n /\ (i % n) + 1 = i + 1
    BY <1>0, NextMember
  <2>2. n \in 1 .. n /\ (n % n) + 1 = 1
    BY <1>0, NextMember
  <2>3. \A i \in 1 .. n : i \in 1 .. n - 1 \/ i = n
    BY <1>0
  <2> QED
    BY <1>3, <2>1, <2>2, <2>3
<1> QED
  BY <1>2, <1>3 DEF Way

LEMMA SwapLength ==
    ASSUME NEW l, NEW c \in Swaps(l)
    PROVE  \E n \in 2 .. 4 : c \in [1 .. n -> Active] /\ Len(c) = n
<1>1. PICK n \in 2 .. 4 : c \in [1 .. n -> Active]
  BY DEF Swaps
<1> QED
  BY <1>1, WaySeq

LEMMA CyclesAreSwaps ==
    ASSUME NEW l \in Active
    PROVE  FindCyclesFrom(l) = Swaps(l)
<1>1. ASSUME NEW c \in FindCyclesFrom(l)
      PROVE  c \in Swaps(l)
  <2>1. PICK n \in 2 .. 4 : c \in Way(n, l)
    BY <1>1, PathsAre DEF FindCyclesFrom
  <2>2. c \in [1 .. n -> Active] /\ IsEdge(Last(c), l)
    BY <1>1, <2>1 DEF FindCyclesFrom, Way
  <2>3. Last(c) = c[n]
    BY <2>2, WaySeq
  <2> QED
    BY <2>1, <2>2, <2>3, SwapIsWay
<1>2. ASSUME NEW c \in Swaps(l)
      PROVE  c \in FindCyclesFrom(l)
  <2>1. PICK n \in 2 .. 4 : c \in [1 .. n -> Active]
    BY <1>2, SwapLength
  <2>2. c \in Way(n, l) /\ IsEdge(c[n], l)
    BY <1>2, <2>1, SwapIsWay
  <2>3. Last(c) = c[n]
    BY <2>1, WaySeq
  <2>4. c \in Paths(l)
    BY <2>2, PathsAre
  <2> QED
    BY <2>2, <2>3, <2>4 DEF FindCyclesFrom
<1> QED
  BY <1>1, <1>2

LEMMA PairsAreSwaps ==
    ASSUME NEW l \in Active
    PROVE  DirectPairs(l) = {c \in Swaps(l) : Len(c) = 2}
<1>1. ASSUME NEW m \in Active, IsMutual(l, m)
      PROVE  <<l, m>> \in Swaps(l) /\ Len(<<l, m>>) = 2
  <2>1. PICK c : c = <<l, m>>
    OBVIOUS
  <2>2. c \in [1 .. 2 -> Active] /\ c[1] = l /\ c[2] = m /\ Len(c) = 2
    BY <2>1
  <2>3. l # m /\ IsEdge(l, m) /\ IsEdge(m, l)
    BY <1>1 DEF IsMutual, IsEdge
  <2>4. c \in Way(2, l)
    BY <2>2, <2>3 DEF Way
  <2> QED
    BY <2>1, <2>2, <2>3, <2>4, SwapIsWay
<1>2. ASSUME NEW c \in Swaps(l), Len(c) = 2
      PROVE  \E m \in {k \in Active : IsMutual(l, k)} : c = <<l, m>>
  <2>1. c \in [1 .. 2 -> Active]
    BY <1>2, SwapLength
  <2>2. c \in Way(2, l) /\ IsEdge(c[2], l)
    BY <1>2, <2>1, SwapIsWay
  <2>3. c[1] = l /\ IsEdge(c[1], c[2])
    BY <2>2 DEF Way
  <2>4. c[2] \in Active /\ IsMutual(l, c[2]) /\ c = <<l, c[2]>>
    BY <2>1, <2>2, <2>3 DEF IsMutual
  <2> QED
    BY <2>4
<1> QED
  BY <1>1, <1>2 DEF DirectPairs

-----------------------------------------------------------------------------
(* The average of a swap, and the best of some swaps.                      *)

LEMMA AverageBounds ==
    ASSUME TypeOK, NEW n \in 2 .. 4, NEW c \in [1 .. n -> Active]
    PROVE  Average(c) \in 0 .. 115
<1> DEFINE Edge(i) == IF i > n THEN 0 ELSE RankScore(c[i], c[(i % n) + 1])
<1>0. n \in Nat /\ Len(c) = n
  BY WaySeq
<1>1. ASSUME NEW i \in 1 .. 4
      PROVE  Edge(i) \in 0 .. 115 /\ (i > n => Edge(i) = 0)
  <2>1. CASE i > n
    BY <2>1
  <2>2. CASE ~(i > n)
    <3>1. i \in 1 .. n
      BY <1>0, <2>2
    <3>2. (i % n) + 1 \in 1 .. n
      BY <1>0, <3>1, NextMember
    <3>3. c[i] \in Active /\ c[(i % n) + 1] \in Active
      BY <3>1, <3>2
    <3> QED
      BY <2>2, <3>3, RankBounds
  <2> QED
    BY <2>1, <2>2
<1>2. Average(c) = Round(Edge(1) + Edge(2) + Edge(3) + Edge(4), n)
  BY <1>0 DEF Average
<1> HIDE DEF Edge
<1>3. PICK e1, e2, e3, e4 \in 0 .. 115 :
        e1 = Edge(1) /\ e2 = Edge(2) /\ e3 = Edge(3) /\ e4 = Edge(4)
  <2>1. 1 \in 1 .. 4 /\ 2 \in 1 .. 4 /\ 3 \in 1 .. 4 /\ 4 \in 1 .. 4
    OBVIOUS
  <2>2. /\ Edge(1) \in 0 .. 115 /\ Edge(2) \in 0 .. 115
        /\ Edge(3) \in 0 .. 115 /\ Edge(4) \in 0 .. 115
    BY <1>1, <2>1
  <2> QED
    BY <2>2
<1>4. (n < 3 => e3 = 0) /\ (n < 4 => e4 = 0)
  BY <1>0, <1>1, <1>3
<1>5. PICK s \in Nat : s = e1 + e2 + e3 + e4 /\ s <= 115 * n
  <2>1. e1 + e2 + e3 + e4 \in Nat /\ e1 + e2 + e3 + e4 <= 115 * n
    <3>1. n = 2 \/ n = 3 \/ n = 4
      OBVIOUS
    <3> QED
      BY <1>4, <3>1
  <2> QED
    BY <2>1
<1>6. Round(s, n) \in 0 .. 115
  <2>1. CASE n = 2
    BY <1>5, <2>1 DEF Round
  <2>2. CASE n = 3
    BY <1>5, <2>2 DEF Round
  <2>3. CASE n = 4
    BY <1>5, <2>3 DEF Round
  <2> QED
    BY <2>1, <2>2, <2>3
<1> QED
  BY <1>2, <1>3, <1>5, <1>6

LEMMA BestOf ==
    ASSUME NEW S, S # {}, \A c \in S : Average(c) \in 0 .. 115
    PROVE  Best(S) # {} /\ Best(S) \subseteq S
<1> DEFINE T == {115 - Average(c) : c \in S}
<1>1. T \subseteq Nat /\ T # {}
  OBVIOUS
<1>2. PICK x \in T : \A y \in T : ~(<<y, x>> \in OpToRel(<, Nat))
  BY <1>1, NatLessThanWellFounded, WFMin
<1>3. \A y \in T : ~(y < x)
  BY <1>1, <1>2 DEF OpToRel
<1>4. PICK c \in S : x = 115 - Average(c)
  OBVIOUS
<1>5. ASSUME NEW d \in S
      PROVE  Average(d) <= Average(c)
  <2>1. PICK a, b \in 0 .. 115 : a = Average(c) /\ b = Average(d)
    OBVIOUS
  <2>2. ~(115 - b < 115 - a)
    BY <1>3, <1>4, <2>1
  <2> QED
    BY <2>1, <2>2
<1> QED
  BY <1>5 DEF Best

LEMMA ShortestOf ==
    ASSUME NEW S, S # {}, \A c \in S : Len(c) \in {3, 4}
    PROVE  Shortest(S) # {} /\ Shortest(S) \subseteq S
<1>1. CASE \E c \in S : Len(c) = 3
  BY <1>1 DEF Shortest
<1>2. CASE \A c \in S : Len(c) = 4
  BY <1>2 DEF Shortest
<1> QED
  BY <1>1, <1>2

(* What a run may take: a swap when there is one, and then one that none   *)
(* beats.                                                                  *)
LEMMA PicksAreBest ==
    ASSUME TypeOK, NEW l \in Active
    PROVE  /\ Picks(l) = {} <=> Swaps(l) = {}
           /\ \A c \in Picks(l) :
                 /\ c \in Swaps(l)
                 /\ \A d \in Swaps(l) : ~Beats(Worth(d), Worth(c))
<1>1. ASSUME NEW c \in Swaps(l)
      PROVE  /\ Len(c) \in {2, 3, 4} /\ Len(c) \in Nat
             /\ 2 <= Len(c) /\ (Len(c) # 2 => Len(c) >= 3)
             /\ Average(c) \in 0 .. 115 /\ Average(c) \in Nat
  <2>1. PICK n \in 2 .. 4 : c \in [1 .. n -> Active] /\ Len(c) = n
    BY <1>1, SwapLength
  <2>2. PICK a \in 0 .. 115 : a = Average(c)
    BY <2>1, AverageBounds
  <2>3. n \in {2, 3, 4} /\ 2 <= n /\ (n # 2 => n >= 3) /\ n \in Nat /\ a \in Nat
    OBVIOUS
  <2> QED
    BY <2>1, <2>2, <2>3
<1>2. ASSUME NEW c \in Swaps(l), NEW d \in Swaps(l), Len(c) <= Len(d),
             Len(d) = Len(c) => Average(d) <= Average(c)
      PROVE  ~Beats(Worth(d), Worth(c))
  <2>1. PICK m, n, a, b \in Nat :
          m = Len(c) /\ n = Len(d) /\ a = Average(c) /\ b = Average(d)
    <3>1. Len(c) \in Nat /\ Average(c) \in Nat
      BY <1>1, <1>2
    <3>2. Len(d) \in Nat /\ Average(d) \in Nat
      BY <1>1, <1>2
    <3> QED
      BY <3>1, <3>2
  <2>2. ~(n < m \/ (n = m /\ b > a))
    BY <1>2, <2>1
  <2>3. /\ Worth(c).length = m /\ Worth(c).average = a
        /\ Worth(d).length = n /\ Worth(d).average = b
    BY <2>1 DEF Worth
  <2> QED
    BY <2>2, <2>3 DEF Beats
<1>3. CASE DirectPairs(l) # {}
  <2>1. Picks(l) = Best(DirectPairs(l))
    BY <1>3 DEF Picks
  <2>2. /\ Best(DirectPairs(l)) # {}
        /\ Best(DirectPairs(l)) \subseteq DirectPairs(l)
    BY <1>1, <1>3, PairsAreSwaps, BestOf
  <2>3. ASSUME NEW c \in Picks(l), NEW d \in Swaps(l)
        PROVE  ~Beats(Worth(d), Worth(c))
    <3>1. Len(c) = 2 /\ c \in Swaps(l)
      BY <2>1, <2>2, <2>3, PairsAreSwaps
    <3>2. Len(d) = 2 => Average(d) <= Average(c)
      BY <2>1, <2>3, PairsAreSwaps DEF Best
    <3>3. Len(c) <= Len(d)
      BY <1>1, <2>3, <3>1
    <3> QED
      BY <1>2, <2>3, <3>1, <3>2, <3>3
  <2> QED
    BY <2>1, <2>2, <2>3, PairsAreSwaps
<1>4. CASE DirectPairs(l) = {}
  <2>1. Rings(l) = Swaps(l)
    <3>1. \A c \in Swaps(l) : Len(c) >= 3
      BY <1>1, <1>4, PairsAreSwaps
    <3> QED
      BY <3>1, CyclesAreSwaps DEF Rings
  <2>2. Picks(l) = Best(Shortest(Swaps(l)))
    BY <1>4, <2>1 DEF Picks
  <2>3. \A c \in Swaps(l) : Len(c) \in {3, 4}
    BY <1>1, <1>4, PairsAreSwaps
  <2>4. CASE Swaps(l) = {}
    <3>1. Picks(l) = {}
      BY <2>2, <2>4 DEF Best, Shortest
    <3> QED
      BY <2>4, <3>1
  <2>5. CASE Swaps(l) # {}
    <3>1. /\ Shortest(Swaps(l)) # {}
          /\ Shortest(Swaps(l)) \subseteq Swaps(l)
      BY <2>3, <2>5, ShortestOf
    <3>2. /\ Best(Shortest(Swaps(l))) # {}
          /\ Best(Shortest(Swaps(l))) \subseteq Shortest(Swaps(l))
      BY <1>1, <3>1, BestOf
    <3>3. ASSUME NEW c \in Picks(l), NEW d \in Swaps(l)
          PROVE  ~Beats(Worth(d), Worth(c))
      <4>1. c \in Shortest(Swaps(l)) /\ c \in Swaps(l)
        BY <2>2, <3>1, <3>2, <3>3
      <4>2. Len(c) <= Len(d)
        BY <3>3, <4>1 DEF Shortest
      <4>3. ASSUME Len(d) = Len(c)
            PROVE  Average(d) <= Average(c)
        <5>1. d \in Shortest(Swaps(l))
          BY <3>3, <4>1, <4>3 DEF Shortest
        <5> QED
          BY <2>2, <3>3, <5>1 DEF Best
      <4> QED
        BY <1>2, <3>3, <4>1, <4>2, <4>3
    <3> QED
      BY <2>2, <2>5, <3>1, <3>2, <3>3
  <2> QED
    BY <2>4, <2>5
<1> QED
  BY <1>3, <1>4

-----------------------------------------------------------------------------
(* A swap read from its second member on is a swap of that member, with    *)
(* the same edges.                                                         *)

LEMMA RankIsInt ==
    ASSUME TypeOK
    PROVE  \A l, m \in Active : RankScore(l, m) \in Int
BY RankBounds

LEMMA AverageOf ==
    ASSUME TypeOK, NEW n \in 2 .. 4, NEW c \in [1 .. n -> Active]
    PROVE  /\ n = 2 => Average(c) = Round(RankScore(c[1], c[2]) + RankScore(c[2], c[1]), 2)
           /\ n = 3 => Average(c) = Round(RankScore(c[1], c[2]) + RankScore(c[2], c[3])
                                            + RankScore(c[3], c[1]), 3)
           /\ n = 4 => Average(c) = Round(RankScore(c[1], c[2]) + RankScore(c[2], c[3])
                                            + RankScore(c[3], c[4]) + RankScore(c[4], c[1]), 4)
<1>0. Len(c) = n
  BY WaySeq
<1>1. CASE n = 2
  <2>1. PICK r, s \in Int : r = RankScore(c[1], c[2]) /\ s = RankScore(c[2], c[1])
    BY <1>1, RankIsInt
  <2>2. Average(c) = Round(RankScore(c[1], c[2]) + RankScore(c[2], c[1]) + 0 + 0, 2)
    BY <1>0, <1>1 DEF Average
  <2>3. r + s + 0 + 0 = r + s
    OBVIOUS
  <2> QED
    BY <1>1, <2>1, <2>2, <2>3
<1>2. CASE n = 3
  <2>1. PICK r, s, t \in Int : /\ r = RankScore(c[1], c[2])
                              /\ s = RankScore(c[2], c[3])
                              /\ t = RankScore(c[3], c[1])
    <3>1. c[1] \in Active /\ c[2] \in Active /\ c[3] \in Active
      BY <1>2
    <3>2. /\ RankScore(c[1], c[2]) \in Int /\ RankScore(c[2], c[3]) \in Int
          /\ RankScore(c[3], c[1]) \in Int
      BY <3>1, RankIsInt
    <3> QED
      BY <3>2
  <2>2. Average(c) = Round(RankScore(c[1], c[2]) + RankScore(c[2], c[3])
                             + RankScore(c[3], c[1]) + 0, 3)
    BY <1>0, <1>2 DEF Average
  <2>3. r + s + t + 0 = r + s + t
    OBVIOUS
  <2> QED
    BY <1>2, <2>1, <2>2, <2>3
<1>3. CASE n = 4
  BY <1>0, <1>3 DEF Average
<1> QED
  BY <1>1, <1>2, <1>3

LEMMA Turned ==
    ASSUME TypeOK, NEW n \in 2 .. 4, NEW l \in Active,
           NEW c \in [1 .. n -> Active], c \in Swaps(l)
    PROVE  \E d \in [1 .. n -> Active] :
              /\ d \in Swaps(c[2])
              /\ Average(d) = Average(c)
              /\ \A i \in 1 .. n - 1 : d[i] = c[i + 1]
<1> DEFINE e == [i \in 1 .. n |-> c[(i % n) + 1]]
<1>0. /\ \A i \in 1 .. n : (i % n) + 1 = IF i = n THEN 1 ELSE i + 1
      /\ n \in 1 .. n /\ 1 \in 1 .. n /\ 2 \in 1 .. n
      /\ \A i \in 1 .. n - 1 : i \in 1 .. n /\ i + 1 \in 1 .. n /\ i # n
      /\ \A i \in 1 .. n : i = n \/ i \in 1 .. n - 1
  BY NextMember
<1>1. PICK d \in [1 .. n -> Active] : d = e
  <2>1. \A i \in 1 .. n : (i % n) + 1 \in 1 .. n
    BY <1>0
  <2> QED
    BY <2>1
<1>2. /\ d[n] = c[1]
      /\ \A i \in 1 .. n - 1 : d[i] = c[i + 1]
  BY <1>0, <1>1
<1> HIDE DEF e
<1>3. c \in Way(n, l) /\ IsEdge(c[n], l)
  BY SwapIsWay
<1>4. /\ c[1] = l /\ c[2] \in Active
      /\ \A i, j \in 1 .. n : c[i] = c[j] => i = j
      /\ \A i \in 1 .. n - 1 : IsEdge(c[i], c[i + 1])
      /\ IsEdge(c[n], c[1])
  BY <1>0, <1>3 DEF Way
<1>5. CASE n = 2
  <2>1. d[1] = c[2] /\ d[2] = c[1]
    BY <1>2, <1>5
  <2>2. d \in Swaps(c[2])
    <3>1. IsEdge(c[1], c[2]) /\ IsEdge(c[2], c[1]) /\ c[1] # c[2]
      BY <1>4, <1>5
    <3>2. d \in Way(2, c[2]) /\ IsEdge(d[2], c[2])
      BY <1>5, <2>1, <3>1 DEF Way
    <3> QED
      BY <1>4, <1>5, <3>2, SwapIsWay
  <2>3. Average(d) = Average(c)
    <3>1. PICK r, s \in Int : r = RankScore(c[1], c[2]) /\ s = RankScore(c[2], c[1])
      BY <1>5, RankIsInt
    <3>2. Average(c) = Round(r + s, 2) /\ Average(d) = Round(s + r, 2)
      BY <1>5, <2>1, <3>1, AverageOf
    <3>3. r + s = s + r
      OBVIOUS
    <3> QED
      BY <3>2, <3>3
  <2> QED
    BY <1>2, <2>2, <2>3
<1>6. CASE n = 3
  <2>1. d[1] = c[2] /\ d[2] = c[3] /\ d[3] = c[1]
    BY <1>2, <1>6
  <2>2. d \in Swaps(c[2])
    <3>1. /\ IsEdge(c[1], c[2]) /\ IsEdge(c[2], c[3]) /\ IsEdge(c[3], c[1])
          /\ c[1] # c[2] /\ c[2] # c[3] /\ c[3] # c[1]
      BY <1>4, <1>6
    <3>2. d \in Way(3, c[2]) /\ IsEdge(d[3], c[2])
      BY <1>6, <2>1, <3>1 DEF Way
    <3> QED
      BY <1>4, <1>6, <3>2, SwapIsWay
  <2>3. Average(d) = Average(c)
    <3>1. PICK r, s, t \in Int : /\ r = RankScore(c[1], c[2])
                                /\ s = RankScore(c[2], c[3])
                                /\ t = RankScore(c[3], c[1])
      <4>1. c[1] \in Active /\ c[2] \in Active /\ c[3] \in Active
        BY <1>6
      <4>2. /\ RankScore(c[1], c[2]) \in Int /\ RankScore(c[2], c[3]) \in Int
            /\ RankScore(c[3], c[1]) \in Int
        BY <4>1, RankIsInt
      <4> QED
        BY <4>2
    <3>2. Average(c) = Round(r + s + t, 3) /\ Average(d) = Round(s + t + r, 3)
      BY <1>6, <2>1, <3>1, AverageOf
    <3>3. r + s + t = s + t + r
      OBVIOUS
    <3> QED
      BY <3>2, <3>3
  <2> QED
    BY <1>2, <2>2, <2>3
<1>7. CASE n = 4
  <2>1. d[1] = c[2] /\ d[2] = c[3] /\ d[3] = c[4] /\ d[4] = c[1]
    BY <1>2, <1>7
  <2>2. d \in Swaps(c[2])
    <3>1. /\ IsEdge(c[1], c[2]) /\ IsEdge(c[2], c[3])
          /\ IsEdge(c[3], c[4]) /\ IsEdge(c[4], c[1])
          /\ c[1] # c[2] /\ c[1] # c[3] /\ c[1] # c[4]
          /\ c[2] # c[3] /\ c[2] # c[4] /\ c[3] # c[4]
      BY <1>4, <1>7
    <3>2. d \in Way(4, c[2]) /\ IsEdge(d[4], c[2])
      BY <1>7, <2>1, <3>1 DEF Way
    <3> QED
      BY <1>4, <1>7, <3>2, SwapIsWay
  <2>3. Average(d) = Average(c)
    <3>1. PICK r, s, t, u \in Int : /\ r = RankScore(c[1], c[2])
                                   /\ s = RankScore(c[2], c[3])
                                   /\ t = RankScore(c[3], c[4])
                                   /\ u = RankScore(c[4], c[1])
      <4>1. c[1] \in Active /\ c[2] \in Active /\ c[3] \in Active /\ c[4] \in Active
        BY <1>7
      <4>2. /\ RankScore(c[1], c[2]) \in Int /\ RankScore(c[2], c[3]) \in Int
            /\ RankScore(c[3], c[4]) \in Int /\ RankScore(c[4], c[1]) \in Int
        BY <4>1, RankIsInt
      <4> QED
        BY <4>2
    <3>2. Average(c) = Round(r + s + t + u, 4) /\ Average(d) = Round(s + t + u + r, 4)
      BY <1>7, <2>1, <3>1, AverageOf
    <3>3. r + s + t + u = s + t + u + r
      OBVIOUS
    <3> QED
      BY <3>2, <3>3
  <2> QED
    BY <1>2, <2>2, <2>3
<1> QED
  BY <1>5, <1>6, <1>7

LEMMA EachHasTheSwap ==
    ASSUME TypeOK, NEW n \in 2 .. 4, NEW l \in Active,
           NEW c \in [1 .. n -> Active], c \in Swaps(l), NEW k \in 1 .. n
    PROVE  \E d \in [1 .. n -> Active] : d \in Swaps(c[k]) /\ Average(d) = Average(c)
<1>0. c[1] = l /\ \A i \in 1 .. n : c[i] \in Active
  BY SwapIsWay DEF Way
<1>1. PICK d \in [1 .. n -> Active] : /\ d \in Swaps(c[2]) /\ Average(d) = Average(c)
                                      /\ \A i \in 1 .. n - 1 : d[i] = c[i + 1]
  BY Turned
<1>2. CASE k = 1
  BY <1>0, <1>2
<1>3. CASE k = 2
  BY <1>1, <1>3
<1>4. CASE k >= 3
  <2>1. n >= 3 /\ 2 \in 1 .. n /\ c[2] \in Active
    BY <1>0, <1>4
  <2>2. PICK e \in [1 .. n -> Active] : /\ e \in Swaps(d[2]) /\ Average(e) = Average(d)
                                        /\ \A i \in 1 .. n - 1 : e[i] = d[i + 1]
    BY <1>1, <2>1, Turned
  <2>3. d[2] = c[3]
    BY <1>1, <2>1
  <2>4. CASE k = 3
    BY <1>1, <2>2, <2>3, <2>4
  <2>5. CASE k = 4
    <3>1. n = 4 /\ c[3] \in Active
      BY <1>0, <2>5
    <3>2. PICK f \in [1 .. n -> Active] : f \in Swaps(e[2]) /\ Average(f) = Average(e)
      BY <2>2, <2>3, <3>1, Turned
    <3>3. e[2] = c[4]
      BY <1>1, <2>2, <3>1
    <3> QED
      BY <1>1, <2>2, <2>5, <3>2, <3>3
  <2> QED
    BY <1>4, <2>4, <2>5
<1> QED
  BY <1>2, <1>3, <1>4

-----------------------------------------------------------------------------
(* The steps.                                                              *)

LEMMA SameSwaps ==
    ASSUME UNCHANGED <<home, score>>
    PROVE  /\ \A l, m : RankScore(l, m)' = RankScore(l, m)
           /\ \A c : Average(c)' = Average(c)
           /\ \A l : Swaps(l)' = Swaps(l)
<1>1. ASSUME NEW l, NEW m
      PROVE  RankScore(l, m)' = RankScore(l, m)
  BY SameGraph DEF RankScore, TotalScore
<1>2. ASSUME NEW c
      PROVE  Average(c)' = Average(c)
  BY <1>1 DEF Average
<1>3. ASSUME NEW l
      PROVE  Swaps(l)' = Swaps(l)
  BY SameGraph DEF Swaps
<1> QED
  BY <1>1, <1>2, <1>3

LEMMA RunStep ==
    ASSUME TypeOK, NEW l \in Listings, RunForListing(l)
    PROVE  /\ UNCHANGED <<home, score>> /\ l \in Active
           /\ found'.by = l /\ found'.avg \in Nat
           /\ IF Swaps(l) = {} THEN found'.cycle = <<>>
              ELSE /\ found'.cycle \in Swaps(l)
                   /\ found'.avg = Average(found'.cycle)
                   /\ \A c \in Swaps(l) : ~Beats(Worth(c), Worth(found'.cycle))
<1>0. UNCHANGED <<home, score>> /\ l \in Active
  BY DEF RunForListing
<1>1. CASE Picks(l) = {}
  <2>1. found' = [by |-> l, cycle |-> <<>>, avg |-> 0]
    BY <1>1 DEF RunForListing
  <2>2. Swaps(l) = {}
    BY <1>0, <1>1, PicksAreBest
  <2> QED
    BY <1>0, <2>1, <2>2
<1>2. CASE Picks(l) # {}
  <2>1. PICK c \in Picks(l) : found' = [by |-> l, cycle |-> c, avg |-> Average(c)]
    BY <1>2 DEF RunForListing
  <2>2. c \in Swaps(l) /\ \A d \in Swaps(l) : ~Beats(Worth(d), Worth(c))
    BY <1>0, PicksAreBest
  <2>3. Average(c) \in Nat
    BY <2>2, SwapLength, AverageBounds
  <2> QED
    BY <1>0, <2>1, <2>2, <2>3
<1> QED
  BY <1>1, <1>2

(* Each score and home has its type, and what a run found is of an ACTIVE  *)
(* listing: the invariant the other proofs rest on.                        *)
THEOREM TypeCorrect == Spec => []TypeOK
<1>1. Init => TypeOK
  BY ScoresAssumption DEF Init, TypeOK
<1>2. TypeOK /\ [Next]_vars => TypeOK'
  <2> SUFFICES ASSUME TypeOK, [Next]_vars
               PROVE  TypeOK'
    OBVIOUS
  <2>1. ASSUME NEW l \in Listings, RunForListing(l)
        PROVE  TypeOK'
    <3>1. /\ UNCHANGED <<home, score>> /\ l \in Active
          /\ found'.by = l /\ found'.avg \in Nat
      BY <2>1, RunStep
    <3>2. Active' = Active
      BY <3>1, SameGraph
    <3> QED
      BY <3>1, <3>2 DEF TypeOK
  <2>2. ASSUME NEW l \in Listings, NEW h \in Homes, CreateListing(l, h)
        PROVE  TypeOK'
    BY <2>2 DEF CreateListing, TypeOK
  <2>3. ASSUME NEW l \in Listings, EndListing(l)
        PROVE  TypeOK'
    BY <2>3 DEF EndListing, TypeOK
  <2>4. ASSUME NEW l \in Listings, NEW s \in ReliabilityScores, Penalise(l, s)
        PROVE  TypeOK'
    BY <2>4 DEF Penalise, TypeOK
  <2>5. CASE UNCHANGED vars
    BY <2>5 DEF vars, TypeOK, Active
  <2> QED
    BY <2>1, <2>2, <2>3, <2>4, <2>5 DEF Next
<1> QED
  BY <1>1, <1>2, PTL DEF Spec

(* What a run of runForListing leaves is a swap of the listing if it has   *)
(* one, and no other of its swaps has fewer members or, of as many, a      *)
(* better average: the search, its limit of four and the order of its      *)
(* choice lose none.                                                       *)
THEOREM RunsFindBestSwap == Spec => []FindsBestSwap
<1>1. Init => FindsBestSwap
  BY DEF Init, FindsBestSwap
<1>2. TypeOK /\ FindsBestSwap /\ [Next]_vars => FindsBestSwap'
  <2> SUFFICES ASSUME TypeOK, FindsBestSwap, [Next]_vars
               PROVE  FindsBestSwap'
    OBVIOUS
  <2>1. ASSUME NEW l \in Listings, RunForListing(l)
        PROVE  FindsBestSwap'
    <3>1. UNCHANGED <<home, score>> /\ found'.by = l
      BY <2>1, RunStep
    <3>2. /\ \A c : Average(c)' = Average(c) /\ Worth(c)' = Worth(c)
          /\ Swaps(l)' = Swaps(l)
      BY <3>1, SameSwaps DEF Worth
    <3>3. FindsBestSwap' <=>
            (found' # Null =>
               IF Swaps(l)' = {} THEN found'.cycle = <<>>
               ELSE /\ found'.cycle \in Swaps(l)'
                    /\ found'.avg = Average(found.cycle)'
                    /\ \A c \in Swaps(l)' : ~Beats(Worth(c), Worth(found.cycle))')
      BY <3>1 DEF FindsBestSwap
    <3> QED
      BY <2>1, <3>2, <3>3, RunStep
  <2>2. CASE found' = Null
    BY <2>2 DEF FindsBestSwap
  <2>3. CASE UNCHANGED vars
    <3>1. /\ \A c : Average(c)' = Average(c) /\ Worth(c)' = Worth(c)
          /\ \A l : Swaps(l)' = Swaps(l)
          /\ found' = found
      BY <2>3, SameSwaps DEF Worth, vars
    <3> QED
      BY <3>1 DEF FindsBestSwap, Beats
  <2>4. CASE \E l \in Listings : \/ \E h \in Homes : CreateListing(l, h)
                                 \/ EndListing(l)
                                 \/ \E s \in ReliabilityScores : Penalise(l, s)
    BY <2>2, <2>4 DEF CreateListing, EndListing, Penalise
  <2> QED
    BY <2>1, <2>3, <2>4 DEF Next
<1> QED
  BY <1>1, <1>2, TypeCorrect, PTL DEF Spec

(* Whichever member of a found chain runs for itself finds one no worse:   *)
(* the chain turned to start with that member is one of its swaps.         *)
THEOREM PartnersAlwaysDoAsWell == Spec => []PartnersDoAsWell
<1>1. TypeOK /\ FindsBestSwap => PartnersDoAsWell
  <2> SUFFICES ASSUME TypeOK, FindsBestSwap, found # Null, found.cycle # <<>>,
                      NEW m \in ToSet(found.cycle)
               PROVE  /\ Picks(m) # {}
                      /\ \A c \in Picks(m) : ~Beats(Worth(found.cycle), Worth(c))
    BY DEF PartnersDoAsWell
  <2>1. found.by \in Active /\ found.cycle \in Swaps(found.by)
    BY DEF TypeOK, FindsBestSwap
  <2>2. PICK n \in 2 .. 4 : found.cycle \in [1 .. n -> Active] /\ Len(found.cycle) = n
    BY <2>1, SwapLength
  <2>3. PICK k \in 1 .. n : m = found.cycle[k]
    BY <2>2, WaySeq
  <2>4. PICK d \in [1 .. n -> Active] : d \in Swaps(m) /\ Average(d) = Average(found.cycle)
    <3>1. PICK l \in Active, c \in [1 .. n -> Active] :
            l = found.by /\ c = found.cycle /\ c \in Swaps(l) /\ m = c[k]
      BY <2>1, <2>2, <2>3
    <3>2. TypeOK /\ n \in 2 .. 4 /\ k \in 1 .. n /\ c \in Swaps(l)
      BY <3>1
    <3>3. \E d \in [1 .. n -> Active] : d \in Swaps(c[k]) /\ Average(d) = Average(c)
      <4> HIDE DEF TypeOK, FindsBestSwap
      <4> QED
        BY <3>2, EachHasTheSwap
    <3> QED
      BY <3>1, <3>3
  <2>5. Worth(d) = Worth(found.cycle)
    <3>1. Len(d) = n
      BY <2>4, WaySeq
    <3> QED
      BY <2>2, <2>4, <3>1 DEF Worth
  <2>6. m \in Active
    BY <2>2, <2>3
  <2> QED
    BY <2>4, <2>5, <2>6, PicksAreBest
<1> QED
  BY <1>1, TypeCorrect, RunsFindBestSwap, PTL

(* A penalty never raises a rank, changes only those of the edges to the   *)
(* penalised, and takes no edge away.                                      *)
THEOREM PenaltyAlwaysLowers == Spec => PenaltyOnlyLowers
<1> DEFINE A == \A p \in Listings, s \in ReliabilityScores : Penalise(p, s) =>
                   \A l, m \in Active :
                       /\ IsEdge(l, m)' <=> IsEdge(l, m)
                       /\ IsEdge(l, m) =>
                             IF m = p THEN RankScore(l, m)' <= RankScore(l, m)
                             ELSE RankScore(l, m)' = RankScore(l, m)
<1>1. TypeOK => A
  BY PenaltyStep
<1> HIDE DEF A
<1>2. []TypeOK => [][A]_vars
  BY <1>1, PTL
<1>3. [][A]_vars => PenaltyOnlyLowers
  BY DEF PenaltyOnlyLowers, A
<1> QED
  BY <1>2, <1>3, TypeCorrect, PTL

=============================================================================
