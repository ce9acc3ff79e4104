----------------------------- MODULE Scoring_proofs -----------------------------
(***************************************************************************)
(* Proofs about the scores, for all features, weights and lists of valid   *)
(* points: the scoring functions stay in their range and more of a feature *)
(* is never less of a score; no step of a candidate's appraisal counts     *)
(* against it; and, for any candidates, evidence, versions and limits,     *)
(* that a discovery run recommends the best of what it scored.             *)
(***************************************************************************)
EXTENDS Ranking, Appraisal, FiniteSetTheorems, SequenceTheorems, WellFoundedInduction, TLAPS

-----------------------------------------------------------------------------
(* The scoring functions, and what a cost does to the margin.              *)

LEMMA HundredType == Hundred \in Nat
BY DEF Hundred

(* Rounding half up stays between the whole numbers its argument does, and *)
(* keeps the order of its arguments.                                       *)
LEMMA HalfUpBounds ==
    ASSUME NEW n \in Int, NEW d \in Nat \ {0}, NEW a \in Int, NEW b \in Int,
           a * d <= n, n <= b * d
    PROVE  HalfUp(n, d) \in Int /\ a <= HalfUp(n, d) /\ HalfUp(n, d) <= b
<1> DEFINE q == (2 * n + d) \div (2 * d)
<1>1. 2 * d > 0 /\ 2 * d \in Int /\ 2 * n + d \in Int  OBVIOUS
<1>2. q \in Int /\ (2 * d) * q <= 2 * n + d /\ 2 * n + d < (2 * d) * q + 2 * d
  BY <1>1, Z3
<1>3. a <= q
  <2>1. SUFFICES ASSUME q <= a - 1 PROVE FALSE  BY <1>2
  <2>2. d * q <= d * (a - 1)  BY <2>1, <1>2
  <2> QED  BY <1>2, <2>2
<1>4. q <= b
  <2>1. SUFFICES ASSUME b + 1 <= q PROVE FALSE  BY <1>2
  <2>2. d * (b + 1) <= d * q  BY <2>1, <1>2
  <2> QED  BY <1>2, <2>2
<1> QED  BY <1>2, <1>3, <1>4 DEF HalfUp

LEMMA HalfUpMonotone ==
    ASSUME NEW n \in Int, NEW m \in Int, NEW d \in Nat \ {0}, n <= m
    PROVE  HalfUp(n, d) <= HalfUp(m, d)
<1> DEFINE p == (2 * n + d) \div (2 * d)
           q == (2 * m + d) \div (2 * d)
<1>1. 2 * d > 0 /\ 2 * d \in Int  OBVIOUS
<1>2. p \in Int /\ (2 * d) * p <= 2 * n + d  BY <1>1, Z3
<1>3. q \in Int /\ 2 * m + d < (2 * d) * q + 2 * d  BY <1>1, Z3
<1>4. SUFFICES ASSUME q + 1 <= p PROVE FALSE  BY <1>2, <1>3 DEF HalfUp
<1>5. d * (q + 1) <= d * p  BY <1>4, <1>2, <1>3
<1> QED  BY <1>2, <1>3, <1>5

-----------------------------------------------------------------------------
(* _score: whatever the normalizer's sum, what it returns is a score.      *)
THEOREM ScoreIsAScore ==
    ASSUME NEW n \in Int, NEW d \in Nat \ {0}
    PROVE  Score(n, d) \in 0..Hundred
<1> DEFINE c == Clamp(n * Hundred, 0, d * Hundred)
<1>1. c \in Int /\ 0 * d <= c /\ c <= Hundred * d  BY DEF Clamp, Hundred
<1>2. Hundred \in Int  BY DEF Hundred
<1> HIDE DEF c
<1>3. HalfUp(c, d) \in Int /\ 0 <= HalfUp(c, d) /\ HalfUp(c, d) <= Hundred
  BY <1>1, <1>2, HalfUpBounds
<1> QED  BY <1>2, <1>3 DEF Score, c

(* A larger sum of features is never a lower score (_score).               *)
THEOREM ScoreIsMonotone ==
    ASSUME NEW n \in Int, NEW m \in Int, NEW d \in Nat \ {0}, n <= m
    PROVE  Score(n, d) <= Score(m, d)
<1> DEFINE b == Clamp(n * Hundred, 0, d * Hundred)
           c == Clamp(m * Hundred, 0, d * Hundred)
<1>1. b \in Int /\ c \in Int /\ b <= c  BY DEF Clamp, Hundred
<1> HIDE DEF b, c
<1>2. HalfUp(b, d) <= HalfUp(c, d)  BY <1>1, HalfUpMonotone
<1> QED  BY <1>2 DEF Score, b, c

-----------------------------------------------------------------------------
(* Products of larger factors are larger.                                  *)
LEMMA ProductsKeepOrder ==
    ASSUME NEW a \in Nat, NEW b \in Nat, NEW c \in Nat, NEW d \in Nat, a <= b, c <= d
    PROVE  a * c \in Nat /\ b * d \in Nat /\ a * c <= b * d
<1>1. a * c <= b * c  OBVIOUS
<1>2. b * c <= b * d  OBVIOUS
<1>3. a * c \in Nat /\ b * c \in Nat /\ b * d \in Nat  OBVIOUS
<1> QED  BY <1>1, <1>2, <1>3

(* A share of a component: at most its weight's part of a hundred.         *)
LEMMA ShareBounds ==
    ASSUME NEW s \in 0..Hundred, NEW w \in Nat
    PROVE  s * w \in Int /\ 0 <= s * w /\ s * w <= Hundred * w
<1>1. Hundred \in Nat
  BY DEF Hundred
<1>2. s \in Nat /\ s <= Hundred
  BY <1>1
<1>3. w \in Nat /\ w <= w
  OBVIOUS
<1>4. s * w \in Nat /\ s * w <= Hundred * w
  BY <1>1, <1>2, <1>3, ProductsKeepOrder
<1> QED  BY <1>4

LEMMA WeightsAreParts ==
    ASSUME NEW w \in ScoreWeights
    PROVE  Total(w) \in Nat \ {0} /\ \A c \in Components : w[c] \in Nat /\ w[c] <= Total(w)
BY DEF ScoreWeights, Total, Components

(* OpportunityScoreCalculator: with weights that sum to one the final      *)
(* score of any feature scores is a score (CalculatedOpportunityScore      *)
(* accepts it, and Numeric(6, 3) holds it).                                *)
THEOREM FinalScoreIsAScore ==
    ASSUME NEW s \in Scores, NEW w \in ScoreWeights
    PROVE  FinalScore(s, w) \in 0..Hundred
<1> DEFINE share == [c \in Components |-> s[c] * w[c]]
<1>1. \A c \in Components : s[c] \in 0..Hundred /\ w[c] \in Nat
  BY DEF Scores, ScoreWeights
<1>2. \A c \in Components :
         share[c] \in Int /\ 0 <= share[c] /\ share[c] <= Hundred * w[c]
  BY <1>1, ShareBounds
<1> DEFINE whole == Total(w)
<1>0. whole \in Nat \ {0}
  BY WeightsAreParts
<1>3. Total(share) \in Int /\ 0 * whole <= Total(share)
  <2>1. Total(share) \in Int /\ 0 <= Total(share)
    BY <1>2 DEF Total, Components
  <2> HIDE DEF share, whole
  <2> QED  BY <2>1, <1>0
<1>4. Total(share) <= Hundred * whole
  <2> HIDE DEF share
  <2>2. \A c \in Components :
           share[c] \in Int /\ w[c] \in Int /\ share[c] <= 100000 * w[c]
    <3>1. SUFFICES ASSUME NEW c \in Components
                   PROVE  share[c] \in Int /\ w[c] \in Int /\ share[c] <= 100000 * w[c]
      OBVIOUS
    <3>2. w[c] \in Nat  BY <1>1
    <3>3. share[c] \in Int /\ share[c] <= Hundred * w[c]  BY <1>2
    <3> QED  BY <3>2, <3>3 DEF Hundred
  <2>3. Total(share) <= 100000 * Total(w)
    BY <2>2 DEF Total, Components
  <2> QED  BY <2>3 DEF Hundred
<1> HIDE DEF share, whole
<1>5. Hundred \in Int  BY DEF Hundred
<1>6. HalfUp(Total(share), whole) \in Int /\ 0 <= HalfUp(Total(share), whole)
         /\ HalfUp(Total(share), whole) <= Hundred
  BY <1>0, <1>3, <1>4, <1>5, HalfUpBounds
<1> QED  BY <1>5, <1>6 DEF FinalScore, share, whole

(* And it never falls when no component does.                              *)
THEOREM FinalScoreIsMonotone ==
    ASSUME NEW s \in Scores, NEW t \in Scores, NEW w \in ScoreWeights,
           \A c \in Components : s[c] <= t[c]
    PROVE  FinalScore(s, w) <= FinalScore(t, w)
<1> DEFINE before == [c \in Components |-> s[c] * w[c]]
           after == [c \in Components |-> t[c] * w[c]]
<1>1. \A c \in Components :
         s[c] \in Int /\ t[c] \in Int /\ w[c] \in Int /\ 0 <= w[c] /\ s[c] <= t[c]
  <2>1. SUFFICES ASSUME NEW c \in Components
                 PROVE  s[c] \in Int /\ t[c] \in Int /\ w[c] \in Int /\ 0 <= w[c]
    OBVIOUS
  <2>2. s[c] \in 0..Hundred /\ t[c] \in 0..Hundred  BY DEF Scores
  <2>3. w[c] \in Nat  BY DEF ScoreWeights
  <2> QED  BY <2>2, <2>3
<1>2. \A c \in Components : s[c] * w[c] \in Int /\ t[c] * w[c] \in Int
                               /\ s[c] * w[c] <= t[c] * w[c]
  BY <1>1
<1>3. Total(before) \in Int /\ Total(after) \in Int /\ Total(before) <= Total(after)
  BY <1>2 DEF Total, Components
<1> HIDE DEF before, after
<1>4. HalfUp(Total(before), Total(w)) <= HalfUp(Total(after), Total(w))
  BY <1>3, WeightsAreParts, HalfUpMonotone
<1> QED  BY <1>4 DEF FinalScore, before, after

(* A thousandth less of one component costs the final score at most one.   *)
LEMMA FinalScoreLosesNoMore ==
    ASSUME NEW s \in Scores, NEW t \in Scores, NEW w \in ScoreWeights, NEW loss \in {0, 1},
           \A c \in Components \ {"margin"} : s[c] <= t[c],
           s["margin"] <= t["margin"] + loss
    PROVE  FinalScore(s, w) <= FinalScore(t, w) + loss
<1> DEFINE before == [c \in Components |-> s[c] * w[c]]
           after == [c \in Components |-> t[c] * w[c]]
           whole == Total(w)
<1>0. whole \in Nat \ {0}
  BY WeightsAreParts
<1>1. \A c \in Components :
         s[c] \in Nat /\ t[c] \in Nat /\ w[c] \in Nat /\ w[c] <= whole
  <2>1. SUFFICES ASSUME NEW c \in Components
                 PROVE  s[c] \in Nat /\ t[c] \in Nat /\ w[c] \in Nat /\ w[c] <= whole
    OBVIOUS
  <2>2. s[c] \in 0..Hundred /\ t[c] \in 0..Hundred  BY DEF Scores
  <2>3. w[c] \in Nat /\ w[c] <= whole  BY WeightsAreParts
  <2> QED  BY <2>2, <2>3, HundredType
<1>2. \A c \in Components : before[c] \in Nat /\ after[c] \in Nat
  BY <1>1
<1>3. \A c \in Components \ {"margin"} : before[c] <= after[c]
  <2>1. SUFFICES ASSUME NEW c \in Components \ {"margin"} PROVE before[c] <= after[c]
    OBVIOUS
  <2>2. s[c] * w[c] <= t[c] * w[c]
    BY <1>1, ProductsKeepOrder
  <2> QED  BY <2>2
<1>4. before["margin"] <= after["margin"] + whole * loss
  <2>1. "margin" \in Components  BY DEF Components
  <2> DEFINE a == s["margin"]
             b == t["margin"]
             v == w["margin"]
  <2>2. a \in Nat /\ b \in Nat /\ v \in Nat /\ v <= whole /\ a <= b + loss /\ loss \in Nat
        /\ b + loss \in Nat /\ v <= v
    BY <1>1, <2>1
  <2>3. before["margin"] = a * v /\ after["margin"] = b * v
    BY <2>1
  <2> HIDE DEF a, b, v, before, after, whole
  <2>4. a * v <= (b + loss) * v
    BY <2>2, ProductsKeepOrder
  <2>5. (b + loss) * v = b * v + loss * v /\ loss * v <= whole * loss
    BY <1>0, <2>2
  <2>6. a * v \in Nat /\ b * v \in Nat /\ loss * v \in Nat
    BY <2>2
  <2>7. whole * loss \in Nat
    BY <1>0, <2>2
  <2> QED  BY <2>2, <2>3, <2>4, <2>5, <2>6, <2>7
<1> HIDE DEF before, after, whole
<1>5. Total(before) \in Int /\ Total(after) \in Int /\ Total(before) <= Total(after) + whole * loss
  BY <1>0, <1>2, <1>3, <1>4 DEF Total, Components
<1> DEFINE x == Total(before)
           y == Total(after)
<1> HIDE DEF x, y
<1>6. x \in Int /\ y \in Int /\ x <= y + whole * loss /\ y + whole * loss \in Int
  BY <1>0, <1>5 DEF x, y
<1>7. HalfUp(x, whole) <= HalfUp(y + whole * loss, whole)
  BY <1>0, <1>6, HalfUpMonotone
<1>8. HalfUp(y + whole * loss, whole) = HalfUp(y, whole) + loss
  BY <1>0, <1>6 DEF HalfUp
<1> QED  BY <1>7, <1>8 DEF FinalScore, x, y, before, after, whole

-----------------------------------------------------------------------------
(* A quotient is known by the whole numbers around it, and does not change *)
(* when numerator and denominator are multiplied.                          *)
LEMMA HalfUpIs ==
    ASSUME NEW n \in Int, NEW d \in Nat \ {0}, NEW q \in Int,
           (2 * d) * q <= 2 * n + d, 2 * n + d < (2 * d) * q + 2 * d
    PROVE  HalfUp(n, d) = q
<1> DEFINE p == (2 * n + d) \div (2 * d)
<1>1. 2 * d > 0 /\ 2 * d \in Int  OBVIOUS
<1>2. p \in Int /\ (2 * d) * p <= 2 * n + d /\ 2 * n + d < (2 * d) * p + 2 * d
  BY <1>1, Z3
<1> HIDE DEF p
<1>3. ~(p + 1 <= q)
  <2>1. SUFFICES ASSUME p + 1 <= q PROVE FALSE  OBVIOUS
  <2>2. (2 * d) * (p + 1) <= (2 * d) * q  BY <2>1, <1>1, <1>2
  <2>3. (2 * d) * (p + 1) = (2 * d) * p + 2 * d  BY <1>2
  <2> QED  BY <1>2, <2>2, <2>3
<1>4. ~(q + 1 <= p)
  <2>1. SUFFICES ASSUME q + 1 <= p PROVE FALSE  OBVIOUS
  <2>2. (2 * d) * (q + 1) <= (2 * d) * p  BY <2>1, <1>1, <1>2
  <2>3. (2 * d) * (q + 1) = (2 * d) * q + 2 * d  OBVIOUS
  <2> QED  BY <1>2, <2>2, <2>3
<1>5. p = q  BY <1>2, <1>3, <1>4
<1> QED  BY <1>5 DEF HalfUp, p

LEMMA HalfUpScales ==
    ASSUME NEW a \in Int, NEW g \in Nat \ {0}, NEW d \in Nat \ {0}
    PROVE  HalfUp(a * d, g * d) = HalfUp(a, g)
<1> DEFINE q == (2 * a + g) \div (2 * g)
<1>1. 2 * g > 0 /\ 2 * g \in Int  OBVIOUS
<1>2. q \in Int /\ (2 * g) * q <= 2 * a + g /\ 2 * a + g < (2 * g) * q + 2 * g
  BY <1>1, Z3
<1>3. HalfUp(a, g) = q  BY DEF HalfUp
<1> HIDE DEF q
<1> DEFINE low == (2 * g) * q
           mid == 2 * a + g
<1>4. low \in Int /\ mid \in Int /\ low <= mid /\ mid < low + 2 * g /\ mid + 1 <= low + 2 * g
  BY <1>2
<1>5. (2 * (g * d)) * q = low * d /\ 2 * (a * d) + g * d = mid * d
      /\ 2 * (g * d) = (2 * g) * d
  BY <1>2
<1> HIDE DEF low, mid
<1>6. low * d <= mid * d /\ (mid + 1) * d <= (low + 2 * g) * d
  BY <1>1, <1>4
<1>7. (mid + 1) * d = mid * d + d /\ (low + 2 * g) * d = low * d + (2 * g) * d
  BY <1>1, <1>4
<1>8. a * d \in Int /\ g * d \in Nat \ {0} /\ low * d \in Int /\ mid * d \in Int /\ (2 * g) * d \in Int
  BY <1>1, <1>4
<1>9. mid * d < low * d + (2 * g) * d
  BY <1>6, <1>7, <1>8
<1>10. /\ (2 * (g * d)) * q <= 2 * (a * d) + g * d
       /\ 2 * (a * d) + g * d < (2 * (g * d)) * q + 2 * (g * d)
  BY <1>5, <1>6, <1>9
<1> QED  BY <1>2, <1>3, <1>8, <1>10, HalfUpIs

(* The two roundings differ by one, and only on a half.                    *)
LEMMA HalfEvenIsHalfUp ==
    ASSUME NEW n \in Nat, NEW d \in Nat \ {0}
    PROVE  /\ HalfUp(n, d) \in Int /\ HalfEven(n, d) \in Nat
           /\ HalfEven(n, d) = HalfUp(n, d) \/ HalfEven(n, d) = HalfUp(n, d) - 1
           /\ HalfEven(n, d) # HalfUp(n, d) =>
                 2 * (n % d) = d /\ 2 * n + d = (2 * d) * HalfUp(n, d)
<1> DEFINE q == n \div d
           r == n % d
<1>1. q \in Int /\ r \in Int /\ n = d * q + r /\ 0 <= r /\ r < d
  BY Z3
<1>2. q \in Nat
  <2>1. SUFFICES ASSUME q <= -1 PROVE FALSE  BY <1>1
  <2>2. d * q <= d * (-1)  BY <1>1, <2>1
  <2> QED  BY <1>1, <2>2
<1>3. HalfEven(n, d) = IF 2 * r < d \/ (2 * r = d /\ q % 2 = 0) THEN q ELSE q + 1
  BY DEF HalfEven
<1> HIDE DEF q, r
<1>4. d * q \in Int /\ (2 * d) * q = 2 * (d * q) /\ (2 * d) * (q + 1) = 2 * (d * q) + 2 * d
  BY <1>1
<1>5. CASE 2 * r < d
  <2>1. (2 * d) * q <= 2 * n + d /\ 2 * n + d < (2 * d) * q + 2 * d
    BY <1>1, <1>4, <1>5
  <2>2. HalfUp(n, d) = q
    BY <1>1, <2>1, HalfUpIs
  <2> QED  BY <1>2, <1>3, <1>5, <2>2
<1>6. CASE d <= 2 * r
  <2>1. (2 * d) * (q + 1) <= 2 * n + d /\ 2 * n + d < (2 * d) * (q + 1) + 2 * d
    BY <1>1, <1>4, <1>6
  <2>2. q + 1 \in Int
    BY <1>1
  <2>3. HalfUp(n, d) = q + 1
    BY <2>1, <2>2, HalfUpIs
  <2>4. HalfEven(n, d) = q \/ HalfEven(n, d) = q + 1
    BY <1>3
  <2>5. HalfEven(n, d) = q => 2 * r = d
    BY <1>1, <1>2, <1>3, <1>6
  <2>6. 2 * r = d => 2 * n + d = (2 * d) * (q + 1)
    BY <1>1, <1>4
  <2> QED  BY <1>2, <2>3, <2>4, <2>5, <2>6 DEF r
<1> QED  BY <1>1, <1>5, <1>6

LEMMA HalfEvenMonotone ==
    ASSUME NEW n \in Nat, NEW m \in Nat, NEW d \in Nat \ {0}, n <= m
    PROVE  HalfEven(n, d) <= HalfEven(m, d)
<1> DEFINE u == HalfUp(n, d)
           v == HalfUp(m, d)
           e == HalfEven(n, d)
           f == HalfEven(m, d)
<1>1. /\ u \in Int /\ v \in Int /\ e \in Nat /\ f \in Nat /\ e <= u /\ (f = v \/ f = v - 1)
      /\ f # v => 2 * m + d = (2 * d) * v
  <2>1. u \in Int /\ e \in Nat /\ (e = u \/ e = u - 1)
    BY HalfEvenIsHalfUp
  <2>2. /\ v \in Int /\ f \in Nat /\ (f = v \/ f = v - 1)
        /\ f # v => 2 * m + d = (2 * d) * v
    BY HalfEvenIsHalfUp
  <2> HIDE DEF u, v, e, f
  <2>3. e <= u
    BY <2>1
  <2> QED  BY <2>1, <2>2, <2>3
<1>2. u <= v
  BY HalfUpMonotone
<1>3. ASSUME u = v, f # v PROVE n = m
  <2>1. 2 * d > 0 /\ 2 * d \in Int /\ 2 * n + d \in Int  OBVIOUS
  <2>2. (2 * d) * ((2 * n + d) \div (2 * d)) <= 2 * n + d
    BY <2>1, Z3
  <2>3. (2 * d) * u <= 2 * n + d
    BY <2>2 DEF HalfUp
  <2>4. 2 * m + d = (2 * d) * u
    BY <1>1, <1>3
  <2> HIDE DEF u
  <2>5. 2 * m + d <= 2 * n + d
    BY <2>3, <2>4
  <2> QED  BY <2>5
<1> HIDE DEF u, v
<1>4. e <= f
  <2>1. CASE n = m
    BY <2>1, <1>1
  <2>2. CASE n # m
    <3> HIDE DEF e, f
    <3> QED  BY <2>2, <1>1, <1>2, <1>3
  <2> QED  BY <2>1, <2>2
<1> QED  BY <1>4

(* What a point's score is worth in thousandths.                           *)
LEMMA PointScores ==
    ASSUME NEW grain \in Nat \ {0}, NEW point \in MarginPoint(grain)
    PROVE  /\ point.rate \in Int /\ point.score \in Nat
           /\ HalfUp(point.score, grain) \in 0..Hundred
           /\ HalfEven(point.score, grain) \in 0..Hundred
           /\ \/ HalfEven(point.score, grain) = HalfUp(point.score, grain)
              \/ HalfEven(point.score, grain) = HalfUp(point.score, grain) - 1
           /\ HalfEven(point.score, grain) # HalfUp(point.score, grain) =>
                 2 * (point.score % grain) = grain
<1>1. grain * Hundred \in Nat  BY HundredType
<1>2. point.rate \in Int /\ point.score \in 0..(grain * Hundred)  BY DEF MarginPoint
<1>3. point.score \in Nat /\ point.score <= grain * Hundred  BY <1>1, <1>2
<1>4. 0 * grain <= point.score /\ point.score <= Hundred * grain
  BY <1>3, HundredType
<1>5. HalfUp(point.score, grain) \in Int /\ 0 <= HalfUp(point.score, grain)
         /\ HalfUp(point.score, grain) <= Hundred
  BY <1>3, <1>4, HundredType, HalfUpBounds
<1>6. /\ HalfEven(point.score, grain) \in Nat
      /\ \/ HalfEven(point.score, grain) = HalfUp(point.score, grain)
         \/ HalfEven(point.score, grain) = HalfUp(point.score, grain) - 1
      /\ HalfEven(point.score, grain) # HalfUp(point.score, grain) =>
            2 * (point.score % grain) = grain
  BY <1>3, HalfEvenIsHalfUp
<1>7. HalfEven(point.score, grain) <= Hundred
  BY <1>5, <1>6, HundredType
<1> QED  BY <1>2, <1>3, <1>5, <1>6, <1>7, HundredType

(* normalize_margin between two configured points: the interpolated score  *)
(* lies between theirs, rounded half up, so that the pieces meet where     *)
(* they are joined.                                                        *)
THEOREM InterpolationIsSound ==
    ASSUME NEW grain \in Nat \ {0},
           NEW left \in MarginPoint(grain), NEW right \in MarginPoint(grain),
           left.rate < right.rate, left.score <= right.score,
           NEW rate \in left.rate..right.rate
    PROVE  Between(rate, left, right, grain)
               \in HalfUp(left.score, grain)..HalfUp(right.score, grain)
<1> DEFINE d == right.rate - left.rate
           step == rate - left.rate
           rise == right.score - left.score
           n == left.score * d + step * rise
           from == left.score * d
           to == right.score * d
<1>1. d \in Nat \ {0} /\ rise \in Nat /\ step \in 0..d
      /\ left.score \in Nat /\ right.score \in Nat
  BY PointScores
<1>2. step \in Nat /\ step <= d /\ rise <= rise  BY <1>1
<1>3. step * rise \in Nat /\ d * rise \in Nat /\ step * rise <= d * rise
  BY <1>1, <1>2, ProductsKeepOrder
<1>4. right.score = left.score + rise  BY <1>1
<1>5. from \in Int /\ to \in Int /\ to = from + d * rise
  BY <1>1, <1>4
<1>6. n = from + step * rise  OBVIOUS
<1> HIDE DEF from, to, n
<1>7. n \in Int /\ from <= n /\ n <= to  BY <1>3, <1>5, <1>6
<1>8. grain * d \in Nat \ {0}  BY <1>1
<1> DEFINE width == grain * d
<1>9. Between(rate, left, right, grain) = HalfUp(n, width)  BY DEF Between, n
<1>10. HalfUp(from, width) = HalfUp(left.score, grain)
       /\ HalfUp(to, width) = HalfUp(right.score, grain)
  BY <1>1, HalfUpScales DEF from, to
<1>11. width \in Nat \ {0}  BY <1>8
<1> HIDE DEF width
<1>12. HalfUp(from, width) <= HalfUp(n, width) /\ HalfUp(n, width) <= HalfUp(to, width)
  BY <1>5, <1>7, <1>11, HalfUpMonotone
<1>13. HalfUp(n, width) \in Int  BY <1>7, <1>11 DEF HalfUp
<1> QED  BY <1>9, <1>10, <1>12, <1>13, PointScores

(* And it grows with the margin rate, rounding included.                   *)
THEOREM InterpolationIsMonotone ==
    ASSUME NEW grain \in Nat \ {0},
           NEW left \in MarginPoint(grain), NEW right \in MarginPoint(grain),
           left.rate < right.rate, left.score <= right.score,
           NEW rate \in left.rate..right.rate, NEW higher \in left.rate..right.rate,
           rate <= higher
    PROVE  Between(rate, left, right, grain) <= Between(higher, left, right, grain)
<1> DEFINE d == right.rate - left.rate
           rise == right.score - left.score
           step == rate - left.rate
           further == higher - left.rate
           n == left.score * d + step * rise
           m == left.score * d + further * rise
           width == grain * d
<1>1. d \in Nat \ {0} /\ rise \in Nat /\ step \in Nat /\ further \in Nat /\ step <= further
      /\ left.score \in Nat
  BY PointScores
<1>2. step * rise \in Nat /\ further * rise \in Nat /\ step * rise <= further * rise
  <2>1. rise <= rise  BY <1>1
  <2> QED  BY <1>1, <2>1, ProductsKeepOrder
<1>3. left.score * d \in Int /\ width \in Nat \ {0}  BY <1>1
<1>4. n \in Int /\ m \in Int /\ n <= m  BY <1>2, <1>3
<1>5. Between(rate, left, right, grain) = HalfUp(n, width)
      /\ Between(higher, left, right, grain) = HalfUp(m, width)
  BY DEF Between
<1> HIDE DEF n, m, width
<1> QED  BY <1>3, <1>4, <1>5, HalfUpMonotone

(* The curve through all configured points.  A rate between the first and  *)
(* the last point has a leftmost piece: the one that ends at the first     *)
(* point which is not below it.                                            *)
LEMMA LeastIndex ==
    ASSUME NEW T \in SUBSET Nat, T # {}
    PROVE  \E m \in T : \A n \in T : m <= n
<1> DEFINE R == {z \in Nat \X Nat : z[1] < z[2]}
<1>1. IsWellFoundedOn(R, Nat)
  <2>1. R = OpToRel(<, Nat)
    BY DEF OpToRel
  <2> QED  BY <2>1, NatLessThanWellFounded
<1> HIDE DEF R
<1>2. PICK m \in T : \A n \in T : <<n, m>> \notin R
  BY <1>1, WFMin
<1>3. \A n \in T : ~ (n < m)
  BY <1>2 DEF R
<1> QED  BY <1>3

Piece(rate, points, i) ==
    /\ points[i].rate <= rate /\ rate <= points[i + 1].rate
    /\ \A j \in 1..(i - 1) : ~(points[j].rate <= rate /\ rate <= points[j + 1].rate)

LEMMA PointsAreOrdered ==
    ASSUME NEW grain \in Nat \ {0}, NEW points \in Seq(MarginPoint(grain)), ValidPoints(points, grain)
    PROVE  /\ Len(points) \in Nat /\ Len(points) >= 2
           /\ \A i \in 1..Len(points) : points[i] \in MarginPoint(grain) /\ points[i].rate \in Int
           /\ \A i, j \in 1..Len(points) : i < j =>
                  points[i].rate < points[j].rate /\ points[i].score <= points[j].score
<1>1. Len(points) \in Nat /\ DOMAIN points = 1..Len(points)
      /\ \A i \in 1..Len(points) : points[i] \in MarginPoint(grain)
  BY LenProperties, ElementOfSeq
<1>2. \A i \in 1..Len(points) : points[i].rate \in Int
  BY <1>1 DEF MarginPoint
<1> QED  BY <1>1, <1>2 DEF ValidPoints

LEMMA RatesHaveAPiece ==
    ASSUME NEW grain \in Nat \ {0}, NEW points \in Seq(MarginPoint(grain)), ValidPoints(points, grain), NEW rate \in Int,
           points[1].rate < rate, rate < points[Len(points)].rate
    PROVE  \E i \in 1..(Len(points) - 1) :
               Piece(rate, points, i) /\ NormalizeMargin(rate, points, grain) = Between(rate, points[i], points[i + 1], grain)
<1> DEFINE n == Len(points)
           T == {i \in 1..n : rate <= points[i].rate}
<1>1. /\ n \in Nat /\ n >= 2 /\ \A i \in 1..n : points[i].rate \in Int
      /\ \A i, j \in 1..n : i < j => points[i].rate < points[j].rate
  BY PointsAreOrdered
<1>2. n \in T /\ T \subseteq Nat
  BY <1>1
<1>3. PICK m \in T : \A k \in T : m <= k
  BY <1>2, LeastIndex
<1>4. m \in 1..n /\ m # 1 /\ rate <= points[m].rate
  BY <1>1, <1>3
<1>5. \A k \in 1..(m - 1) : points[k].rate < rate
  BY <1>1, <1>3, <1>4
<1>6. m - 1 \in 1..(n - 1) /\ Piece(rate, points, m - 1)
  <2>1. m \in Int /\ m - 1 \in 1..(n - 1) /\ (m - 1) + 1 = m
    BY <1>1, <1>4
  <2>2. points[m - 1].rate \in Int /\ points[m - 1].rate < rate
    BY <1>1, <1>5, <2>1
  <2>3. ASSUME NEW j \in 1..((m - 1) - 1)
        PROVE  ~(points[j].rate <= rate /\ rate <= points[j + 1].rate)
    <3>1. j + 1 \in 1..(m - 1) /\ j + 1 \in 1..n
      BY <1>4, <2>1
    <3>2. points[j + 1].rate \in Int /\ points[j + 1].rate < rate
      BY <1>1, <1>5, <3>1
    <3> QED  BY <3>2
  <2>4. points[m - 1].rate <= rate
    BY <2>2
  <2> QED  BY <1>4, <2>1, <2>3, <2>4 DEF Piece
<1>7. \E i \in 1..(n - 1) : Piece(rate, points, i)
  BY <1>6
<1> DEFINE c == CHOOSE i \in 1..(n - 1) : Piece(rate, points, i)
<1>8. c \in 1..(n - 1) /\ Piece(rate, points, c)
  BY <1>7
<1>9. NormalizeMargin(rate, points, grain) = Between(rate, points[c], points[c + 1], grain)
  <2>1. points[1].rate \in Int /\ points[n].rate \in Int
    BY <1>1
  <2>2. ~(rate <= points[1].rate) /\ ~(rate >= points[n].rate)
    BY <2>1
  <2> QED  BY <2>2 DEF NormalizeMargin, Piece
<1> HIDE DEF c
<1> QED  BY <1>8, <1>9

(* Where a piece begins or ends, rounded half up.                          *)
Joint(points, grain, i) == HalfUp(points[i].score, grain)

LEMMA CurveEnds ==
    ASSUME NEW points, NEW rate, NEW grain
    PROVE  /\ rate <= points[1].rate =>
                 NormalizeMargin(rate, points, grain) = HalfEven(points[1].score, grain)
           /\ ~(rate <= points[1].rate) /\ rate >= points[Len(points)].rate =>
                 NormalizeMargin(rate, points, grain) = HalfEven(points[Len(points)].score, grain)
BY DEF NormalizeMargin

LEMMA JointsRise ==
    ASSUME NEW grain \in Nat \ {0}, NEW points \in Seq(MarginPoint(grain)), ValidPoints(points, grain),
           NEW i \in 1..Len(points), NEW j \in 1..Len(points), i <= j
    PROVE  /\ Joint(points, grain, i) \in 0..Hundred /\ Joint(points, grain, j) \in 0..Hundred
           /\ Joint(points, grain, i) <= Joint(points, grain, j)
           /\ points[i].rate \in Int /\ points[j].rate \in Int
           /\ points[i].rate <= points[j].rate
           /\ i < j => points[i].rate < points[j].rate /\ points[i].score <= points[j].score
<1>1. points[i] \in MarginPoint(grain) /\ points[j] \in MarginPoint(grain)
  BY PointsAreOrdered
<1>2. /\ points[i].rate \in Int /\ points[i].score \in Nat
      /\ points[j].rate \in Int /\ points[j].score \in Nat
      /\ Joint(points, grain, i) \in 0..Hundred /\ Joint(points, grain, j) \in 0..Hundred
  BY <1>1, PointScores DEF Joint
<1>3. CASE i = j
  BY <1>2, <1>3, HundredType
<1>4. CASE i < j
  <2>1. points[i].rate < points[j].rate /\ points[i].score <= points[j].score
    BY <1>4, PointsAreOrdered
  <2>2. Joint(points, grain, i) <= Joint(points, grain, j)
    BY <1>2, <2>1, HalfUpMonotone DEF Joint
  <2> QED  BY <1>2, <2>1, <2>2
<1> QED  BY <1>3, <1>4

(* What a rate's piece says of its score.                                  *)
LEMMA PieceBounds ==
    ASSUME NEW grain \in Nat \ {0}, NEW points \in Seq(MarginPoint(grain)), ValidPoints(points, grain),
           NEW rate \in Int, NEW i \in 1..(Len(points) - 1), Piece(rate, points, i)
    PROVE  /\ i \in 1..Len(points) /\ i + 1 \in 1..Len(points)
           /\ points[i] \in MarginPoint(grain) /\ points[i + 1] \in MarginPoint(grain)
           /\ points[i].rate < points[i + 1].rate /\ points[i].score <= points[i + 1].score
           /\ rate \in points[i].rate..points[i + 1].rate
           /\ Between(rate, points[i], points[i + 1], grain)
                  \in Joint(points, grain, i)..Joint(points, grain, i + 1)
<1>1. Len(points) \in Nat
  BY PointsAreOrdered
<1>2. i \in 1..Len(points) /\ i + 1 \in 1..Len(points) /\ i <= i + 1 /\ i < i + 1
  BY <1>1
<1>3. points[i] \in MarginPoint(grain) /\ points[i + 1] \in MarginPoint(grain)
  BY <1>2, PointsAreOrdered
<1>4. /\ points[i].rate < points[i + 1].rate /\ points[i].score <= points[i + 1].score
      /\ points[i].rate \in Int /\ points[i + 1].rate \in Int
  BY <1>2, JointsRise
<1>5. points[i].rate <= rate /\ rate <= points[i + 1].rate
  BY DEF Piece
<1>6. rate \in points[i].rate..points[i + 1].rate
  BY <1>4, <1>5
<1>7. Between(rate, points[i], points[i + 1], grain)
          \in Joint(points, grain, i)..Joint(points, grain, i + 1)
  BY <1>3, <1>4, <1>6, InterpolationIsSound DEF Joint
<1> QED  BY <1>2, <1>3, <1>4, <1>6, <1>7

LEMMA Chained ==
    ASSUME NEW a \in 0..Hundred, NEW b \in 0..Hundred, NEW c \in 0..Hundred, NEW d \in 0..Hundred,
           a <= b, c <= d, NEW x \in b..c
    PROVE  x \in a..d /\ x \in 0..Hundred
BY HundredType

(* Inside the curve a rate has a piece, and its score lies between those   *)
(* of the first and the last point, rounded half up.                       *)
LEMMA InsideTheCurve ==
    ASSUME NEW grain \in Nat \ {0}, NEW points \in Seq(MarginPoint(grain)), ValidPoints(points, grain),
           NEW rate \in Int, points[1].rate < rate, rate < points[Len(points)].rate
    PROVE  /\ NormalizeMargin(rate, points, grain)
                  \in Joint(points, grain, 1)..Joint(points, grain, Len(points))
           /\ NormalizeMargin(rate, points, grain) \in 0..Hundred
<1> DEFINE n == Len(points)
           score == NormalizeMargin(rate, points, grain)
           J(i) == Joint(points, grain, i)
<1>1. n \in Nat /\ 1 \in 1..n /\ n \in 1..n /\ 1 <= n
  BY PointsAreOrdered
<1>2. PICK i \in 1..(n - 1) :
          Piece(rate, points, i) /\ score = Between(rate, points[i], points[i + 1], grain)
  BY RatesHaveAPiece
<1>3. i \in 1..n /\ i + 1 \in 1..n /\ score \in J(i)..J(i + 1)
  BY <1>2, PieceBounds
<1>4. 1 <= i /\ i + 1 <= n
  BY <1>1, <1>2
<1>5. J(1) <= J(i) /\ J(1) \in 0..Hundred /\ J(i) \in 0..Hundred
  BY <1>1, <1>3, <1>4, JointsRise
<1>6. J(i + 1) <= J(n) /\ J(i + 1) \in 0..Hundred /\ J(n) \in 0..Hundred
  BY <1>1, <1>3, <1>4, JointsRise
<1> HIDE DEF score, n, J
<1>7. score \in J(1)..J(n) /\ score \in 0..Hundred
  BY <1>3, <1>5, <1>6, Chained
<1> QED  BY <1>7 DEF score, n, J

(* The first and the last point's own scores, and what rounding takes from *)
(* the last: at most a thousandth, and only from half of one.              *)
LEMMA EndScores ==
    ASSUME NEW grain \in Nat \ {0}, NEW points \in Seq(MarginPoint(grain)), ValidPoints(points, grain)
    PROVE  LET first == HalfEven(points[1].score, grain)
               top   == HalfEven(points[Len(points)].score, grain)
               loss  == LossAtTheTop(points, grain)
           IN /\ first \in 0..Hundred /\ top \in 0..Hundred
              /\ first <= Joint(points, grain, 1) /\ first <= top
              /\ Joint(points, grain, 1) \in 0..Hundred
              /\ Joint(points, grain, Len(points)) \in 0..Hundred
              /\ Joint(points, grain, 1) <= Joint(points, grain, Len(points))
              /\ Joint(points, grain, Len(points)) = top + loss
              /\ loss \in {0, 1}
              /\ loss = 1 => 2 * (points[Len(points)].score % grain) = grain
              /\ points[1].rate \in Int /\ points[Len(points)].rate \in Int
              /\ points[1].rate < points[Len(points)].rate
<1> DEFINE n == Len(points)
           first == HalfEven(points[1].score, grain)
           top == HalfEven(points[n].score, grain)
           loss == LossAtTheTop(points, grain)
           J(i) == Joint(points, grain, i)
<1>1. n \in Nat /\ 1 \in 1..n /\ n \in 1..n /\ 1 <= n /\ 1 < n
  BY PointsAreOrdered
<1>2. /\ J(1) \in 0..Hundred /\ J(n) \in 0..Hundred /\ J(1) <= J(n)
      /\ points[1].rate \in Int /\ points[n].rate \in Int /\ points[1].rate < points[n].rate
  BY <1>1, JointsRise
<1>3. points[1] \in MarginPoint(grain) /\ points[n] \in MarginPoint(grain)
  BY <1>1, PointsAreOrdered
<1>4. first \in 0..Hundred /\ (first = J(1) \/ first = J(1) - 1)
  BY <1>3, PointScores DEF Joint
<1>5. /\ top \in 0..Hundred /\ (top = J(n) \/ top = J(n) - 1)
      /\ top # J(n) => 2 * (points[n].score % grain) = grain
  BY <1>3, PointScores DEF Joint
<1>6. loss = J(n) - top
  BY DEF LossAtTheTop, Joint
<1>7. first <= top
  <2>1. points[1].score \in Nat /\ points[n].score \in Nat
    BY <1>3, PointScores
  <2>2. points[1].score <= points[n].score
    BY <1>1, JointsRise
  <2> QED  BY <2>1, <2>2, HalfEvenMonotone
<1> HIDE DEF first, top, loss, J, n
<1>8. first <= J(1) /\ J(n) = top + loss /\ loss \in {0, 1} /\ (loss = 1 => top # J(n))
  BY <1>2, <1>4, <1>5, <1>6, HundredType
<1> QED  BY <1>2, <1>4, <1>5, <1>7, <1>8 DEF first, top, loss, J, n

(* normalize_margin of any margin rate: whatever points of whatever        *)
(* precision the configuration accepts, it returns a score between that of *)
(* the first point, its half rounded to even, and that of the last, its    *)
(* half rounded up.                                                        *)
THEOREM MarginCurveIsSound ==
    ASSUME NEW grain \in Nat \ {0}, NEW points \in Seq(MarginPoint(grain)), ValidPoints(points, grain),
           NEW rate \in Int
    PROVE  /\ NormalizeMargin(rate, points, grain)
                  \in HalfEven(points[1].score, grain)..HalfUp(points[Len(points)].score, grain)
           /\ NormalizeMargin(rate, points, grain) \in 0..Hundred
<1> DEFINE n == Len(points)
           score == NormalizeMargin(rate, points, grain)
           first == HalfEven(points[1].score, grain)
           top == HalfEven(points[n].score, grain)
           loss == LossAtTheTop(points, grain)
           J(i) == Joint(points, grain, i)
<1>1. /\ first \in 0..Hundred /\ top \in 0..Hundred /\ first <= J(1) /\ first <= top
      /\ J(1) <= J(n) /\ J(1) \in 0..Hundred /\ J(n) \in 0..Hundred
      /\ J(n) = top + loss /\ loss \in {0, 1}
      /\ points[1].rate \in Int /\ points[n].rate \in Int /\ points[1].rate < points[n].rate
  BY EndScores
<1>2. \/ rate <= points[1].rate
      \/ ~(rate <= points[1].rate) /\ rate >= points[n].rate
      \/ points[1].rate < rate /\ rate < points[n].rate
  <2> HIDE DEF n
  <2> QED  BY <1>1
<1>3. \/ score = first \/ score = top
      \/ score \in J(1)..J(n) /\ score \in 0..Hundred
  BY <1>2, CurveEnds, InsideTheCurve
<1> HIDE DEF first, top, loss, J, n, score
<1>4. score \in first..J(n) /\ score \in 0..Hundred
  BY <1>1, <1>3, HundredType
<1> QED  BY <1>4 DEF first, J, n, score, Joint

(* Inside the curve no higher margin is a lower score.                     *)
LEMMA InsideIsMonotone ==
    ASSUME NEW grain \in Nat \ {0}, NEW points \in Seq(MarginPoint(grain)), ValidPoints(points, grain),
           NEW rate \in Int, NEW higher \in Int, rate <= higher,
           points[1].rate < rate, rate < points[Len(points)].rate,
           points[1].rate < higher, higher < points[Len(points)].rate
    PROVE  NormalizeMargin(rate, points, grain) <= NormalizeMargin(higher, points, grain)
<1> DEFINE n == Len(points)
           low == NormalizeMargin(rate, points, grain)
           high == NormalizeMargin(higher, points, grain)
           J(i) == Joint(points, grain, i)
<1>1. n \in Nat /\ n >= 2
  BY PointsAreOrdered
<1>2. PICK i \in 1..(n - 1) :
          Piece(rate, points, i) /\ low = Between(rate, points[i], points[i + 1], grain)
  BY <1>1, RatesHaveAPiece
<1>3. PICK k \in 1..(n - 1) :
          Piece(higher, points, k) /\ high = Between(higher, points[k], points[k + 1], grain)
  BY <1>1, RatesHaveAPiece
<1>4. /\ i \in 1..n /\ i + 1 \in 1..n
      /\ points[i] \in MarginPoint(grain) /\ points[i + 1] \in MarginPoint(grain)
      /\ points[i].rate < points[i + 1].rate /\ points[i].score <= points[i + 1].score
      /\ rate \in points[i].rate..points[i + 1].rate
      /\ low \in J(i)..J(i + 1)
  BY <1>2, PieceBounds
<1>5. /\ k \in 1..n /\ k + 1 \in 1..n
      /\ higher \in points[k].rate..points[k + 1].rate
      /\ high \in J(k)..J(k + 1)
  BY <1>3, PieceBounds
<1>6. CASE i = k
  <2>1. higher \in points[i].rate..points[i + 1].rate
    BY <1>5, <1>6
  <2>2. Between(rate, points[i], points[i + 1], grain) <= Between(higher, points[i], points[i + 1], grain)
    BY <1>4, <2>1, InterpolationIsMonotone
  <2> QED  BY <1>2, <1>3, <1>6, <2>2
<1>7. CASE i < k
  <2>1. i + 1 <= k
    BY <1>2, <1>3, <1>7
  <2>2. /\ J(i + 1) <= J(k)
        /\ J(i + 1) \in 0..Hundred /\ J(k) \in 0..Hundred
    BY <1>4, <1>5, <2>1, JointsRise
  <2>3. J(i) \in 0..Hundred /\ J(k + 1) \in 0..Hundred
    <3>1. i <= i /\ k + 1 <= k + 1
      BY <1>2, <1>3
    <3> QED  BY <1>4, <1>5, <3>1, JointsRise
  <2> HIDE DEF low, high, n, J
  <2>4. low <= high
    BY <1>4, <1>5, <2>2, <2>3, HundredType
  <2> QED  BY <2>4 DEF low, high
<1>8. CASE k < i
  <2>1. k \in 1..(i - 1) /\ k + 1 <= i
    BY <1>2, <1>3, <1>8
  <2>2. ~(points[k].rate <= rate /\ rate <= points[k + 1].rate)
    BY <1>2, <2>1 DEF Piece
  <2>3. /\ points[k + 1].rate <= points[i].rate
        /\ points[k + 1].rate \in Int /\ points[i].rate \in Int
    BY <1>4, <1>5, <2>1, JointsRise
  <2>4. /\ points[k].rate <= points[i].rate /\ points[k].rate \in Int
        /\ points[i + 1].rate \in Int
    <3>1. k <= i
      BY <1>2, <1>3, <1>8
    <3>2. points[i + 1].rate \in Int
      BY <1>4, PointsAreOrdered
    <3> QED  BY <1>4, <1>5, <3>1, <3>2, JointsRise
  <2>5. points[k].rate <= rate /\ rate <= points[k + 1].rate
    <3>1. points[i].rate <= rate
      BY <1>4, <2>3, <2>4
    <3>2. higher <= points[k + 1].rate
      BY <1>5, <2>3, <2>4
    <3> QED  BY <2>3, <2>4, <3>1, <3>2
  <2> QED  BY <2>2, <2>5
<1>9. i < k \/ i = k \/ k < i
  BY <1>2, <1>3
<1> QED  BY <1>6, <1>7, <1>8, <1>9

(* Across any number of points a higher margin is never a lower score,     *)
(* except that the last point may score a thousandth less than the end of  *)
(* the piece that leads to it, and only if it is configured at half a      *)
(* thousandth: normalize_margin rounds it to even there.                   *)
THEOREM MarginCurveIsMonotone ==
    ASSUME NEW grain \in Nat \ {0}, NEW points \in Seq(MarginPoint(grain)), ValidPoints(points, grain),
           NEW rate \in Int, NEW higher \in Int, rate <= higher
    PROVE  LET before == NormalizeMargin(rate, points, grain)
               after  == NormalizeMargin(higher, points, grain)
               end    == points[Len(points)]
               loss   == LossAtTheTop(points, grain)
           IN /\ before <= after + loss
              /\ higher < end.rate \/ end.rate <= rate => before <= after
              /\ loss \in {0, 1}
              /\ loss = 1 => 2 * (end.score % grain) = grain
<1> DEFINE n == Len(points)
           before == NormalizeMargin(rate, points, grain)
           after == NormalizeMargin(higher, points, grain)
           first == HalfEven(points[1].score, grain)
           top == HalfEven(points[n].score, grain)
           loss == LossAtTheTop(points, grain)
           J(i) == Joint(points, grain, i)
<1>1. /\ first \in 0..Hundred /\ top \in 0..Hundred /\ first <= J(1) /\ first <= top
      /\ J(1) \in 0..Hundred /\ J(n) \in 0..Hundred /\ J(1) <= J(n)
      /\ J(n) = top + loss /\ loss \in {0, 1}
      /\ loss = 1 => 2 * (points[n].score % grain) = grain
      /\ points[1].rate \in Int /\ points[n].rate \in Int /\ points[1].rate < points[n].rate
  BY EndScores
<1>2. /\ before \in first..J(n) /\ before \in 0..Hundred
      /\ after \in first..J(n) /\ after \in 0..Hundred
  BY MarginCurveIsSound DEF Joint
<1>3. /\ before <= after + loss
      /\ higher < points[n].rate \/ points[n].rate <= rate => before <= after
  <2>1. CASE rate <= points[1].rate
    <3>1. before = first
      BY <2>1, CurveEnds
    <3> HIDE DEF n, before, after, first, top, loss, J
    <3> QED  BY <1>1, <1>2, <3>1, HundredType
  <2>2. CASE ~(rate <= points[1].rate) /\ higher >= points[n].rate
    <3>1. ~(higher <= points[1].rate)
      <4> HIDE DEF n
      <4> QED  BY <1>1, <2>2
    <3>2. after = top
      BY <2>2, <3>1, CurveEnds
    <3>3. points[n].rate <= rate => before = top
      BY <1>1, <2>2, CurveEnds
    <3> HIDE DEF n, before, after, first, top, loss, J
    <3>4. before <= after + loss
      BY <1>1, <1>2, <3>2, HundredType
    <3>5. ~(higher < points[n].rate)
      BY <1>1, <2>2
    <3>6. points[n].rate <= rate => before <= after
      BY <1>2, <3>2, <3>3, HundredType
    <3> QED  BY <3>4, <3>5, <3>6
  <2>3. CASE ~(rate <= points[1].rate) /\ ~(higher >= points[n].rate)
    <3>1. /\ points[1].rate < rate /\ rate < points[n].rate
          /\ points[1].rate < higher /\ higher < points[n].rate
      <4> HIDE DEF n
      <4> QED  BY <1>1, <2>3
    <3>2. before <= after
      BY <3>1, InsideIsMonotone
    <3> HIDE DEF n, before, after, first, top, loss, J
    <3> QED  BY <1>1, <1>2, <3>2, HundredType
  <2> QED  BY <2>1, <2>2, <2>3
<1> QED  BY <1>1, <1>3

-----------------------------------------------------------------------------
(* Rounding halves away from zero keeps the order too, across zero.        *)
LEMMA HalfAwayMonotone ==
    ASSUME NEW n \in Int, NEW m \in Int, NEW d \in Nat \ {0}, n <= m
    PROVE  HalfAway(n, d) <= HalfAway(m, d)
<1>1. \A i \in Nat : HalfUp(i, d) \in Nat
  <2>1. SUFFICES ASSUME NEW i \in Nat PROVE HalfUp(i, d) \in Nat
    OBVIOUS
  <2>2. 0 * d <= i /\ i <= i * d
    OBVIOUS
  <2> QED  BY <2>2, HalfUpBounds
<1>2. CASE n < 0 /\ m < 0
  <2>1. -n \in Nat /\ -m \in Nat /\ -m <= -n  BY <1>2
  <2>2. HalfUp(-m, d) <= HalfUp(-n, d)  BY <2>1, HalfUpMonotone
  <2>3. HalfUp(-m, d) \in Nat /\ HalfUp(-n, d) \in Nat  BY <2>1, <1>1
  <2> QED  BY <1>2, <2>2, <2>3 DEF HalfAway
<1>3. CASE n < 0 /\ 0 <= m
  <2>1. HalfUp(-n, d) \in Nat /\ HalfUp(m, d) \in Nat  BY <1>1, <1>3
  <2> QED  BY <1>3, <2>1 DEF HalfAway
<1>4. CASE 0 <= n
  BY <1>4, HalfUpMonotone DEF HalfAway
<1> QED  BY <1>2, <1>3, <1>4

(* An amount that rises, or was not known, counts for no less.             *)
NoCheaper(costs, more) ==
    \A name \in CostNames : Counted(costs[name]) <= Counted(more[name])

LEMMA CountedType ==
    ASSUME NEW cost \in CostValue
    PROVE  Counted(cost) \in Nat
BY DEF CostValue, Counted

LEMMA LearntCostIsNoCheaper ==
    ASSUME NEW costs \in [CostNames -> CostValue], NEW name \in CostNames,
           NEW cost \in CostValue, ~costs[name].known
    PROVE  NoCheaper(costs, [costs EXCEPT ![name] = cost])
<1> DEFINE more == [costs EXCEPT ![name] = cost]
<1>1. \A x \in CostNames : Counted(costs[x]) \in Nat /\ Counted(cost) \in Nat
  BY CountedType
<1>2. Counted(costs[name]) = 0  BY DEF Counted
<1>3. \A x \in CostNames : more[x] = IF x = name THEN cost ELSE costs[x]
  OBVIOUS
<1> HIDE DEF more
<1>4. \A x \in CostNames : Counted(costs[x]) <= Counted(more[x])
  <2>1. SUFFICES ASSUME NEW x \in CostNames PROVE Counted(costs[x]) <= Counted(more[x])
    OBVIOUS
  <2>2. CASE x = name  BY <2>2, <1>1, <1>2, <1>3
  <2>3. CASE x # name  BY <2>3, <1>1, <1>3
  <2> QED  BY <2>2, <2>3
<1> QED  BY <1>4 DEF NoCheaper, more

LEMMA LandedCostType ==
    ASSUME NEW costs \in [CostNames -> CostValue], NEW parts \in Nat \ {0}
    PROVE  LandedCost(costs, parts) \in Int
<1>1. \A x \in CostNames : Counted(costs[x]) \in Nat
  BY CountedType
<1> DEFINE sum == Counted(costs["supplier_unit_cost"]) + Counted(costs["per_unit_shipping"])
             + Counted(costs["per_unit_duty"]) + Counted(costs["per_unit_import_tax"])
             + Counted(costs["payment_fee"]) + Counted(costs["inbound_handling"])
<1>2. sum \in Nat
  BY <1>1 DEF CostNames
<1>3. LandedCost(costs, parts) = HalfUp(sum, parts)
  BY DEF LandedCost
<1> HIDE DEF sum
<1> QED  BY <1>2, <1>3 DEF HalfUp

(* calculate_landed_cost and calculate_pricing_economics: where no cost    *)
(* counts for less the landed cost is no lower and the margin rate no      *)
(* higher, whatever is rounded on the way and on which side of zero the    *)
(* margin lies.                                                            *)
THEOREM CostsNeverRaiseTheMargin ==
    ASSUME NEW costs \in [CostNames -> CostValue], NEW more \in [CostNames -> CostValue],
           NoCheaper(costs, more),
           NEW parts \in Nat \ {0}, NEW quanta \in Nat \ {0}, NEW price \in Nat \ {0},
           NEW deducted \in Nat
    PROVE  /\ LandedCost(costs, parts) <= LandedCost(more, parts)
           /\ MarginRate(price, LandedCost(more, parts), deducted, quanta)
                <= MarginRate(price, LandedCost(costs, parts), deducted, quanta)
<1> DEFINE sum(c) == Counted(c["supplier_unit_cost"]) + Counted(c["per_unit_shipping"])
             + Counted(c["per_unit_duty"]) + Counted(c["per_unit_import_tax"])
             + Counted(c["payment_fee"]) + Counted(c["inbound_handling"])
           low == LandedCost(costs, parts)
           high == LandedCost(more, parts)
<1>1. \A x \in CostNames : /\ Counted(costs[x]) \in Nat /\ Counted(more[x]) \in Nat
                            /\ Counted(costs[x]) <= Counted(more[x])
  BY CountedType DEF NoCheaper
<1>2. sum(costs) \in Nat /\ sum(more) \in Nat /\ sum(costs) <= sum(more)
  BY <1>1 DEF CostNames
<1>3. LandedCost(costs, parts) = HalfUp(sum(costs), parts)
      /\ LandedCost(more, parts) = HalfUp(sum(more), parts)
  BY DEF LandedCost
<1> HIDE DEF sum
<1>4. low \in Int /\ high \in Int  BY <1>2, <1>3 DEF HalfUp
<1>5. low <= high  BY <1>2, <1>3, HalfUpMonotone
<1> HIDE DEF low, high
<1>6. (price - high - deducted) \in Int /\ (price - low - deducted) \in Int
      /\ price - high - deducted <= price - low - deducted
  BY <1>4, <1>5
<1>7. (price - high - deducted) * quanta \in Int /\ (price - low - deducted) * quanta \in Int
      /\ (price - high - deducted) * quanta <= (price - low - deducted) * quanta
  BY <1>6
<1>8. MarginRate(price, high, deducted, quanta) <= MarginRate(price, low, deducted, quanta)
  BY <1>7, HalfAwayMonotone DEF MarginRate
<1> QED  BY <1>5, <1>8 DEF low, high

(* What nobody knew never flatters a candidate once it is known.           *)
THEOREM KnowingACostIsNoGain ==
    ASSUME NEW costs \in [CostNames -> CostValue], NEW name \in CostNames,
           NEW cost \in CostValue, ~costs[name].known,
           NEW parts \in Nat \ {0}, NEW quanta \in Nat \ {0}, NEW price \in Nat \ {0},
           NEW deducted \in Nat
    PROVE  MarginRate(price, LandedCost([costs EXCEPT ![name] = cost], parts), deducted, quanta)
             <= MarginRate(price, LandedCost(costs, parts), deducted, quanta)
<1>1. [costs EXCEPT ![name] = cost] \in [CostNames -> CostValue]
  OBVIOUS
<1>2. NoCheaper(costs, [costs EXCEPT ![name] = cost])
  BY LearntCostIsNoCheaper
<1> QED  BY <1>1, <1>2, CostsNeverRaiseTheMargin

-----------------------------------------------------------------------------
(* A candidate that gets better, from its features to its final score and  *)
(* what it is rejected for.                                                *)
Better(f, g) ==
    /\ \A i \in 1..5 : f.trend[i] <= g.trend[i]
    /\ \A s \in Levels : f[s] <= g[s]
    /\ g.penalty <= f.penalty /\ g.deducted <= f.deducted
    /\ NoCheaper(g.costs, f.costs)

LEMMA FeatureTypes ==
    ASSUME NEW f \in Features
    PROVE  /\ \A i \in 1..5 : f.trend[i] \in Nat
           /\ \A s \in Levels : f[s] \in Nat
           /\ f.penalty \in Nat /\ f.deducted \in Nat
           /\ f.costs \in [CostNames -> CostValue]
<1>1. Steps \in Nat /\ Price \in Nat
  BY StepsAssumption, PricingAssumption
<1>2. f.trend \in [1..5 -> 0..Steps] /\ f.penalty \in 0..Steps /\ f.deducted \in 0..Price
  BY DEF Features
<1>3. f.costs \in [CostNames -> CostValue]
  BY DEF Features
<1>4. \A i \in 1..5 : f.trend[i] \in Nat
  BY <1>1, <1>2
<1>5. /\ f.demand \in 0..(4 * Steps) /\ f.competition \in 0..(4 * Steps)
      /\ f.supply \in 0..(6 * Steps) /\ f.fit \in 0..(6 * Steps) /\ f.confidence \in 0..(6 * Steps)
      /\ f.suppliers \in 0..1
  BY DEF Features
<1>6. \A s \in Levels : f[s] \in Nat
  BY <1>1, <1>5 DEF Levels
<1> QED  BY <1>1, <1>2, <1>3, <1>4, <1>6

LEMMA ScoreType ==
    ASSUME NEW n \in Int, NEW d \in Nat \ {0}
    PROVE  Score(n, d) \in Int /\ 0 <= Score(n, d) /\ Score(n, d) <= Hundred
BY ScoreIsAScore, HundredType

(* No rise of a feature lowers what the normalizers make of it.            *)
LEMMA NormalizersKeepOrder ==
    ASSUME NEW d \in Nat \ {0}
    PROVE  /\ \A n, m \in Int : n <= m =>
                 /\ NormalizeDemand(n, d) <= NormalizeDemand(m, d)
                 /\ NormalizeCompetition(n, d) <= NormalizeCompetition(m, d)
                 /\ NormalizeSupply(n, d) <= NormalizeSupply(m, d)
                 /\ NormalizeConfidence(n, d) <= NormalizeConfidence(m, d)
           /\ \A n \in Int : /\ NormalizeDemand(n, d) \in 0..Hundred
                             /\ NormalizeCompetition(n, d) \in 0..Hundred
                             /\ NormalizeSupply(n, d) \in 0..Hundred
                             /\ NormalizeConfidence(n, d) \in 0..Hundred
<1>1. 4 * d \in Nat \ {0} /\ 6 * d \in Nat \ {0}
  OBVIOUS
<1>2. \A n, m \in Int : n <= m =>
          Score(n, 4 * d) <= Score(m, 4 * d) /\ Score(n, 6 * d) <= Score(m, 6 * d)
  BY <1>1, ScoreIsMonotone
<1>3. \A n \in Int : Score(n, 4 * d) \in 0..Hundred /\ Score(n, 6 * d) \in 0..Hundred
  BY <1>1, ScoreIsAScore
<1> QED
  BY <1>2, <1>3
  DEF NormalizeDemand, NormalizeCompetition, NormalizeSupply, NormalizeConfidence, Average

LEMMA TrendKeepsOrder ==
    ASSUME NEW d \in Nat \ {0},
           NEW v \in [1..5 -> Nat], NEW w \in [1..5 -> Nat], \A i \in 1..5 : v[i] <= w[i]
    PROVE  /\ NormalizeTrend(v[1], v[2], v[3], v[4], v[5], d)
                <= NormalizeTrend(w[1], w[2], w[3], w[4], w[5], d)
           /\ NormalizeTrend(v[1], v[2], v[3], v[4], v[5], d) \in 0..Hundred
<1> DEFINE n == 35 * v[1] + 25 * v[2] + 15 * v[3] + 15 * v[4] + 10 * v[5]
           m == 35 * w[1] + 25 * w[2] + 15 * w[3] + 15 * w[4] + 10 * w[5]
<1>1. /\ v[1] \in Nat /\ v[2] \in Nat /\ v[3] \in Nat /\ v[4] \in Nat /\ v[5] \in Nat
      /\ w[1] \in Nat /\ w[2] \in Nat /\ w[3] \in Nat /\ w[4] \in Nat /\ w[5] \in Nat
      /\ v[1] <= w[1] /\ v[2] <= w[2] /\ v[3] <= w[3] /\ v[4] <= w[4] /\ v[5] <= w[5]
  OBVIOUS
<1>2. n \in Int /\ m \in Int /\ n <= m /\ 100 * d \in Nat \ {0}
  BY <1>1
<1>3. /\ NormalizeTrend(v[1], v[2], v[3], v[4], v[5], d) = Score(n, 100 * d)
      /\ NormalizeTrend(w[1], w[2], w[3], w[4], w[5], d) = Score(m, 100 * d)
  BY DEF NormalizeTrend
<1> HIDE DEF n, m
<1> QED  BY <1>2, <1>3, ScoreIsMonotone, ScoreIsAScore

LEMMA ShopFitKeepsOrder ==
    ASSUME NEW d \in Nat \ {0}, NEW n \in Int, NEW m \in Int, n <= m,
           NEW p \in Int, NEW q \in Int, q <= p
    PROVE  /\ NormalizeShopFit(n, p, d) <= NormalizeShopFit(m, q, d)
           /\ NormalizeShopFit(n, p, d) \in 0..Hundred
<1> DEFINE a == Score(n, 6 * d)
           b == Score(m, 6 * d)
           c == Score(p, d)
           e == Score(q, d)
<1>1. 6 * d \in Nat \ {0}
  OBVIOUS
<1>2. a \in Int /\ b \in Int /\ c \in Int /\ e \in Int
  BY <1>1, ScoreType
<1>3. a <= b /\ e <= c
  BY <1>1, ScoreIsMonotone
<1>4. NormalizeShopFit(n, p, d) = Clamp(a - c, 0, Hundred)
      /\ NormalizeShopFit(m, q, d) = Clamp(b - e, 0, Hundred)
  BY DEF NormalizeShopFit, Average
<1> HIDE DEF a, b, c, e
<1> QED  BY <1>2, <1>3, <1>4, HundredType DEF Clamp

(* The margin rate falls with what is deducted and with any cost.          *)
LEMMA RateKeepsOrder ==
    ASSUME NEW f \in Features, NEW g \in Features, Better(f, g)
    PROVE  Rate(f) \in Int /\ Rate(g) \in Int /\ Rate(f) <= Rate(g)
<1> DEFINE a == LandedCost(f.costs, Parts)
           b == LandedCost(g.costs, Parts)
<1>1. /\ f.costs \in [CostNames -> CostValue] /\ g.costs \in [CostNames -> CostValue]
      /\ f.deducted \in Nat /\ g.deducted \in Nat
  BY FeatureTypes
<1>2. Parts \in Nat \ {0} /\ Quanta \in Nat \ {0} /\ Price \in Nat \ {0}
  BY PricingAssumption
<1>3. b <= a
  BY <1>1, <1>2, CostsNeverRaiseTheMargin DEF Better
<1>4. a \in Int /\ b \in Int
  BY <1>1, <1>2, LandedCostType
<1>5. g.deducted <= f.deducted
  BY DEF Better
<1> HIDE DEF a, b
<1>6. /\ Price - a - f.deducted \in Int /\ Price - b - g.deducted \in Int
      /\ Price - a - f.deducted <= Price - b - g.deducted
  BY <1>1, <1>2, <1>3, <1>4, <1>5
<1> DEFINE n == (Price - a - f.deducted) * Quanta
           m == (Price - b - g.deducted) * Quanta
<1>7. n \in Int /\ m \in Int /\ n <= m
  BY <1>2, <1>6
<1>8. Rate(f) = HalfAway(n, Price) /\ Rate(g) = HalfAway(m, Price)
  BY DEF Rate, MarginRate, a, b
<1> HIDE DEF n, m
<1>9. HalfAway(n, Price) \in Int /\ HalfAway(m, Price) \in Int
  BY <1>2, <1>7 DEF HalfAway, HalfUp
<1> QED  BY <1>2, <1>7, <1>8, <1>9, HalfAwayMonotone

TopLoss == LossAtTheTop(Points, Grain)

LEMMA ScoresKeepOrder ==
    ASSUME NEW f \in Features, NEW g \in Features, Better(f, g)
    PROVE  /\ ScoresOf(f) \in Scores
           /\ \A c \in Components \ {"margin"} : ScoresOf(f)[c] <= ScoresOf(g)[c]
           /\ ScoresOf(f).margin <= ScoresOf(g).margin + TopLoss
           /\ TopLoss \in {0, 1}
<1>1. Steps \in Nat \ {0}
  BY StepsAssumption
<1>2. /\ f.demand \in Nat /\ f.competition \in Nat /\ f.supply \in Nat /\ f.fit \in Nat
      /\ f.confidence \in Nat /\ f.penalty \in Nat
      /\ g.demand \in Nat /\ g.competition \in Nat /\ g.supply \in Nat /\ g.fit \in Nat
      /\ g.confidence \in Nat /\ g.penalty \in Nat
      /\ f.demand <= g.demand /\ f.competition <= g.competition /\ f.supply <= g.supply
      /\ f.fit <= g.fit /\ f.confidence <= g.confidence /\ g.penalty <= f.penalty
  BY FeatureTypes DEF Better, Levels
<1>3. f.trend \in [1..5 -> Nat] /\ g.trend \in [1..5 -> Nat] /\ \A i \in 1..5 : f.trend[i] <= g.trend[i]
  BY StepsAssumption DEF Features, Better
<1>4. \A x : /\ ScoresOf(x).demand = NormalizeDemand(x.demand, Steps)
             /\ ScoresOf(x).competition = NormalizeCompetition(x.competition, Steps)
             /\ ScoresOf(x).supply = NormalizeSupply(x.supply, Steps)
             /\ ScoresOf(x).confidence = NormalizeConfidence(x.confidence, Steps)
             /\ ScoresOf(x).shop_fit = NormalizeShopFit(x.fit, x.penalty, Steps)
  BY DEF ScoresOf
<1>5. ScoresOf(f).trend <= ScoresOf(g).trend /\ ScoresOf(f).trend \in 0..Hundred
  BY <1>1, <1>3, TrendKeepsOrder DEF ScoresOf
<1>6. /\ f.demand \in Int /\ f.competition \in Int /\ f.supply \in Int /\ f.confidence \in Int
       /\ g.demand \in Int /\ g.competition \in Int /\ g.supply \in Int /\ g.confidence \in Int
       /\ f.demand <= g.demand /\ f.competition <= g.competition /\ f.supply <= g.supply
       /\ f.confidence <= g.confidence
  BY <1>2
<1>7. \A n, m \in Int : n <= m =>
          /\ NormalizeDemand(n, Steps) <= NormalizeDemand(m, Steps)
          /\ NormalizeCompetition(n, Steps) <= NormalizeCompetition(m, Steps)
          /\ NormalizeSupply(n, Steps) <= NormalizeSupply(m, Steps)
          /\ NormalizeConfidence(n, Steps) <= NormalizeConfidence(m, Steps)
  BY <1>1, NormalizersKeepOrder
<1>8. \A n \in Int : /\ NormalizeDemand(n, Steps) \in 0..Hundred
                      /\ NormalizeCompetition(n, Steps) \in 0..Hundred
                      /\ NormalizeSupply(n, Steps) \in 0..Hundred
                      /\ NormalizeConfidence(n, Steps) \in 0..Hundred
  BY <1>1, NormalizersKeepOrder
<1>9. /\ ScoresOf(f).demand <= ScoresOf(g).demand /\ ScoresOf(f).demand \in 0..Hundred
      /\ ScoresOf(f).competition <= ScoresOf(g).competition /\ ScoresOf(f).competition \in 0..Hundred
  <2>1. /\ NormalizeDemand(f.demand, Steps) <= NormalizeDemand(g.demand, Steps)
        /\ NormalizeDemand(f.demand, Steps) \in 0..Hundred
        /\ NormalizeCompetition(f.competition, Steps) <= NormalizeCompetition(g.competition, Steps)
        /\ NormalizeCompetition(f.competition, Steps) \in 0..Hundred
    BY <1>7, <1>8, <1>6
  <2> QED  BY <1>4, <2>1
<1>10. /\ ScoresOf(f).supply <= ScoresOf(g).supply /\ ScoresOf(f).supply \in 0..Hundred
      /\ ScoresOf(f).confidence <= ScoresOf(g).confidence /\ ScoresOf(f).confidence \in 0..Hundred
  <2>1. /\ NormalizeSupply(f.supply, Steps) <= NormalizeSupply(g.supply, Steps)
        /\ NormalizeSupply(f.supply, Steps) \in 0..Hundred
        /\ NormalizeConfidence(f.confidence, Steps) <= NormalizeConfidence(g.confidence, Steps)
        /\ NormalizeConfidence(f.confidence, Steps) \in 0..Hundred
    BY <1>7, <1>8, <1>6
  <2> QED  BY <1>4, <2>1
<1>11. ScoresOf(f).shop_fit <= ScoresOf(g).shop_fit /\ ScoresOf(f).shop_fit \in 0..Hundred
  <2>1. /\ NormalizeShopFit(f.fit, f.penalty, Steps) <= NormalizeShopFit(g.fit, g.penalty, Steps)
        /\ NormalizeShopFit(f.fit, f.penalty, Steps) \in 0..Hundred
    <3>1. f.fit \in Int /\ g.fit \in Int /\ f.penalty \in Int /\ g.penalty \in Int
      BY <1>2
    <3> QED  BY <1>1, <1>2, <3>1, ShopFitKeepsOrder
  <2> QED  BY <1>4, <2>1
<1>12. /\ ScoresOf(f).margin <= ScoresOf(g).margin + TopLoss /\ TopLoss \in {0, 1}
       /\ ScoresOf(f).margin \in 0..Hundred
  <2>1. Grain \in Nat \ {0} /\ ValidPoints(Points, Grain) /\ Points \in Seq(MarginPoint(Grain))
    BY PointsAssumption DEF ValidPoints
  <2> DEFINE n == Rate(f) * Grain
             m == Rate(g) * Grain
  <2>2. Rate(f) \in Int /\ Rate(g) \in Int /\ Rate(f) <= Rate(g)
    BY RateKeepsOrder
  <2>3. n \in Int /\ m \in Int /\ n <= m
    BY <2>1, <2>2
  <2>4. /\ ScoresOf(f).margin = NormalizeMargin(n, Points, Grain)
        /\ ScoresOf(g).margin = NormalizeMargin(m, Points, Grain)
    BY DEF ScoresOf
  <2> HIDE DEF n, m
  <2>5. NormalizeMargin(n, Points, Grain) \in 0..Hundred
    BY <2>1, <2>3, MarginCurveIsSound
  <2>6. /\ NormalizeMargin(n, Points, Grain) <= NormalizeMargin(m, Points, Grain) + TopLoss
        /\ TopLoss \in {0, 1}
    BY <2>1, <2>3, MarginCurveIsMonotone DEF TopLoss
  <2> QED  BY <2>4, <2>5, <2>6
<1>13. DOMAIN ScoresOf(f) = Components /\ ScoresOf(f) = [c \in Components |-> ScoresOf(f)[c]]
  BY DEF ScoresOf, Components
<1> QED
  BY <1>5, <1>9, <1>10, <1>11, <1>12, <1>13 DEF Scores, Components

LEMMA BetterIsNoBetter ==
    ASSUME NEW f \in Features, NEW g \in Features, Better(f, g)
    PROVE  NoBetter(f, g)
<1>1. \A x \in Features : Better(x, x)
  <2> SUFFICES ASSUME NEW x \in Features PROVE Better(x, x)
    OBVIOUS
  <2>1. \A name \in CostNames : Counted(x.costs[name]) \in Nat
    BY FeatureTypes, CountedType
  <2> QED  BY <2>1, FeatureTypes DEF Better, NoCheaper
<1>2. /\ ScoresOf(f) \in Scores /\ ScoresOf(g) \in Scores
      /\ \A c \in Components \ {"margin"} : ScoresOf(f)[c] <= ScoresOf(g)[c]
      /\ ScoresOf(f).margin <= ScoresOf(g).margin + TopLoss /\ TopLoss \in {0, 1}
  BY <1>1, ScoresKeepOrder
<1>3. FinalScore(ScoresOf(f), Weights) <= FinalScore(ScoresOf(g), Weights) + TopLoss
  <2> DEFINE s == ScoresOf(f)
             t == ScoresOf(g)
  <2>1. s \in Scores /\ t \in Scores /\ \A c \in Components \ {"margin"} : s[c] <= t[c]
    BY <1>2
  <2>2. s["margin"] <= t["margin"] + TopLoss
    BY <1>2
  <2> HIDE DEF s, t
  <2>3. FinalScore(s, Weights) <= FinalScore(t, Weights) + TopLoss
    BY <1>2, <2>1, <2>2, WeightsAssumption, FinalScoreLosesNoMore
  <2> QED  BY <2>3 DEF s, t
<1>4. RejectionsOf(g) \subseteq RejectionsOf(f)
  <2>1. Rate(f) \in Int /\ Rate(g) \in Int /\ Rate(f) <= Rate(g)
    BY RateKeepsOrder
  <2>2. /\ ScoresOf(f).confidence \in Int /\ ScoresOf(g).confidence \in Int
        /\ ScoresOf(f).confidence <= ScoresOf(g).confidence
    BY <1>2, HundredType DEF Scores, Components
  <2>3. f.suppliers \in Nat /\ g.suppliers \in Nat /\ f.suppliers <= g.suppliers
    BY FeatureTypes DEF Better, Levels
  <2>4. Limits.minimumMargin \in Int /\ Limits.minimumConfidence \in Int
    BY RejectAssumption
  <2> DEFINE value(x) == [category |-> "any", margin |-> Rate(x), confidence |-> ScoresOf(x).confidence,
                          suppliers |-> x.suppliers, price |-> 1, reference |-> 0]
  <2>5. ASSUME NEW reason \in Reasons, Holds(reason, value(g), Limits)
        PROVE  Holds(reason, value(f), Limits)
    <3>1. CASE reason = "MARGIN_BELOW_MINIMUM"
      BY <2>1, <2>4, <2>5, <3>1 DEF Holds
    <3>2. CASE reason = "CONFIDENCE_BELOW_MINIMUM"
      BY <2>2, <2>4, <2>5, <3>2 DEF Holds
    <3>3. CASE reason = "SUPPLIER_REQUIRED"
      BY <2>3, <2>5, <3>3 DEF Holds
    <3>4. CASE reason = "RESTRICTED_CATEGORY"
      BY <2>5, <3>4 DEF Holds
    <3>5. CASE reason = "PRICE_PREMIUM_UNREALISTIC"
      BY <2>5, <3>5 DEF Holds
    <3> QED  BY <3>1, <3>2, <3>3, <3>4, <3>5 DEF Reasons
  <2> HIDE DEF value
  <2>6. HardReject(value(g), Limits) \subseteq HardReject(value(f), Limits)
    BY <2>5 DEF HardReject
  <2> QED  BY <2>6 DEF RejectionsOf, value
<1> QED  BY <1>2, <1>3, <1>4 DEF NoBetter, TopLoss

AppraisalTyped == features \in Features /\ gains \in Nat /\ learned \in Nat

(* Every improvement is one of the features that Better compares, and a    *)
(* cost that becomes known is one the other way round.                     *)
LEMMA ImprovingIsBetter ==
    ASSUME AppraisalTyped, Improve
    PROVE  /\ features' \in Features /\ gains' = gains + 1 /\ learned' = learned
           /\ Better(features, features')
<1>1. /\ features \in Features /\ features' \in Features /\ gains' = gains + 1
      /\ learned' = learned
  BY DEF AppraisalTyped, Improve, ImproveTrend, ImproveLevel, EasePenalty, EaseDeduction, LowerCost,
         Gain
<1>2. /\ \A i \in 1..5 : features.trend[i] \in Nat
      /\ \A s \in Levels : features[s] \in Nat
      /\ features.penalty \in Nat /\ features.deducted \in Nat
      /\ features.costs \in [CostNames -> CostValue]
  BY <1>1, FeatureTypes
<1>3. \A name \in CostNames : Counted(features.costs[name]) \in Nat
  BY <1>2, CountedType
<1>4. features.trend \in [1..5 -> 0..Steps]
  BY <1>1 DEF Features
<1>5. CASE ImproveTrend
  <2>1. PICK i \in 1..5 : features' = [features EXCEPT !.trend[i] = @ + 1]
    BY <1>5 DEF ImproveTrend
  <2>2. \A k \in 1..5 : features'.trend[k] = IF k = i THEN features.trend[k] + 1 ELSE features.trend[k]
    BY <1>1, <1>4, <2>1 DEF Features
  <2>3. /\ \A s \in Levels : features'[s] = features[s]
        /\ features'.penalty = features.penalty /\ features'.deducted = features.deducted
        /\ features'.costs = features.costs
    BY <1>1, <2>1 DEF Features, Levels
  <2> QED  BY <1>1, <1>2, <1>3, <2>2, <2>3 DEF Better, NoCheaper
<1>6. CASE ImproveLevel
  <2>1. PICK s \in Levels : features' = [features EXCEPT ![s] = @ + 1]
    BY <1>6 DEF ImproveLevel
  <2>2. /\ \A x \in Levels : features'[x] = IF x = s THEN features[x] + 1 ELSE features[x]
        /\ features'.penalty = features.penalty /\ features'.deducted = features.deducted
        /\ features'.costs = features.costs /\ features'.trend = features.trend
    BY <1>1, <2>1 DEF Features, Levels
  <2> QED  BY <1>1, <1>2, <1>3, <2>2 DEF Better, NoCheaper
<1>7. CASE EasePenalty \/ EaseDeduction
  <2>1. \/ features' = [features EXCEPT !.penalty = @ - 1]
        \/ features' = [features EXCEPT !.deducted = @ - 1]
    BY <1>7 DEF EasePenalty, EaseDeduction
  <2>2. /\ \A s \in Levels : features'[s] = features[s]
        /\ features'.penalty \in {features.penalty, features.penalty - 1}
        /\ features'.deducted \in {features.deducted, features.deducted - 1}
        /\ features'.costs = features.costs /\ features'.trend = features.trend
    BY <1>1, <2>1 DEF Features, Levels
  <2> QED  BY <1>1, <1>2, <1>3, <2>2 DEF Better, NoCheaper
<1>8. CASE LowerCost
  <2>1. PICK name \in CostNames, amount \in Amounts :
            /\ features.costs[name].known /\ amount < features.costs[name].amount
            /\ features' = [features EXCEPT !.costs[name].amount = amount]
    BY <1>8 DEF LowerCost
  <2>2. /\ \A s \in Levels : features'[s] = features[s]
        /\ features'.penalty = features.penalty /\ features'.deducted = features.deducted
        /\ features'.trend = features.trend
        /\ features'.costs = [features.costs EXCEPT ![name].amount = amount]
    BY <1>1, <2>1 DEF Features, Levels
  <2>3. \A x \in CostNames \ {name} : features'.costs[x] = features.costs[x]
    BY <1>2, <2>2
  <2>4. features'.costs[name] = [features.costs[name] EXCEPT !.amount = amount]
    BY <1>2, <2>2
  <2>5. features.costs[name] \in CostValue /\ features.costs[name].known
    BY <1>2, <2>1
  <2>6. features'.costs[name].known = features.costs[name].known
        /\ features'.costs[name].amount = amount
    BY <2>4, <2>5 DEF CostValue
  <2>7. amount \in Nat /\ features.costs[name].amount \in Nat
    BY <2>5, PricingAssumption DEF CostValue
  <2>8. Counted(features'.costs[name]) <= Counted(features.costs[name])
    BY <2>1, <2>6, <2>7 DEF Counted
  <2>9. NoCheaper(features'.costs, features.costs)
    BY <1>3, <2>3, <2>8 DEF NoCheaper
  <2> QED  BY <1>1, <1>2, <2>2, <2>9 DEF Better
<1> QED  BY <1>5, <1>6, <1>7, <1>8 DEF Improve

LEMMA LearningIsNoBetter ==
    ASSUME AppraisalTyped, LearnCost
    PROVE  /\ features' \in Features /\ gains' = gains /\ learned' = learned + 1
           /\ Better(features', features)
<1>1. PICK name \in CostNames, amount \in Amounts :
          /\ ~features.costs[name].known
          /\ features' = [features EXCEPT !.costs[name] = [known |-> TRUE, amount |-> amount]]
  BY DEF LearnCost
<1> DEFINE cost == [known |-> TRUE, amount |-> amount]
<1>2. features \in Features /\ gains' = gains /\ learned' = learned + 1
  BY DEF AppraisalTyped, LearnCost
<1>3. /\ \A i \in 1..5 : features.trend[i] \in Nat
      /\ \A s \in Levels : features[s] \in Nat
      /\ features.penalty \in Nat /\ features.deducted \in Nat
      /\ features.costs \in [CostNames -> CostValue]
  BY <1>2, FeatureTypes
<1>4. cost \in CostValue /\ cost.known
  BY PricingAssumption DEF CostValue
<1>5. features' = [features EXCEPT !.costs[name] = cost]
  BY <1>1
<1>6. cost \in {c \in CostValue : c.known => c.amount \in Amounts}
  BY <1>4
<1> HIDE DEF cost
<1>7. /\ \A s \in Levels : features'[s] = features[s]
      /\ features'.penalty = features.penalty /\ features'.deducted = features.deducted
      /\ features'.trend = features.trend
      /\ features'.costs = [features.costs EXCEPT ![name] = cost]
  BY <1>2, <1>5 DEF Features, Levels
<1>8. features' \in Features
  <2>1. features.costs \in [CostNames -> {c \in CostValue : c.known => c.amount \in Amounts}]
    BY <1>2 DEF Features
  <2>2. [features.costs EXCEPT ![name] = cost]
            \in [CostNames -> {c \in CostValue : c.known => c.amount \in Amounts}]
    BY <1>6, <2>1
  <2> DEFINE costs == [features.costs EXCEPT ![name] = cost]
  <2>3. features' = [features EXCEPT !.costs = costs]
    BY <1>5
  <2> HIDE DEF costs
  <2>4. costs \in [CostNames -> {c \in CostValue : c.known => c.amount \in Amounts}]
    BY <2>2 DEF costs
  <2> QED  BY <1>2, <2>3, <2>4 DEF Features
<1>9. NoCheaper(features.costs, features'.costs)
  BY <1>1, <1>3, <1>4, <1>7, LearntCostIsNoCheaper
<1>10. Better(features', features)
  BY <1>3, <1>7, <1>9 DEF Better
<1> QED  BY <1>2, <1>8, <1>10

(* However a candidate's features, prices and costs improve, none of its   *)
(* component scores, nor the final score, falls, but for the thousandth    *)
(* the margin curve may lose at its last point; nor does it meet a new     *)
(* reason to be rejected; and a cost that becomes known helps none of it.  *)
THEOREM ImprovementIsNeverAgainstIt == Appraising => BetterIsNeverWorse
<1> DEFINE Moved == /\ gains' > gains => NoBetter(features, features')
                    /\ learned' > learned => NoBetter(features', features)
<1>1. Presented => AppraisalTyped
  BY StartsAssumption DEF Presented, AppraisalTyped
<1>2. AppraisalTyped /\ [Progress]_candidate => AppraisalTyped' /\ [Moved]_candidate
  <2> SUFFICES ASSUME AppraisalTyped, [Progress]_candidate
               PROVE  AppraisalTyped' /\ [Moved]_candidate
    OBVIOUS
  <2>1. features \in Features /\ gains \in Nat /\ learned \in Nat
    BY DEF AppraisalTyped
  <2>2. CASE Improve
    <3>1. /\ features' \in Features /\ gains' = gains + 1 /\ learned' = learned
          /\ Better(features, features')
      BY <2>2, ImprovingIsBetter
    <3>2. NoBetter(features, features')
      BY <2>1, <3>1, BetterIsNoBetter
    <3> QED  BY <2>1, <3>1, <3>2 DEF AppraisalTyped
  <2>3. CASE LearnCost
    <3>1. /\ features' \in Features /\ gains' = gains /\ learned' = learned + 1
          /\ Better(features', features)
      BY <2>3, LearningIsNoBetter
    <3>2. NoBetter(features', features)
      BY <2>1, <3>1, BetterIsNoBetter
    <3> QED  BY <2>1, <3>1, <3>2 DEF AppraisalTyped
  <2>4. CASE UNCHANGED candidate
    BY <2>4 DEF candidate, AppraisalTyped
  <2> QED  BY <2>2, <2>3, <2>4 DEF Progress
<1>3. Appraising => [][Moved]_candidate
  <2> HIDE DEF Moved
  <2> QED  BY <1>1, <1>2, PTL DEF Appraising
<1> QED  BY <1>3 DEF BetterIsNeverWorse

-----------------------------------------------------------------------------
(* The ranking of a discovery run.                                         *)

(* A ranking of a finite set has a place for each of its members.          *)
LEMMA RankedIsComplete ==
    ASSUME NEW score, IsFiniteSet(DOMAIN score), NEW s \in Ranked(score)
    PROVE  /\ Cardinality(DOMAIN score) \in Nat
           /\ s \in [1..Cardinality(DOMAIN score) -> DOMAIN score]
           /\ IsInjective(s)
           /\ \A c \in DOMAIN score : \E i \in DOMAIN s : s[i] = c
<1> DEFINE S == DOMAIN score
           n == Cardinality(S)
<1>1. n \in Nat
    BY FS_CardinalityType
<1>2. s \in [1..n -> S] /\ IsInjective(s)
    BY DEF Ranked
<1> HIDE DEF S, n
<1>3. s \in Injection(1..n, S)
    BY <1>2 DEF Injection, IsInjective
<1>4. Cardinality(1..n) = n
    BY <1>1, FS_Interval
<1>5. s \in Surjection(1..n, S)
    BY <1>3, <1>4, FS_Injection DEF S, n
<1> QED
    BY <1>1, <1>2, <1>5 DEF Surjection, S, n

LEMMA HundredIsNat == Hundred \in Nat
BY DEF Hundred

(* The mean growth of a candidate makes scores, whatever it is.            *)
LEMMA FeaturesAreScores ==
    ASSUME NEW c \in Candidates, NEW e, e.growth \in Int
    PROVE  FeaturesOf(c, e) \in Scores
<1>1. \A n \in Int : Bounded(n) \in 0..Hundred
    BY HundredIsNat DEF Bounded, Clamp
<1>2. {0, 60000, 75000, 80000, 82000, 90000} \subseteq 0..Hundred
    BY DEF Hundred
<1>3. 2000 * e.growth \in Int /\ 45000 + 1000 * e.growth \in Int /\ 75000 - 300 * e.growth \in Int
    OBVIOUS
<1> DEFINE f == FeaturesOf(c, e)
<1>4. /\ f.trend = Bounded(2000 * e.growth)
      /\ f.demand = Bounded(45000 + 1000 * e.growth)
      /\ f.competition = Bounded(75000 - 300 * e.growth)
      /\ f.margin = 75000
      /\ f.supply \in {0, 80000}
      /\ f.shop_fit \in {60000, 82000}
      /\ f.confidence \in {60000, 90000}
    BY DEF FeaturesOf
<1>5. DOMAIN f = Components /\ f = [x \in Components |-> f[x]]
    BY DEF FeaturesOf, Components
<1> HIDE DEF f
<1>6. \A x \in Components : f[x] \in 0..Hundred
    BY <1>1, <1>2, <1>3, <1>4 DEF Components
<1> QED
    BY <1>5, <1>6 DEF Scores, f

(* The best are the beginning of the ranking, as long as there is room.    *)
LEMMA BestIsTheBeginning ==
    ASSUME NEW S, NEW n \in Nat, NEW s \in [1..n -> S], IsInjective(s)
    PROVE  \E m \in 0..n : /\ m = Min({TopN, n}) /\ m <= TopN
                           /\ Best(s) \in [1..m -> S] /\ Len(Best(s)) = m
                           /\ \A i \in 1..m : Best(s)[i] = s[i]
                           /\ IsInjective(Best(s))
<1> DEFINE m == IF n < TopN THEN n ELSE TopN
<1>1. TopN \in Nat /\ m \in 0..n /\ m <= TopN
    BY LimitsAssumption
<1>2. m = Min({TopN, n})
  <2>1. m \in {TopN, n} /\ \A y \in {TopN, n} : m <= y
      BY <1>1
  <2>2. \A x \in {TopN, n} : (\A y \in {TopN, n} : x <= y) => x = m
      BY <1>1
  <2> QED
      BY <2>1, <2>2 DEF Min
<1>3. s \in Seq(S) /\ Len(s) = n
    OBVIOUS
<1>4. Best(s) = SubSeq(s, 1, m)
    BY <1>3 DEF Best
<1> HIDE DEF m
<1>5. /\ Best(s) \in [1..m -> S] /\ Len(Best(s)) = m
      /\ \A i \in 1..m : Best(s)[i] = s[i]
  <2>1. /\ SubSeq(s, 1, m) \in Seq(S) /\ Len(SubSeq(s, 1, m)) = m
        /\ \A i \in 1..m : SubSeq(s, 1, m)[i] = s[1 + i - 1]
      BY <1>1, <1>3, SubSeqProperties
  <2>2. SubSeq(s, 1, m) \in [1..m -> S]
      BY <2>1, LenProperties
  <2>3. \A i \in 1..m : 1 + i - 1 = i
      BY <1>1
  <2> QED
      BY <1>4, <2>1, <2>2, <2>3
<1>6. IsInjective(Best(s))
    BY <1>1, <1>5 DEF IsInjective
<1> QED
    BY <1>1, <1>2, <1>5, <1>6

(* Whoever passes the hard rejects has a supplier and two sources, where   *)
(* the version asks for them.                                              *)
LEMMA AcceptedIsSound ==
    ASSUME NEW v \in Versions, NEW c \in Candidates, NEW e \in Evidence[c], Accepted(c, e, v)
    PROVE  /\ e.growth \in Int
           /\ c \in Supplied \/ ~Config[v].hardReject.requireSupplier
           /\ e.sources = 2 \/ Config[v].hardReject.minimumConfidence <= 60000
<1> DEFINE config == Config[v].hardReject
           value == RejectInput(c, e)
<1>1. /\ ~Holds("SUPPLIER_REQUIRED", value, config)
      /\ ~Holds("CONFIDENCE_BELOW_MINIMUM", value, config)
    BY DEF Accepted, HardReject, Reasons
<1>2. /\ value.confidence = IF e.sources >= 2 THEN 90000 ELSE 60000
      /\ value.suppliers = IF c \in Supplied THEN 1 ELSE 0
    BY DEF RejectInput, FeaturesOf
<1>3. e.sources \in {1, 2} /\ (e.growth = Unreadable \/ e.growth \in Int)
    BY EvidenceAssumption
<1>4. config.minimumConfidence \in Nat
    BY ConfigAssumption, HundredIsNat
<1> HIDE DEF config, value
<1>5. ~(config.requireSupplier /\ value.suppliers = 0)
    BY <1>1 DEF Holds
<1>6. ~(value.confidence < config.minimumConfidence)
    BY <1>1 DEF Holds
<1>7. c \in Supplied \/ ~config.requireSupplier
    BY <1>2, <1>5
<1>8. e.sources = 2 \/ config.minimumConfidence <= 60000
    BY <1>2, <1>3, <1>4, <1>6
<1> QED
    BY <1>3, <1>7, <1>8 DEF Accepted, config

-----------------------------------------------------------------------------
(* What a run has done, seen from its ranking.                             *)
LEMMA RunRanks ==
    ASSUME NEW v \in Versions, NEW found \in Found, Run(v, found)
    PROVE  \E scored \in SUBSET Candidates :
           \E score \in [scored -> 0..Hundred] :
           \E order \in Ranked(score) :
              /\ scored \subseteq DOMAIN found
              /\ \A c \in scored : found[c] \in Evidence[c] /\ Accepted(c, found[c], v)
              /\ UpsertScores(score, v)
              /\ UpsertRecommendations(Best(order), v)
              /\ last' = [version |-> v, found |-> found, scored |-> scored,
                          output |-> Best(order)]
<1>1. DOMAIN found \subseteq Candidates /\ \A c \in DOMAIN found : found[c] \in Evidence[c]
    BY DEF Found
<1>2. PICK kept \in Considered(DOMAIN found) :
          LET scored == {c \in kept : Accepted(c, found[c], v)}
              score == [c \in scored |-> FinalScore(FeaturesOf(c, found[c]), Config[v].weights)]
          IN \E order \in Ranked(score) :
                /\ UpsertScores(score, v)
                /\ UpsertRecommendations(Best(order), v)
                /\ last' = [version |-> v, found |-> found, scored |-> scored,
                            output |-> Best(order)]
    BY DEF Run
<1> DEFINE scored == {c \in kept : Accepted(c, found[c], v)}
           score == [c \in scored |-> FinalScore(FeaturesOf(c, found[c]), Config[v].weights)]
<1>3. PICK order \in Ranked(score) :
          /\ UpsertScores(score, v)
          /\ UpsertRecommendations(Best(order), v)
          /\ last' = [version |-> v, found |-> found, scored |-> scored, output |-> Best(order)]
    BY <1>2
<1>4. kept \subseteq DOMAIN found
    BY DEF Considered, kSubset
<1>5. /\ scored \subseteq DOMAIN found /\ scored \subseteq Candidates
      /\ \A c \in scored : found[c] \in Evidence[c] /\ Accepted(c, found[c], v)
    BY <1>1, <1>4
<1> HIDE DEF scored
<1>6. ASSUME NEW c \in scored
      PROVE  FinalScore(FeaturesOf(c, found[c]), Config[v].weights) \in 0..Hundred
  <2>1. found[c].growth \in Int /\ c \in Candidates
      BY <1>5, AcceptedIsSound
  <2>2. FeaturesOf(c, found[c]) \in Scores
      BY <2>1, FeaturesAreScores
  <2> QED
      BY <2>2, ConfigAssumption, FinalScoreIsAScore
<1>7. score \in [scored -> 0..Hundred]
    BY <1>6
<1> HIDE DEF score
<1> QED
    BY <1>3, <1>5, <1>7

(* Each row of a run is of its ranking.                                    *)
LEMMA RunWritesItsRanks ==
    ASSUME TypeOK, NEW v \in Versions, NEW scored \in SUBSET Candidates,
           NEW score \in [scored -> 0..Hundred],
           NEW m \in Nat, m <= TopN, NEW top \in [1..m -> scored], IsInjective(top),
           UpsertScores(score, v), UpsertRecommendations(top, v)
    PROVE  /\ scores' \in [Candidates -> [Versions -> {NoRow} \cup 0..Hundred]]
           /\ recs' \in [Candidates -> [Versions -> {NoRow} \cup Row]]
           /\ \A c \in scored : scores'[c][v] = score[c]
           /\ \A i \in 1..m : /\ recs'[top[i]][v] # NoRow
                             /\ recs'[top[i]][v].rank = i
                             /\ recs'[top[i]][v].shown = scores'[top[i]][v]
           /\ \A c \in Candidates, w \in Versions :
                 w # v => scores'[c][w] = scores[c][w] /\ recs'[c][w] = recs[c][w]
<1>1. DOMAIN score = scored /\ DOMAIN top = 1..m /\ Range(top) \subseteq scored
    BY DEF Range
<1>2. /\ scores \in [Candidates -> [Versions -> {NoRow} \cup 0..Hundred]]
      /\ recs \in [Candidates -> [Versions -> {NoRow} \cup Row]]
    BY DEF TypeOK
<1>3. scores' = [c \in Candidates |->
          IF c \in scored THEN [scores[c] EXCEPT ![v] = score[c]] ELSE scores[c]]
    BY <1>1 DEF UpsertScores
<1>4. /\ scores' \in [Candidates -> [Versions -> {NoRow} \cup 0..Hundred]]
      /\ \A c \in scored : scores'[c][v] = score[c]
      /\ \A c \in Candidates, w \in Versions : w # v => scores'[c][w] = scores[c][w]
    BY <1>2, <1>3
<1> DEFINE rank(c) == CHOOSE i \in 1..m : top[i] = c
           row(c) == [rank |-> rank(c), shown |-> scores'[c][v], status |-> "pending"]
<1>5. recs' = [c \in Candidates |->
          IF c \in Range(top) THEN [recs[c] EXCEPT ![v] = row(c)] ELSE recs[c]]
    BY <1>1 DEF UpsertRecommendations
<1>6. \A i \in 1..m : rank(top[i]) = i
    BY <1>1 DEF IsInjective
<1>7. \A c \in Range(top) : \E i \in 1..m : c = top[i]
    BY <1>1 DEF Range
<1>8. \A c \in Range(top) : rank(c) \in 1..TopN
    BY <1>6, <1>7, LimitsAssumption
<1> HIDE DEF rank
<1>9. \A c \in Range(top) : scores'[c][v] \in 0..Hundred
    BY <1>1, <1>4
<1>10. \A c \in Range(top) : row(c) \in Row
    BY <1>8, <1>9 DEF Row
<1>11. \A c \in Range(top) : row(c).rank = rank(c) /\ row(c).shown = scores'[c][v]
    OBVIOUS
<1> HIDE DEF row
<1>12. /\ recs' \in [Candidates -> [Versions -> {NoRow} \cup Row]]
       /\ \A c \in Range(top) : recs'[c][v] = row(c)
       /\ \A c \in Candidates, w \in Versions : w # v => recs'[c][w] = recs[c][w]
    BY <1>1, <1>2, <1>5, <1>10
<1>13. \A i \in 1..m : top[i] \in Range(top)
    BY <1>1 DEF Range
<1>14. ASSUME NEW i \in 1..m
       PROVE  /\ recs'[top[i]][v] # NoRow
              /\ recs'[top[i]][v].rank = i
              /\ recs'[top[i]][v].shown = scores'[top[i]][v]
  <2>1. top[i] \in Range(top) /\ rank(top[i]) = i
      BY <1>6, <1>13
  <2>2. recs'[top[i]][v] = row(top[i])
      BY <1>12, <2>1
  <2>3. row(top[i]) # NoRow
      BY <1>10, <2>1, NoRowAssumption
  <2>4. row(top[i]).rank = i /\ row(top[i]).shown = scores'[top[i]][v]
      BY <1>11, <2>1
  <2> QED
      BY <2>2, <2>3, <2>4
<1> QED
    BY <1>4, <1>12, <1>14

(* Whoever is left out comes after all of the best, in the order of the    *)
(* sort; and of two neighbours the sort has the better first.              *)
LEMMA BestComeFirst ==
    ASSUME NEW scored \in SUBSET Candidates, NEW score \in [scored -> 0..Hundred],
           NEW order \in Ranked(score)
    PROVE  \E m \in Nat :
              /\ m <= TopN /\ m = Min({TopN, Cardinality(scored)})
              /\ Best(order) \in [1..m -> scored] /\ Len(Best(order)) = m
              /\ IsInjective(Best(order))
              /\ \A c \in scored \ Range(Best(order)), d \in Range(Best(order)) :
                    /\ score[c] <= score[d]
                    /\ score[c] = score[d] => Name[d] <= Name[c]
<1> DEFINE best == Best(order)
           n == Cardinality(scored)
<1>1. IsFiniteSet(scored) /\ DOMAIN score = scored
    BY CandidatesAssumption, FS_Subset
<1>2. /\ n \in Nat /\ order \in [1..n -> scored] /\ IsInjective(order)
      /\ \A c \in scored : \E i \in 1..n : order[i] = c
    BY <1>1, RankedIsComplete
<1> HIDE DEF n
<1>3. PICK m \in 0..n : /\ m = Min({TopN, n}) /\ m <= TopN
                        /\ best \in [1..m -> scored] /\ Len(best) = m
                        /\ \A i \in 1..m : best[i] = order[i]
                        /\ IsInjective(best)
    BY <1>2, BestIsTheBeginning
<1> HIDE DEF best
<1>4. ASSUME NEW c \in scored \ Range(best), NEW d \in Range(best)
      PROVE  score[c] <= score[d] /\ (score[c] = score[d] => Name[d] <= Name[c])
  <2>1. PICK j \in 1..m : d = order[j]
      BY <1>3 DEF Range
  <2>2. PICK i \in 1..n : c = order[i]
      BY <1>2
  <2>3. i \notin 1..m
      BY <1>3, <2>2 DEF Range
  <2>4. j < i /\ j \in 1..n
      BY <1>2, <1>3, <2>1, <2>2, <2>3
  <2>5. Before(d, c, score)
      BY <1>2, <2>1, <2>2, <2>4 DEF Ranked
  <2>6. score[c] \in Int /\ score[d] \in Int /\ Name[c] \in Nat /\ Name[d] \in Nat
    <3>1. c \in scored /\ d \in scored
        BY <1>2, <2>1, <2>4
    <3> QED
        BY <3>1, NameAssumption, HundredIsNat
  <2> QED
      BY <2>5, <2>6 DEF Before
<1>5. /\ m \in Nat /\ m <= TopN /\ m = Min({TopN, n})
      /\ best \in [1..m -> scored] /\ Len(best) = m /\ IsInjective(best)
      /\ \A c \in scored \ Range(best), d \in Range(best) :
            score[c] <= score[d] /\ (score[c] = score[d] => Name[d] <= Name[c])
  <2>1. m \in Nat
      BY <1>2, <1>3
  <2> QED
      BY <1>3, <1>4, <2>1, Zenon
<1> QED
    BY <1>5 DEF n, best

LEMMA RunKeepsIInv ==
    ASSUME TypeOK, NEW v \in Versions, NEW found \in Found, Run(v, found)
    PROVE  /\ TypeOK' /\ BestAreRecommended' /\ RowsMatchTheOutput'
           /\ \A c \in Candidates, w \in Versions :
                 w # v => scores'[c][w] = scores[c][w] /\ recs'[c][w] = recs[c][w]
<1>1. PICK scored \in SUBSET Candidates : \E score \in [scored -> 0..Hundred] :
           \E order \in Ranked(score) :
              /\ scored \subseteq DOMAIN found
              /\ \A c \in scored : found[c] \in Evidence[c] /\ Accepted(c, found[c], v)
              /\ UpsertScores(score, v)
              /\ UpsertRecommendations(Best(order), v)
              /\ last' = [version |-> v, found |-> found, scored |-> scored,
                          output |-> Best(order)]
    BY RunRanks
<1>2. PICK score \in [scored -> 0..Hundred] : \E order \in Ranked(score) :
              /\ scored \subseteq DOMAIN found
              /\ \A c \in scored : found[c] \in Evidence[c] /\ Accepted(c, found[c], v)
              /\ UpsertScores(score, v)
              /\ UpsertRecommendations(Best(order), v)
              /\ last' = [version |-> v, found |-> found, scored |-> scored,
                          output |-> Best(order)]
    BY <1>1
<1>3. PICK order \in Ranked(score) :
              /\ scored \subseteq DOMAIN found
              /\ \A c \in scored : found[c] \in Evidence[c] /\ Accepted(c, found[c], v)
              /\ UpsertScores(score, v)
              /\ UpsertRecommendations(Best(order), v)
              /\ last' = [version |-> v, found |-> found, scored |-> scored,
                          output |-> Best(order)]
    BY <1>2
<1> DEFINE best == Best(order)
<1>4. PICK m \in Nat :
         /\ m <= TopN /\ m = Min({TopN, Cardinality(scored)})
         /\ best \in [1..m -> scored] /\ Len(best) = m /\ IsInjective(best)
         /\ \A c \in scored \ Range(best), d \in Range(best) :
               /\ score[c] <= score[d]
               /\ score[c] = score[d] => Name[d] <= Name[c]
    BY BestComeFirst
<1>5. /\ last'.version = v /\ last'.found = found /\ last'.scored = scored
      /\ last'.output = best
    BY <1>3
<1> HIDE DEF best
<1>6. /\ scores' \in [Candidates -> [Versions -> {NoRow} \cup 0..Hundred]]
      /\ recs' \in [Candidates -> [Versions -> {NoRow} \cup Row]]
      /\ \A c \in scored : scores'[c][v] = score[c]
      /\ \A i \in 1..m : /\ recs'[best[i]][v] # NoRow
                        /\ recs'[best[i]][v].rank = i
                        /\ recs'[best[i]][v].shown = scores'[best[i]][v]
      /\ \A c \in Candidates, w \in Versions :
            w # v => scores'[c][w] = scores[c][w] /\ recs'[c][w] = recs[c][w]
    BY <1>3, <1>4, RunWritesItsRanks DEF best
<1>7. Range(best) \subseteq scored /\ DOMAIN best = 1..m
    BY <1>4 DEF Range
<1>8. TypeOK'
  <2>1. runs' \in 0..MaxRuns
      BY LimitsAssumption DEF Run, TypeOK
  <2> QED
      BY <1>3, <1>4, <1>5, <1>6, <1>7, <2>1 DEF TypeOK
<1>9. BestAreRecommended'
  <2>1. \A c \in scored \ Range(best), d \in Range(best) :
            /\ scores'[c][v] <= scores'[d][v]
            /\ scores'[c][v] = scores'[d][v] => Name[d] <= Name[c]
      BY <1>4, <1>6, <1>7
  <2>2. ASSUME NEW c \in Range(best)
        PROVE  /\ c \in Supplied \/ ~Config[v].hardReject.requireSupplier
               /\ found[c].sources = 2 \/ Config[v].hardReject.minimumConfidence <= 60000
    <3>1. c \in Candidates /\ found[c] \in Evidence[c] /\ Accepted(c, found[c], v)
        BY <1>3, <1>7
    <3> QED
        BY <3>1, AcceptedIsSound
  <2> QED
      BY <1>4, <1>5, <2>1, <2>2 DEF BestAreRecommended
<1>10. RowsMatchTheOutput'
    BY <1>5, <1>6, <1>7 DEF RowsMatchTheOutput
<1> QED
    BY <1>6, <1>8, <1>9, <1>10

(* A decision touches a status and nothing a reader compares.              *)
LEMMA DecideKeepsIInv ==
    ASSUME TypeOK, BestAreRecommended, RowsMatchTheOutput,
           NEW c \in Candidates, NEW v \in Versions, Decide(c, v)
    PROVE  TypeOK' /\ BestAreRecommended' /\ RowsMatchTheOutput'
<1>1. /\ UNCHANGED <<scores, last, runs>> /\ recs[c][v] \in Row
      /\ recs' = [recs EXCEPT ![c][v].status = "decided"]
    BY DEF Decide, TypeOK
<1> DEFINE row == [recs[c][v] EXCEPT !.status = "decided"]
<1>2. row \in Row /\ row.rank = recs[c][v].rank /\ row.shown = recs[c][v].shown
    BY <1>1 DEF Row
<1>3. recs \in [Candidates -> [Versions -> {NoRow} \cup Row]]
    BY DEF TypeOK
<1>4. recs' = [recs EXCEPT ![c] = [recs[c] EXCEPT ![v] = row]]
    BY <1>1, <1>3
<1> HIDE DEF row
<1>5. /\ recs' \in [Candidates -> [Versions -> {NoRow} \cup Row]]
      /\ recs'[c][v] = row
      /\ \A d \in Candidates, w \in Versions :
            d # c \/ w # v => recs'[d][w] = recs[d][w]
    BY <1>2, <1>3, <1>4
<1>6. TypeOK'
    BY <1>1, <1>5 DEF TypeOK
<1>7. BestAreRecommended'
    BY <1>1 DEF BestAreRecommended
<1>8. \A i \in DOMAIN last.output : last.output[i] \in Candidates /\ last.version \in Versions
  <2>1. last.scored \subseteq DOMAIN last.found /\ DOMAIN last.found \subseteq Candidates
        /\ last.version \in Versions /\ Range(last.output) \subseteq last.scored
      BY DEF TypeOK, Found
  <2>2. \A i \in DOMAIN last.output : last.output[i] \in Range(last.output)
      BY DEF Range
  <2> QED
      BY <2>1, <2>2
<1>9. \A i \in DOMAIN last.output :
         LET w == last.version
             d == last.output[i]
         IN /\ recs[d][w] # NoRow => recs'[d][w] # NoRow
            /\ recs'[d][w].rank = recs[d][w].rank /\ recs'[d][w].shown = recs[d][w].shown
    BY <1>2, <1>5, <1>8, NoRowAssumption
<1>10. RowsMatchTheOutput'
    BY <1>1, <1>9 DEF RowsMatchTheOutput
<1> QED
    BY <1>6, <1>7, <1>10

-----------------------------------------------------------------------------
IInv == TypeOK /\ BestAreRecommended /\ RowsMatchTheOutput

LEMMA InitIsInductive == Init => IInv
<1> SUFFICES ASSUME Init PROVE IInv
    OBVIOUS
<1>1. PICK v \in Versions :
          last = [version |-> v, found |-> << >>, scored |-> {}, output |-> << >>]
    BY DEF Init
<1>2. DOMAIN << >> = {} /\ Range(<< >>) = {} /\ Len(<< >>) = 0
    BY DEF Range
<1>3. << >> \in Found
  <2>1. << >> \in [{} -> UNION Range(Evidence)]
      OBVIOUS
  <2> QED
      BY <1>2, <2>1 DEF Found
<1>4. TypeOK
    BY <1>1, <1>2, <1>3, LimitsAssumption DEF Init, TypeOK, IsInjective
<1>5. BestAreRecommended
  <2>1. Cardinality({}) = 0 /\ TopN \in Nat
      BY FS_EmptySet, LimitsAssumption
  <2>2. Min({TopN, 0}) = 0
    <3>1. 0 \in {TopN, 0} /\ \A y \in {TopN, 0} : 0 <= y
        BY <2>1
    <3>2. \A x \in {TopN, 0} : (\A y \in {TopN, 0} : x <= y) => x = 0
        BY <2>1
    <3> QED
        BY <3>1, <3>2 DEF Min
  <2>3. last.scored = {} /\ last.output = << >>
      BY <1>1
  <2>4. Len(last.output) = Min({TopN, Cardinality(last.scored)})
      BY <1>2, <2>1, <2>2, <2>3
  <2>5. last.scored = {} /\ Range(last.output) = {}
      BY <1>2, <2>3
  <2>6. \A c \in last.scored \ Range(last.output), d \in Range(last.output) : FALSE
      BY <2>5
  <2>7. \A c \in Range(last.output) : FALSE
      BY <2>5
  <2> QED
      BY <2>4, <2>6, <2>7 DEF BestAreRecommended
<1>6. RowsMatchTheOutput
    BY <1>1, <1>2 DEF RowsMatchTheOutput
<1> QED
    BY <1>4, <1>5, <1>6 DEF IInv

(* Rows and the last run's output keep their types, and the three          *)
(* invariants hold in every state.                                         *)
THEOREM Invariance == Spec => []IInv
<1>1. IInv /\ [Next]_vars => IInv'
  <2> SUFFICES ASSUME IInv, [Next]_vars PROVE IInv'
      OBVIOUS
  <2>1. CASE \E v \in Versions, found \in Found : Run(v, found)
      BY <2>1, RunKeepsIInv DEF IInv
  <2>2. CASE \E c \in Candidates, v \in Versions : Decide(c, v)
      BY <2>2, DecideKeepsIInv DEF IInv
  <2>3. CASE UNCHANGED vars
      BY <2>3 DEF vars, IInv, TypeOK, BestAreRecommended, RowsMatchTheOutput
  <2> QED
      BY <2>1, <2>2, <2>3 DEF Next, Quiet
<1> QED
    BY <1>1, InitIsInductive, PTL DEF Spec

(* Scores stay in 0..100, ranks among the top n, and the output is of      *)
(* candidates that the run has scored.                                     *)
THEOREM TypesAreKept == Spec => []TypeOK
<1>1. IInv => TypeOK
    BY DEF IInv
<1> QED
    BY <1>1, Invariance, PTL

(* A run recommends the best of what it scored, as many as there is room   *)
(* for, and nothing that a hard reject excludes.                           *)
THEOREM TheBestAreRecommended == Spec => []BestAreRecommended
<1>1. IInv => BestAreRecommended
    BY DEF IInv
<1> QED
    BY <1>1, Invariance, PTL

(* The rows of the last run's recommendations have the ranks it returned   *)
(* and show the scores that are stored.                                    *)
THEOREM RowsAreTheOutput == Spec => []RowsMatchTheOutput
<1>1. IInv => RowsMatchTheOutput
    BY DEF IInv
<1> QED
    BY <1>1, Invariance, PTL

(* A run leaves the rows of the other scoring versions alone.              *)
THEOREM PastScoresAreKept == Spec => PastScoresStay
<1>1. IInv /\ [Next]_vars =>
         [\A c \in Candidates, v \in Versions :
            scores'[c][v] # scores[c][v] \/ (recs'[c][v] # recs[c][v] /\ runs' # runs)
                => last'.version = v]_vars
  <2> SUFFICES ASSUME IInv, Next, NEW c \in Candidates, NEW v \in Versions,
                      scores'[c][v] # scores[c][v] \/ (recs'[c][v] # recs[c][v] /\ runs' # runs)
               PROVE  last'.version = v
      BY DEF vars
  <2>1. PICK w \in Versions, found \in Found : Run(w, found)
      BY DEF Next, Decide, Quiet, vars
  <2>2. \A d \in Candidates, u \in Versions :
            u # w => scores'[d][u] = scores[d][u] /\ recs'[d][u] = recs[d][u]
      BY <2>1, RunKeepsIInv DEF IInv
  <2>3. last'.version = w
      BY <2>1 DEF Run
  <2> QED
      BY <2>2, <2>3
<1> QED
    BY <1>1, Invariance, PTL DEF Spec, PastScoresStay
=============================================================================
