-------------------------- MODULE MarketSurvey_proofs --------------------------
(***************************************************************************)
(* Proofs about the admin page, for any texts, requests, offers, answers   *)
(* and limits: the market score and the reading of the calendar, what the  *)
(* analysis of a series is, and then what surveys leave and the page shows *)
(* of it.  The core is that a keyword whose title is taken for no other    *)
(* has one candidate, that what a job says was answered stays observed at  *)
(* its time or later whatever comes after it, and that candidates which    *)
(* come after the page began are younger than it.                          *)
(***************************************************************************)
EXTENDS MarketSurvey, Scoring_proofs

-----------------------------------------------------------------------------
(* The admin page's market score and the calendar.                         *)

(* The terms of the two sums stay in the range their weights give them.    *)
LEMMA TermTypes ==
    ASSUME NEW a \in Analyses
    PROVE  /\ Growth(a.quarter) \in 0..100 /\ Growth(a.period) \in 0..100
           /\ a.consistency \in 0..100 /\ Clamp(100 - a.volatility, 0, 100) \in 0..100
           /\ TimingScore(a.timing) \in 0..100
<1>1. /\ a.quarter \in Int /\ a.period \in Int
      /\ a.consistency \in 0..100 /\ a.volatility \in Nat
    BY DEF Analyses
<1> QED
    BY <1>1 DEF Growth, Clamp, TimingScore

(* Rounding a sum of percents in thousandths to tenths.                    *)
LEMMA Tenths ==
    ASSUME NEW n \in Int, 0 <= n, n <= 10000
    PROVE  HalfUp(n, 10) \in 0..1000
BY DEF HalfUp

(* The weights add up: the trend score is one of 0..100, in tenths.        *)
LEMMA TrendScoreIsAScore ==
    ASSUME NEW level \in 0..100, NEW a \in Analyses
    PROVE  TrendScore(level, a) \in 0..1000
<1> DEFINE g == Growth(a.quarter)
           p == Growth(a.period)
           c == a.consistency
           s == Clamp(100 - a.volatility, 0, 100)
           n == 35 * level + 25 * g + 15 * p + 15 * c + 10 * s
<1>1. g \in 0..100 /\ p \in 0..100 /\ c \in 0..100 /\ s \in 0..100
    BY TermTypes
<1>2. TrendScore(level, a) = HalfUp(n, 10)
    BY DEF TrendScore
<1> HIDE DEF g, p, c, s
<1>3. n \in Int /\ 0 <= n /\ n <= 10000
    BY <1>1
<1> HIDE DEF n
<1>4. HalfUp(n, 10) \in 0..1000
    BY <1>3, Tenths
<1> QED
    BY <1>2, <1>4

(* admin_overview: the score shown is one of 0..100 in tenths, whatever    *)
(* the analysis says; no growth, however steep, leaves that range.         *)
THEOREM MarketScoreIsAScore ==
    ASSUME NEW level \in 0..100, NEW a \in Analyses
    PROVE  MarketScore(level, a) \in 0..1000
<1> DEFINE t == TrendScore(level, a)
           k == TimingScore(a.timing)
           n == 9 * t + 10 * k
<1>1. t \in 0..1000 /\ k \in 0..100
  <2>1. t \in 0..1000
      BY TrendScoreIsAScore
  <2>2. k \in 0..100
      BY DEF TimingScore
  <2> QED
      BY <2>1, <2>2
<1>2. MarketScore(level, a) = HalfUp(n, 10)
    BY DEF MarketScore
<1> HIDE DEF t, k
<1>3. n \in Int /\ 0 <= n /\ n <= 10000
    BY <1>1
<1> HIDE DEF n
<1>4. HalfUp(n, 10) \in 0..1000
    BY <1>3, Tenths
<1> QED
    BY <1>2, <1>4

-----------------------------------------------------------------------------
LEMMA TermsAreMonotone ==
    ASSUME NEW a \in Analyses, NEW b \in Analyses, AnalysisNoWorse(a, b)
    PROVE  /\ Growth(b.quarter) <= Growth(a.quarter) /\ Growth(b.period) <= Growth(a.period)
           /\ b.consistency <= a.consistency
           /\ Clamp(100 - b.volatility, 0, 100) <= Clamp(100 - a.volatility, 0, 100)
           /\ TimingScore(b.timing) <= TimingScore(a.timing)
<1>1. /\ a.quarter \in Int /\ a.period \in Int /\ a.consistency \in 0..100 /\ a.volatility \in Nat
      /\ b.quarter \in Int /\ b.period \in Int /\ b.consistency \in 0..100 /\ b.volatility \in Nat
    BY DEF Analyses
<1> QED
    BY <1>1 DEF Growth, Clamp, AnalysisNoWorse

(* admin_overview: a keyword that is no worse in its level and in every    *)
(* metric has no lower score: rounding twice and clamping swap nothing.    *)
THEOREM MarketScoreIsMonotone ==
    ASSUME NEW level \in 0..100, NEW higher \in 0..100, level <= higher,
           NEW a \in Analyses, NEW b \in Analyses, AnalysisNoWorse(a, b)
    PROVE  MarketScore(level, b) <= MarketScore(higher, a)
<1>1. TrendScore(level, b) <= TrendScore(higher, a)
  <2> DEFINE g == Growth(b.quarter)
             p == Growth(b.period)
             c == b.consistency
             s == Clamp(100 - b.volatility, 0, 100)
             gg == Growth(a.quarter)
             pp == Growth(a.period)
             cc == a.consistency
             ss == Clamp(100 - a.volatility, 0, 100)
             n == 35 * level + 25 * g + 15 * p + 15 * c + 10 * s
             m == 35 * higher + 25 * gg + 15 * pp + 15 * cc + 10 * ss
  <2>1. g \in 0..100 /\ p \in 0..100 /\ c \in 0..100 /\ s \in 0..100
      BY TermTypes
  <2>2. gg \in 0..100 /\ pp \in 0..100 /\ cc \in 0..100 /\ ss \in 0..100
      BY TermTypes
  <2>3. g <= gg /\ p <= pp /\ c <= cc /\ s <= ss
      BY TermsAreMonotone
  <2>4. TrendScore(level, b) = HalfUp(n, 10) /\ TrendScore(higher, a) = HalfUp(m, 10)
      BY DEF TrendScore
  <2> HIDE DEF g, p, c, s, gg, pp, cc, ss
  <2>5. n \in Int /\ m \in Int /\ n <= m
      BY <2>1, <2>2, <2>3
  <2> HIDE DEF n, m
  <2>6. HalfUp(n, 10) <= HalfUp(m, 10)
      BY <2>5, HalfUpMonotone
  <2> QED
      BY <2>4, <2>6
<1> DEFINE t == TrendScore(level, b)
           tt == TrendScore(higher, a)
           k == TimingScore(b.timing)
           kk == TimingScore(a.timing)
           n == 9 * t + 10 * k
           m == 9 * tt + 10 * kk
<1>2. /\ t \in 0..1000 /\ tt \in 0..1000
      /\ k \in 0..100 /\ kk \in 0..100
  <2>1. t \in 0..1000
      BY TrendScoreIsAScore
  <2>2. tt \in 0..1000
      BY TrendScoreIsAScore
  <2>3. k \in 0..100
      BY DEF TimingScore
  <2>4. kk \in 0..100
      BY DEF TimingScore
  <2> QED
      BY <2>1, <2>2, <2>3, <2>4
<1>3. t <= tt /\ k <= kk
    BY <1>1, TermsAreMonotone
<1>4. MarketScore(level, b) = HalfUp(n, 10) /\ MarketScore(higher, a) = HalfUp(m, 10)
    BY DEF MarketScore
<1> HIDE DEF t, tt, k, kk
<1>5. n \in Int /\ m \in Int /\ n <= m
    BY <1>2, <1>3
<1> HIDE DEF n, m
<1>6. HalfUp(n, 10) <= HalfUp(m, 10)
    BY <1>5, HalfUpMonotone
<1> QED
    BY <1>4, <1>6

-----------------------------------------------------------------------------
(* A month is as far ahead in a calendar that is turned as it was before.  *)
LEMMA DistanceIsTurned ==
    ASSUME NEW m \in 1..12, NEW now \in 1..12, NEW by \in 0..11
    PROVE  (MonthTurned(m, by) - MonthTurned(now, by)) % 12 = (m - now) % 12
<1>1. /\ MonthTurned(m, by) = IF m + by > 12 THEN m + by - 12 ELSE m + by
      /\ MonthTurned(now, by) = IF now + by > 12 THEN now + by - 12 ELSE now + by
    BY DEF MonthTurned
<1> QED
    BY <1>1

LEMMA RatiosAreTurned ==
    ASSUME NEW series \in Seq(Point), NEW by \in 0..11
    PROVE  /\ Ratios(Turned(series, by)) = Ratios(series)
           /\ Len(Turned(series, by)) = Len(series)
           /\ DOMAIN Turned(series, by) = DOMAIN series
           /\ \A i \in DOMAIN series :
                 /\ Turned(series, by)[i].month = MonthTurned(series[i].month, by)
                 /\ Turned(series, by)[i].ratio = series[i].ratio
                 /\ series[i].month \in 1..12
<1>1. \A i \in DOMAIN series : series[i].month \in 1..12
  <2>1. SUFFICES ASSUME NEW i \in DOMAIN series PROVE series[i].month \in 1..12
      OBVIOUS
  <2>2. series[i] \in Point
      OBVIOUS
  <2> QED
      BY <2>2 DEF Point
<1>2. DOMAIN Turned(series, by) = DOMAIN series
    BY DEF Turned
<1>3. Len(Turned(series, by)) = Len(series)
    BY DEF Turned
<1> QED
    BY <1>1, <1>2, <1>3 DEF Turned, Ratios

(* _trend_analysis: what is said of the time to enter a market depends on  *)
(* how far its peak is ahead and on nothing else of the calendar: at the   *)
(* end of a year it is what it is in the middle.                           *)
THEOREM TimingIgnoresTheCalendar ==
    ASSUME NEW series \in Seq(Point), NEW now \in 1..12, NEW by \in 0..11
    PROVE  EntryTiming(Turned(series, by), MonthTurned(now, by)) = EntryTiming(series, now)
<1> DEFINE turned == Turned(series, by)
           peaks == {j \in DOMAIN series : 100 * series[j].ratio >= 85 * Highest(Ratios(series))}
<1>1. PeakMonths(series) = {series[i].month : i \in peaks}
    BY DEF PeakMonths
<1>2. PeakMonths(turned) = {MonthTurned(series[i].month, by) : i \in peaks}
  <2>1. PeakMonths(turned) = {turned[i].month : i \in {j \in DOMAIN turned :
              100 * turned[j].ratio >= 85 * Highest(Ratios(turned))}}
      BY DEF PeakMonths
  <2>2. {j \in DOMAIN turned : 100 * turned[j].ratio >= 85 * Highest(Ratios(turned))} = peaks
      BY RatiosAreTurned
  <2>3. \A i \in peaks : turned[i].month = MonthTurned(series[i].month, by)
      BY RatiosAreTurned
  <2> HIDE DEF peaks, turned
  <2> QED
      BY <2>1, <2>2, <2>3
<1>3. {(m - MonthTurned(now, by)) % 12 : m \in PeakMonths(turned)}
          = {(m - now) % 12 : m \in PeakMonths(series)}
  <2>1. \A i \in peaks : (MonthTurned(series[i].month, by) - MonthTurned(now, by)) % 12
                            = (series[i].month - now) % 12
      BY DistanceIsTurned, RatiosAreTurned
  <2> HIDE DEF peaks, turned
  <2> QED
      BY <1>1, <1>2, <2>1
<1>4. MonthsUntil(PeakMonths(turned), MonthTurned(now, by)) = MonthsUntil(PeakMonths(series), now)
    BY <1>3 DEF MonthsUntil
<1>5. SeasonalityAtLeast(Ratios(turned), 40) = SeasonalityAtLeast(Ratios(series), 40)
    BY RatiosAreTurned
<1>6. Len(turned) = Len(series)
    BY RatiosAreTurned
<1> HIDE DEF turned
<1>7. EntryTiming(turned, MonthTurned(now, by)) = EntryTiming(series, now)
    BY <1>4, <1>5, <1>6 DEF EntryTiming
<1> QED
    BY <1>7 DEF turned

-----------------------------------------------------------------------------
(* Sums over a finite set: the fold that SumFunction stands for takes one  *)
(* element off after the other.                                            *)
LEMMA LeastSubset ==
    ASSUME NEW S, IsFiniteSet(S), NEW B, B \subseteq SUBSET S, B # {}
    PROVE  \E T \in B : \A U \in B : U \subseteq T => U = T
<1>1. IsWellFoundedOn(StrictSubsetOrdering(S), SUBSET S)
  BY FS_StrictSubsetOrderingWellFounded, FS_FiniteSubsetsOfFinite
<1>2. PICK T \in B : \A U \in B : ~ (<<U, T>> \in StrictSubsetOrdering(S))
  BY <1>1, WFMin
<1>3. ASSUME NEW U \in B, U \subseteq T PROVE U = T
  BY <1>2, <1>3 DEF StrictSubsetOrdering
<1> QED  BY <1>3

Some(T) == CHOOSE x \in T : TRUE
Sums(f, T, g) == g = [s \in SUBSET T |-> IF s = {} THEN 0 ELSE f[Some(s)] + g[s \ {Some(s)}]]

LEMMA SumIsAFold ==
    ASSUME NEW f, NEW T
    PROVE  SumFunctionOnSet(f, T) = (CHOOSE g : Sums(f, T, g))[T]
BY DEF SumFunctionOnSet, FoldFunctionOnSet, MapThenFoldSet, Sums, Some

(* Two folds agree wherever both are defined.                              *)
LEMMA SumsAgree ==
    ASSUME NEW f, NEW S, IsFiniteSet(S), NEW T \in SUBSET S, NEW U \in SUBSET S,
           NEW g, NEW h, Sums(f, T, g), Sums(f, U, h), NEW s \in SUBSET S,
           s \subseteq T, s \subseteq U
    PROVE  g[s] = h[s]
<1> DEFINE B == {t \in SUBSET S : t \subseteq T /\ t \subseteq U /\ g[t] # h[t]}
<1>1. SUFFICES ASSUME B # {} PROVE FALSE  OBVIOUS
<1>2. PICK t \in B : \A u \in B : u \subseteq t => u = t
  <2>1. B \subseteq SUBSET S  OBVIOUS
  <2> HIDE DEF B
  <2> QED  BY <1>1, <2>1, LeastSubset
<1>3. /\ g[t] = IF t = {} THEN 0 ELSE f[Some(t)] + g[t \ {Some(t)}]
      /\ h[t] = IF t = {} THEN 0 ELSE f[Some(t)] + h[t \ {Some(t)}]
  <2>1. t \in SUBSET T /\ t \in SUBSET U  OBVIOUS
  <2> QED  BY <2>1 DEF Sums
<1>4. CASE t = {}
  BY <1>3, <1>4
<1>5. CASE t # {}
  <2>1. Some(t) \in t  BY <1>5 DEF Some
  <2>2. t \ {Some(t)} \notin B  BY <1>2, <2>1
  <2>3. g[t \ {Some(t)}] = h[t \ {Some(t)}]  BY <2>2
  <2> QED  BY <1>3, <1>5, <2>3
<1> QED  BY <1>4, <1>5

(* Every finite set has one.                                               *)
LEMMA SumsExist ==
    ASSUME NEW f, NEW S, IsFiniteSet(S), NEW T \in SUBSET S
    PROVE  \E g : Sums(f, T, g)
<1> DEFINE B == {U \in SUBSET S : ~ \E g : Sums(f, U, g)}
<1>1. SUFFICES ASSUME B # {} PROVE FALSE  OBVIOUS
<1>2. PICK U \in B : \A V \in B : V \subseteq U => V = U
  <2>1. B \subseteq SUBSET S  OBVIOUS
  <2> HIDE DEF B
  <2> QED  BY <1>1, <2>1, LeastSubset
<1> DEFINE sol(V) == CHOOSE g : Sums(f, V, g)
<1>3. ASSUME NEW V \in SUBSET U, V # U PROVE Sums(f, V, sol(V))
  <2>1. V \in SUBSET S /\ V \notin B  BY <1>2, <1>3
  <2>2. \E g : Sums(f, V, g)  BY <2>1
  <2> QED  BY <2>2
<1> DEFINE below(s) == IF s = {} THEN 0 ELSE f[Some(s)] + sol(s \ {Some(s)})[s \ {Some(s)}]
           g == [s \in SUBSET U |-> below(s)]
<1>4. ASSUME NEW s \in SUBSET U, s # {}
      PROVE  g[s \ {Some(s)}] = sol(s \ {Some(s)})[s \ {Some(s)}]
  <2> DEFINE r == s \ {Some(s)}
  <2>1. Some(s) \in s  BY <1>4 DEF Some
  <2>2. r \in SUBSET U /\ r # U /\ r \in SUBSET r  BY <2>1
  <2>3. Sums(f, r, sol(r))  BY <1>3, <2>2
  <2>4. sol(r)[r] = IF r = {} THEN 0 ELSE f[Some(r)] + sol(r)[r \ {Some(r)}]
    BY <2>2, <2>3 DEF Sums
  <2>5. g[r] = below(r)  BY <2>2
  <2>6. CASE r = {}  BY <2>4, <2>5, <2>6
  <2>7. CASE r # {}
    <3> DEFINE q == r \ {Some(r)}
    <3>1. Some(r) \in r  BY <2>7 DEF Some
    <3>2. q \in SUBSET U /\ q # U /\ q \subseteq r /\ q \subseteq q  BY <2>2, <3>1
    <3>3. Sums(f, q, sol(q))  BY <1>3, <3>2
    <3>4. q \in SUBSET S /\ r \in SUBSET S  BY <2>2, <3>2
    <3> HIDE DEF sol, q, r
    <3>5. sol(r)[q] = sol(q)[q]
      BY <2>3, <3>2, <3>3, <3>4, SumsAgree
    <3> QED  BY <2>4, <2>5, <2>7, <3>5 DEF q, r
  <2> QED  BY <2>6, <2>7
<1>5. Sums(f, U, g)
  <2>1. \A s \in SUBSET U : below(s) = IF s = {} THEN 0 ELSE f[Some(s)] + g[s \ {Some(s)}]
    <3> HIDE DEF g, sol
    <3> QED  BY <1>4
  <2> HIDE DEF below
  <2> QED  BY <2>1 DEF Sums
<1> QED  BY <1>2, <1>5

LEMMA SumUnfolds ==
    ASSUME NEW f, NEW S, IsFiniteSet(S), NEW T \in SUBSET S
    PROVE  /\ T = {} => SumFunctionOnSet(f, T) = 0
           /\ T # {} => /\ Some(T) \in T
                        /\ SumFunctionOnSet(f, T)
                              = f[Some(T)] + SumFunctionOnSet(f, T \ {Some(T)})
<1> DEFINE r == T \ {Some(T)}
           g == CHOOSE x : Sums(f, T, x)
           h == CHOOSE x : Sums(f, r, x)
<1>1. Sums(f, T, g)
  <2>1. \E x : Sums(f, T, x)  BY SumsExist
  <2> QED  BY <2>1
<1>2. Sums(f, r, h)
  <2>1. r \in SUBSET S  OBVIOUS
  <2>2. \E x : Sums(f, r, x)  BY <2>1, SumsExist
  <2> QED  BY <2>2
<1>3. g[T] = IF T = {} THEN 0 ELSE f[Some(T)] + g[r]
  BY <1>1 DEF Sums
<1>4. g[r] = h[r]
  <2>1. T \in SUBSET S /\ r \in SUBSET S /\ r \subseteq T /\ r \subseteq r  OBVIOUS
  <2> HIDE DEF g, h, r
  <2>2. ASSUME NEW t \in SUBSET S, t \subseteq T, NEW x, NEW y, Sums(f, T, x), Sums(f, t, y)
        PROVE  x[t] = y[t]
    <3>1. t \subseteq t  OBVIOUS
    <3> QED  BY <2>2, <3>1, SumsAgree
  <2> QED  BY <1>1, <1>2, <2>1, <2>2
<1>5. SumFunctionOnSet(f, T) = g[T] /\ SumFunctionOnSet(f, r) = h[r]
  BY SumIsAFold
<1>6. T # {} => Some(T) \in T  BY DEF Some
<1> HIDE DEF g, h
<1> QED  BY <1>3, <1>4, <1>5, <1>6

LEMMA Divided ==
    ASSUME NEW n \in Nat \ {0}, NEW x \in Int, NEW y \in Int, n * x <= n * y
    PROVE  x <= y
<1>1. SUFFICES ASSUME y + 1 <= x PROVE FALSE  OBVIOUS
<1>2. n * (y + 1) <= n * x  BY <1>1
<1>3. n * (y + 1) = n * y + n  OBVIOUS
<1> QED  BY <1>2, <1>3

(* Twice a product is no more than the sum of the squares.                 *)
LEMMA SquareOfADifference ==
    ASSUME NEW x \in Int, NEW y \in Int
    PROVE  2 * (x * y) <= x * x + y * y
<1>1. (x - y) * (x - y) = x * x - 2 * (x * y) + y * y  OBVIOUS
<1>2. (x - y) * (x - y) >= 0
  <2> DEFINE d == x - y
  <2>1. d \in Int  OBVIOUS
  <2> HIDE DEF d
  <2>2. d * d >= 0  BY <2>1
  <2> QED  BY <2>2 DEF d
<1>3. x * x \in Int /\ y * y \in Int /\ x * y \in Int  OBVIOUS
<1> QED  BY <1>1, <1>2, <1>3

LEMMA CrossTerm ==
    ASSUME NEW n \in Nat, NEW s \in Nat, NEW z \in Nat, NEW a \in Nat, s * s <= n * z
    PROVE  2 * (a * s) <= n * (a * a) + z
<1>1. CASE n = 0
  <2>1. s = 0  BY <1>1
  <2> QED  BY <1>1, <2>1
<1>2. CASE n # 0
  <2>1. 2 * ((n * a) * s) <= (n * a) * (n * a) + s * s
    <3>1. n * a \in Int /\ s \in Int  OBVIOUS
    <3> QED  BY <3>1, SquareOfADifference
  <2>2. /\ (n * a) * s = n * (a * s) /\ (n * a) * (n * a) = n * (n * (a * a))
        /\ n * (2 * (a * s)) = 2 * (n * (a * s))
        /\ n * (n * (a * a) + z) = n * (n * (a * a)) + n * z
    OBVIOUS
  <2> DEFINE p == n * (a * s)
             q == n * (n * (a * a))
             l == n * (2 * (a * s))
             r == n * (n * (a * a) + z)
  <2>3. p \in Int /\ q \in Int /\ l \in Int /\ r \in Int  OBVIOUS
  <2>4. l = 2 * p /\ r = q + n * z /\ 2 * p <= q + s * s  BY <2>1, <2>2
  <2>5. n * (2 * (a * s)) <= n * (n * (a * a) + z)
    <3> HIDE DEF p, q, l, r
    <3>1. l <= r  BY <2>3, <2>4
    <3> QED  BY <3>1 DEF l, r
  <2>6. 2 * (a * s) \in Int /\ n * (a * a) + z \in Int /\ n \in Nat \ {0}  BY <1>2
  <2> QED  BY <2>5, <2>6, Divided
<1> QED  BY <1>1, <1>2

LEMMA SpreadOfTerms ==
    ASSUME NEW t \in Nat, NEW aa \in Nat, NEW ss \in Nat, NEW nz \in Nat, NEW naa \in Nat,
           NEW z \in Nat, ss <= nz, z <= ss, t <= naa + z
    PROVE  aa + z <= aa + t + ss /\ aa + t + ss <= naa + aa + nz + z
OBVIOUS

(* One more number keeps the sum of squares above the square of the mean.  *)
LEMMA SpreadGrows ==
    ASSUME NEW n \in Nat, NEW s \in Nat, NEW z \in Nat, NEW a \in Nat,
           s * s <= n * z, z <= s * s
    PROVE  /\ a * a + z <= (a + s) * (a + s)
           /\ (a + s) * (a + s) <= (n + 1) * (a * a + z)
<1>1. (a + s) * (a + s) = a * a + 2 * (a * s) + s * s  OBVIOUS
<1>2. (n + 1) * (a * a + z) = n * (a * a) + a * a + n * z + z  OBVIOUS
<1>3. 2 * (a * s) <= n * (a * a) + z  BY CrossTerm
<1>4. 2 * (a * s) \in Nat /\ a * a \in Nat /\ s * s \in Nat /\ n * z \in Nat /\ n * (a * a) \in Nat
  OBVIOUS
<1>5. /\ a * a + z <= a * a + 2 * (a * s) + s * s
      /\ a * a + 2 * (a * s) + s * s <= n * (a * a) + a * a + n * z + z
  BY <1>3, <1>4, SpreadOfTerms
<1> QED  BY <1>1, <1>2, <1>5

LEMMA SumsOfSquares ==
    ASSUME NEW D, IsFiniteSet(D), NEW f, \A i \in D : f[i] \in Nat,
           NEW q, \A i \in D : q[i] = f[i] * f[i]
    PROVE  /\ Cardinality(D) \in Nat
           /\ SumFunctionOnSet(f, D) \in Nat /\ SumFunctionOnSet(q, D) \in Nat
           /\ SumFunctionOnSet(q, D) <= SumFunctionOnSet(f, D) * SumFunctionOnSet(f, D)
           /\ SumFunctionOnSet(f, D) * SumFunctionOnSet(f, D)
                 <= Cardinality(D) * SumFunctionOnSet(q, D)
<1> DEFINE s(T) == SumFunctionOnSet(f, T)
           z(T) == SumFunctionOnSet(q, T)
           P(T) == /\ Cardinality(T) \in Nat /\ s(T) \in Nat /\ z(T) \in Nat
                   /\ z(T) <= s(T) * s(T) /\ s(T) * s(T) <= Cardinality(T) * z(T)
           B == {T \in SUBSET D : ~ P(T)}
<1>1. SUFFICES ASSUME B # {} PROVE FALSE
  <2>1. D \in SUBSET D  OBVIOUS
  <2> QED  BY <2>1
<1>2. PICK T \in B : \A U \in B : U \subseteq T => U = T
  <2>1. B \subseteq SUBSET D  OBVIOUS
  <2> HIDE DEF B
  <2> QED  BY <1>1, <2>1, LeastSubset
<1>3. T \in SUBSET D  OBVIOUS
<1> DEFINE r == T \ {Some(T)}
<1>4. /\ T = {} => s(T) = 0 /\ z(T) = 0
      /\ T # {} => Some(T) \in T /\ s(T) = f[Some(T)] + s(r) /\ z(T) = q[Some(T)] + z(r)
  <2>1. /\ T = {} => s(T) = 0
        /\ T # {} => Some(T) \in T /\ s(T) = f[Some(T)] + s(r)
    BY <1>3, SumUnfolds
  <2>2. /\ T = {} => z(T) = 0
        /\ T # {} => z(T) = q[Some(T)] + z(r)
    BY <1>3, SumUnfolds
  <2> QED  BY <2>1, <2>2
<1>5. CASE T = {}
  <2>1. Cardinality(T) = 0  BY <1>5, FS_EmptySet
  <2> HIDE DEF s, z
  <2>2. P(T)  BY <1>4, <1>5, <2>1
  <2> QED  BY <2>2
<1>6. CASE T # {}
  <2>1. Some(T) \in T /\ Some(T) \in D  BY <1>3, <1>4, <1>6
  <2>2. r \in SUBSET D /\ r \notin B  BY <1>2, <2>1
  <2>3. P(r)  BY <2>2
  <2>4. IsFiniteSet(T) /\ IsFiniteSet(r)  BY <1>3, <2>2, FS_Subset
  <2>5. Cardinality(T) = Cardinality(r) + 1
    <3>1. Some(T) \notin r /\ T = r \cup {Some(T)}  BY <2>1
    <3> HIDE DEF r
    <3>2. Cardinality(r \cup {Some(T)}) = Cardinality(r) + 1  BY <2>4, <3>1, FS_AddElement
    <3> QED  BY <3>1, <3>2
  <2> DEFINE a == f[Some(T)]
  <2>6. a \in Nat /\ q[Some(T)] = a * a  BY <2>1
  <2>7. s(T) = a + s(r) /\ z(T) = a * a + z(r)  BY <1>4, <1>6, <2>6
  <2> HIDE DEF a, s, z, r
  <2>8. /\ a * a + z(r) <= (a + s(r)) * (a + s(r))
        /\ (a + s(r)) * (a + s(r)) <= (Cardinality(r) + 1) * (a * a + z(r))
    BY <2>3, <2>6, SpreadGrows
  <2>9. a + s(r) \in Nat /\ a * a + z(r) \in Nat /\ Cardinality(T) \in Nat
    BY <2>3, <2>5, <2>6
  <2>10. P(T)  BY <2>5, <2>7, <2>8, <2>9
  <2> QED  BY <2>10
<1> QED  BY <1>5, <1>6

LEMMA RootExists ==
    ASSUME NEW scale \in Nat, NEW m \in Nat, NEW x \in Nat,
           x < ((m + 1) * scale) * ((m + 1) * scale)
    PROVE  \E v \in 0..m : /\ (v * scale) * (v * scale) <= x
                           /\ x < ((v + 1) * scale) * ((v + 1) * scale)
<1> DEFINE sq(k) == (k * scale) * (k * scale)
           T == {k \in 0..m : x < sq(k + 1)}
<1>1. \A k \in Int : sq(k) \in Int  OBVIOUS
<1>2. x < sq(m + 1) /\ sq(0) = 0  OBVIOUS
<1> HIDE DEF sq
<1>3. T \in SUBSET Nat /\ T # {}  BY <1>2
<1>4. PICK v \in T : \A k \in T : v <= k  BY <1>3, LeastIndex
<1>5. v \in 0..m /\ x < sq(v + 1)  OBVIOUS
<1>6. sq(v) <= x
  <2>1. CASE v = 0  BY <1>2, <2>1
  <2>2. CASE v # 0
    <3>1. v - 1 \in 0..m /\ (v - 1) + 1 = v  BY <1>5, <2>2
    <3>2. v - 1 \notin T  BY <1>4, <1>5, <3>1
    <3>3. ~ (x < sq(v))  BY <3>1, <3>2
    <3>4. sq(v) \in Int  BY <1>1, <1>5
    <3> QED  BY <3>3, <3>4
  <2> QED  BY <2>1, <2>2
<1> QED  BY <1>5, <1>6 DEF sq

(* The standard deviation of ratios is no more than n times their mean, or *)
(* than n where the mean is below one.                                     *)
LEMMA SpreadIsBounded ==
    ASSUME NEW n \in Nat \ {0}, NEW sum \in Nat, NEW z \in Nat, NEW scale \in Nat,
           z <= sum * sum, sum * sum <= n * z, sum <= scale, 0 < scale
    PROVE  /\ 10000 * (n * z - sum * sum) \in Nat
           /\ 10000 * (n * z - sum * sum)
                 < ((100 * n + 1) * scale) * ((100 * n + 1) * scale)
<1> DEFINE d == n * z - sum * sum
           e == 100 * (n * scale)
           g == n * scale
<1>1. n * z \in Nat /\ sum * sum \in Nat /\ scale * scale \in Nat /\ g \in Nat  OBVIOUS
<1>2. d \in Nat /\ d <= n * z  BY <1>1
<1>3. z <= scale * scale
  <2>1. sum * sum <= scale * scale  BY ProductsKeepOrder
  <2> QED  BY <1>1, <2>1
<1>4. n * z <= n * (scale * scale)
  <2>1. n <= n /\ n \in Nat  OBVIOUS
  <2> QED  BY <1>1, <1>3, <2>1, ProductsKeepOrder
<1>5. n * (scale * scale) <= g * g
  <2>1. n <= n * n /\ n * n \in Nat  OBVIOUS
  <2>2. n * (scale * scale) <= (n * n) * (scale * scale)
    <3>1. scale * scale <= scale * scale /\ n \in Nat  BY <1>1
    <3> QED  BY <1>1, <2>1, <3>1, ProductsKeepOrder
  <2>3. (n * n) * (scale * scale) = g * g  OBVIOUS
  <2> QED  BY <2>2, <2>3
<1>6. d <= g * g
  <2>1. n * (scale * scale) \in Nat /\ g * g \in Nat  BY <1>1
  <2> HIDE DEF d, g
  <2> QED  BY <1>1, <1>2, <1>4, <1>5, <2>1
<1>7. (100 * n + 1) * scale = 100 * g + scale  OBVIOUS
<1>8. (100 * g + scale) * (100 * g + scale) = 10000 * (g * g) + 200 * (g * scale) + scale * scale
  OBVIOUS
<1>9. scale * scale > 0  OBVIOUS
<1>10. g * g \in Nat /\ g * scale \in Nat  BY <1>1
<1>11. 10000 * d < 10000 * (g * g) + 200 * (g * scale) + scale * scale
  <2>1. ASSUME NEW gg \in Nat, NEW gs \in Nat, NEW ss \in Nat, NEW dd \in Nat, dd <= gg, ss > 0
        PROVE  10000 * dd < 10000 * gg + 200 * gs + ss
    BY <2>1
  <2> HIDE DEF d, g
  <2> QED  BY <1>1, <1>2, <1>6, <1>9, <1>10, <2>1
<1>12. 10000 * d \in Nat  BY <1>2
<1> QED  BY <1>7, <1>8, <1>11, <1>12

LEMMA RatiosType ==
    ASSUME NEW series \in Seq(Point), series # << >>
    PROVE  /\ Ratios(series) \in Seq(Nat) /\ Len(Ratios(series)) = Len(series)
           /\ Len(series) \in Nat \ {0}
           /\ \A i \in 1..Len(series) : Ratios(series)[i] = series[i].ratio
<1>1. ASSUME NEW i \in DOMAIN series PROVE series[i].ratio \in Nat
  <2>1. series[i] \in Point  OBVIOUS
  <2> QED  BY <2>1 DEF Point
<1>2. Len(series) \in Nat /\ Len(series) # 0 /\ DOMAIN series = 1..Len(series)
  BY EmptySeq
<1>3. Ratios(series) = [i \in 1..Len(series) |-> series[i].ratio]
  BY <1>2 DEF Ratios
<1> QED  BY <1>1, <1>2, <1>3

LEMMA VolatilityType ==
    ASSUME NEW values \in Seq(Nat), Len(values) # 0
    PROVE  Volatility(values) \in Nat
<1> DEFINE n == Len(values)
           D == DOMAIN values
           sum == SumFunction(values)
           z == SumFunction(Squares(values))
           scale == IF sum < n THEN n ELSE sum
           spread == n * z - sum * sum
<1>1. n \in Nat \ {0} /\ D = 1..n  OBVIOUS
<1>2. IsFiniteSet(D) /\ Cardinality(D) = n
  BY <1>1, FS_Interval
<1>3. \A i \in D : values[i] \in Nat  OBVIOUS
<1>4. DOMAIN Squares(values) = D /\ \A i \in D : Squares(values)[i] = values[i] * values[i]
  BY DEF Squares
<1>5. sum = SumFunctionOnSet(values, D) /\ z = SumFunctionOnSet(Squares(values), D)
  BY <1>4 DEF SumFunction, SumFunctionOnSet
<1>6. sum \in Nat /\ z \in Nat /\ z <= sum * sum /\ sum * sum <= n * z
  <2> HIDE DEF D, sum, z, n
  <2> QED  BY <1>2, <1>3, <1>4, <1>5, SumsOfSquares
<1> HIDE DEF n, sum, z
<1>7. scale \in Nat /\ sum <= scale /\ 0 < scale  BY <1>1, <1>6
<1>8. /\ 10000 * spread \in Nat
      /\ 10000 * spread < ((100 * n + 1) * scale) * ((100 * n + 1) * scale)
  <2> HIDE DEF scale
  <2> QED  BY <1>1, <1>6, <1>7, SpreadIsBounded
<1>9. \E v \in 0..(100 * n) : /\ (v * scale) * (v * scale) <= 10000 * spread
                              /\ 10000 * spread < ((v + 1) * scale) * ((v + 1) * scale)
  <2> DEFINE m == 100 * n
             x == 10000 * spread
  <2>1. m \in Nat  BY <1>1
  <2>2. x \in Nat /\ x < ((m + 1) * scale) * ((m + 1) * scale)  BY <1>8
  <2> HIDE DEF spread, scale, m, x
  <2>3. \E v \in 0..m : /\ (v * scale) * (v * scale) <= x
                        /\ x < ((v + 1) * scale) * ((v + 1) * scale)
    BY <1>7, <2>1, <2>2, RootExists
  <2> QED  BY <2>3 DEF m, x
<1>10. Volatility(values)
        = CHOOSE v \in 0..(100 * n) : /\ (v * scale) * (v * scale) <= 10000 * spread
                                      /\ 10000 * spread < ((v + 1) * scale) * ((v + 1) * scale)
  BY DEF Volatility, n, sum, z
<1> HIDE DEF spread, scale
<1>11. Volatility(values) \in 0..(100 * n)  BY <1>9, <1>10
<1> QED  BY <1>1, <1>11

LEMMA HalfAwayType ==
    ASSUME NEW n \in Int, NEW d \in Nat \ {0}
    PROVE  HalfAway(n, d) \in Int
<1>1. \A m \in Int : HalfUp(m, d) \in Int
  <2>1. SUFFICES ASSUME NEW m \in Int PROVE HalfUp(m, d) \in Int  OBVIOUS
  <2>2. 2 * d \in Int /\ 2 * d > 0 /\ 2 * m + d \in Int  OBVIOUS
  <2> QED  BY <2>2, Z3 DEF HalfUp
<1>2. -n \in Int  OBVIOUS
<1>3. CASE n < 0
  <2>1. HalfUp(-n, d) \in Int  BY <1>1, <1>2
  <2>2. HalfAway(n, d) = -HalfUp(-n, d)  BY <1>3 DEF HalfAway
  <2> QED  BY <2>1, <2>2
<1>4. CASE ~ (n < 0)
  <2>1. HalfUp(n, d) \in Int  BY <1>1
  <2>2. HalfAway(n, d) = HalfUp(n, d)  BY <1>4 DEF HalfAway
  <2> QED  BY <2>1, <2>2
<1> QED  BY <1>3, <1>4

LEMMA ChangeType ==
    ASSUME NEW values \in Seq(Nat), Len(values) # 0, NEW back \in Nat
    PROVE  ChangeFrom(values, back) \in Int
<1> DEFINE n == Len(values)
           i == AtLeastOne(n - back)
           base == values[i]
<1>1. n \in 1..n  OBVIOUS
<1>2. i \in 1..n  BY <1>1 DEF AtLeastOne
<1>3. base \in Nat /\ values[n] \in Nat
  <2> HIDE DEF i
  <2> QED  BY <1>1, <1>2
<1>4. ChangeFrom(values, back) = HalfAway(100 * (values[n] - base), AtLeastOne(base))
  BY DEF ChangeFrom
<1> HIDE DEF base, i
<1>5. 100 * (values[n] - base) \in Int /\ AtLeastOne(base) \in Nat \ {0}
  BY <1>3 DEF AtLeastOne
<1> QED  BY <1>4, <1>5, HalfAwayType

LEMMA ShareIsAPercent ==
    ASSUME NEW values \in Seq(Nat), Len(values) # 0
    PROVE  PositiveShare(values) \in 0..100
<1> DEFINE n == Len(values)
           rises == {i \in 1..(n - 1) : values[i] < values[i + 1]}
           d == AtLeastOne(n - 1)
           r == Rises(values)
<1>1. n \in Nat \ {0} /\ n - 1 \in Nat  OBVIOUS
<1>2. IsFiniteSet(1..(n - 1)) /\ Cardinality(1..(n - 1)) = n - 1
  <2> HIDE DEF n
  <2> QED  BY <1>1, FS_Interval
<1>3. rises \subseteq 1..(n - 1)  OBVIOUS
<1>4. Cardinality(rises) \in Nat /\ Cardinality(rises) <= n - 1
  <2> HIDE DEF rises, n
  <2>1. IsFiniteSet(rises) /\ Cardinality(rises) <= Cardinality(1..(n - 1))
    BY <1>2, <1>3, FS_Subset
  <2>2. Cardinality(rises) \in Nat  BY <2>1, FS_CardinalityType
  <2> QED  BY <1>2, <2>1, <2>2
<1>5. r = Cardinality(rises) /\ PositiveShare(values) = HalfUp(100 * r, d)
  BY DEF Rises, PositiveShare
<1> HIDE DEF r, rises, n
<1>6. d \in Nat \ {0} /\ n - 1 <= d  BY <1>1 DEF AtLeastOne
<1> HIDE DEF d
<1>7. r \in Nat /\ r <= d  BY <1>1, <1>4, <1>5, <1>6
<1>8. 100 * r \in Int /\ 0 * d <= 100 * r /\ 100 * r <= 100 * d  BY <1>6, <1>7
<1> DEFINE share == HalfUp(100 * r, d)
<1>9. share \in Int /\ 0 <= share /\ share <= 100
  BY <1>6, <1>8, HalfUpBounds
<1>10. PositiveShare(values) = share  BY <1>5
<1> HIDE DEF share
<1> QED  BY <1>9, <1>10

(* _trend_analysis makes an analysis of every series.                      *)
LEMMA AnalysisIsAnAnalysis ==
    ASSUME NEW series \in Seq(Point), NEW now \in 1..12
    PROVE  Analysis(series, now) \in Analyses
<1>1. CASE series = << >>
  <2>1. Analysis(series, now) = [quarter |-> 0, period |-> 0, consistency |-> 0,
                                 volatility |-> 0, timing |-> "none"]
    BY <1>1 DEF Analysis
  <2> QED  BY <2>1 DEF Analyses, Timings
<1>2. CASE series # << >>
  <2> DEFINE values == Ratios(series)
             timing == EntryTiming(series, now)
  <2>1. values \in Seq(Nat) /\ Len(values) # 0 /\ Len(values) \in Nat
    BY <1>2, RatiosType
  <2>2. timing \in Timings
    BY DEF EntryTiming, Timings
  <2>3. Analysis(series, now) =
          [quarter |-> ChangeFrom(values, 3), period |-> ChangeFrom(values, Len(values) - 1),
           consistency |-> PositiveShare(values), volatility |-> Volatility(values),
           timing |-> timing]
    BY <1>2 DEF Analysis
  <2> HIDE DEF values, timing
  <2>4. ChangeFrom(values, 3) \in Int  BY <2>1, ChangeType
  <2>5. ChangeFrom(values, Len(values) - 1) \in Int
    <3>1. Len(values) - 1 \in Nat  BY <2>1
    <3> QED  BY <2>1, <3>1, ChangeType
  <2>6. PositiveShare(values) \in 0..100 /\ Volatility(values) \in Nat
    BY <2>1, ShareIsAPercent, VolatilityType
  <2> QED  BY <2>2, <2>3, <2>4, <2>5, <2>6 DEF Analyses
<1> QED  BY <1>1, <1>2

-----------------------------------------------------------------------------
LEMMA ImageIsFinite ==
    ASSUME NEW S, IsFiniteSet(S), NEW f, DOMAIN f = S
    PROVE  IsFiniteSet({f[x] : x \in S})
<1> DEFINE T == {f[x] : x \in S}
           g == [x \in S |-> f[x]]
<1>1. g \in Surjection(S, T)  BY DEF Surjection
<1> HIDE DEF T, g
<1>2. IsFiniteSet(T)  BY <1>1, FS_Surjection
<1> QED  BY <1>2 DEF T

(* A finite set with an order has a member that none comes before.         *)
LEMMA FirstExists ==
    ASSUME NEW S, IsFiniteSet(S), S # {}, NEW R, \A x \in S : <<x, x>> \notin R,
           \A x, y, z \in S : <<x, y>> \in R /\ <<y, z>> \in R => <<x, z>> \in R
    PROVE  \E x \in S : \A y \in S : <<y, x>> \notin R
<1> DEFINE before(x) == {y \in S : <<y, x>> \in R}
           B == {U \in SUBSET S : \E x \in S : U = before(x)}
<1>1. B \subseteq SUBSET S  OBVIOUS
<1>2. B # {}
  <2>1. PICK x \in S : TRUE  OBVIOUS
  <2>2. before(x) \in B  OBVIOUS
  <2> QED  BY <2>2
<1>3. PICK T \in B : \A U \in B : U \subseteq T => U = T
  <2> HIDE DEF B
  <2> QED  BY <1>1, <1>2, LeastSubset
<1>4. PICK x \in S : T = before(x)  OBVIOUS
<1>5. ASSUME NEW y \in S, <<y, x>> \in R PROVE FALSE
  <2>1. before(y) \in B  OBVIOUS
  <2>2. before(y) \subseteq before(x)  BY <1>5
  <2>3. before(y) = before(x)  BY <1>3, <1>4, <2>1, <2>2
  <2>4. y \in before(x) /\ y \notin before(y)  BY <1>5
  <2> QED  BY <2>3, <2>4
<1> QED  BY <1>5

(* The largest of finitely many numbers, and a row's share of it.          *)
LEMMA MaxOfNumbers ==
    ASSUME NEW S, S \subseteq Nat, IsFiniteSet(S), S # {}
    PROVE  Max(S) \in S /\ \A x \in S : x <= Max(S)
<1>1. \A x \in S : x \in Int  OBVIOUS
<1> DEFINE R == {z \in S \X S : z[1] > z[2]}
<1>2. /\ \A x \in S : <<x, x>> \notin R
      /\ \A x, y, z \in S : <<x, y>> \in R /\ <<y, z>> \in R => <<x, z>> \in R
  BY <1>1
<1> HIDE DEF R
<1>3. PICK x \in S : \A y \in S : <<y, x>> \notin R
  BY <1>2, FirstExists
<1>4. ASSUME NEW y \in S PROVE x >= y
  <2>1. <<y, x>> \notin R  BY <1>3
  <2>2. ~ (y > x)  BY <2>1 DEF R
  <2>3. x \in Int /\ y \in Int  BY <1>1
  <2> QED  BY <2>2, <2>3
<1> QED  BY <1>4 DEF Max

LEMMA LevelIsAPercent ==
    ASSUME NEW rows, IsFiniteSet(rows), \A r \in rows : r.searches \in Nat /\ r.latest \in Nat,
           NEW row \in rows
    PROVE  Level(row, rows) \in 0..100
<1> DEFINE all == {r.searches : r \in rows}
           shares == {r.latest : r \in rows}
           searches == Max(all)
           latest == Max(shares)
<1>1. IsFiniteSet(all) /\ IsFiniteSet(shares)
  <2> DEFINE f == [r \in rows |-> r.searches]
             g == [r \in rows |-> r.latest]
  <2>1. all = {f[r] : r \in rows} /\ shares = {g[r] : r \in rows}  OBVIOUS
  <2>2. DOMAIN f = rows /\ DOMAIN g = rows  OBVIOUS
  <2> HIDE DEF all, shares, f, g
  <2> QED  BY <2>1, <2>2, ImageIsFinite
<1>2. all \subseteq Nat /\ shares \subseteq Nat /\ row.searches \in all /\ row.latest \in shares
  OBVIOUS
<1>3. /\ Level(row, rows) = IF searches > 0 THEN HalfUp(100 * row.searches, searches)
                            ELSE HalfUp(100 * row.latest, AtLeastOne(latest))
  BY DEF Level
<1> HIDE DEF all, shares
<1>4. /\ searches \in Nat /\ row.searches \in Nat /\ row.searches <= searches
      /\ latest \in Nat /\ row.latest \in Nat /\ row.latest <= latest
  BY <1>1, <1>2, MaxOfNumbers
<1> HIDE DEF searches, latest
<1>5. ASSUME NEW n \in Nat, NEW d \in Nat \ {0}, n <= d PROVE HalfUp(100 * n, d) \in 0..100
  <2>1. 100 * n \in Int /\ 0 * d <= 100 * n /\ 100 * n <= 100 * d  BY <1>5
  <2>2. HalfUp(100 * n, d) \in Int /\ 0 <= HalfUp(100 * n, d) /\ HalfUp(100 * n, d) <= 100
    BY <2>1, HalfUpBounds
  <2> QED  BY <2>2
<1>6. CASE searches > 0
  BY <1>3, <1>4, <1>5, <1>6
<1>7. CASE ~ (searches > 0)
  <2>1. AtLeastOne(latest) \in Nat \ {0} /\ row.latest <= AtLeastOne(latest)
    BY <1>4 DEF AtLeastOne
  <2> QED  BY <1>3, <1>4, <1>5, <1>7, <2>1
<1> QED  BY <1>6, <1>7

-----------------------------------------------------------------------------
(* The sequences of a survey.                                              *)

(* An arrangement of a finite set has a place for each of its members.     *)
LEMMA ArrangedIsComplete ==
    ASSUME NEW S, IsFiniteSet(S), NEW s \in [1..Cardinality(S) -> S], IsInjective(s)
    PROVE  /\ s \in Seq(S) /\ DOMAIN s = 1..Len(s)
           /\ \A x \in S : \E i \in DOMAIN s : s[i] = x
<1> DEFINE n == Cardinality(S)
<1>1. n \in Nat  BY FS_CardinalityType
<1>2. s \in [1..n -> S] /\ IsInjective(s)  OBVIOUS
<1> HIDE DEF n
<1>3. s \in Injection(1..n, S)  BY <1>2 DEF Injection, IsInjective
<1>4. IsFiniteSet(1..n) /\ Cardinality(1..n) = n  BY <1>1, FS_Interval
<1>5. s \in Surjection(1..n, S)  BY <1>3, <1>4, FS_Injection DEF n
<1>6. s \in Seq(S) /\ Len(s) = n  BY <1>1, <1>2
<1> QED  BY <1>2, <1>5, <1>6 DEF Surjection

(* A filter leaves the elements of its places, in their order.             *)
InTheirOrder(r, s, places) ==
    \E p \in [DOMAIN r -> places] :
       /\ \A i \in DOMAIN r : r[i] = s[p[i]]
       /\ \A i, j \in DOMAIN r : i < j => p[i] < p[j]
       /\ \A x \in places : \E i \in DOMAIN r : p[i] = x

LEMMA FilteredInOrder ==
    ASSUME NEW S, NEW s \in Seq(S), NEW places \in SUBSET DOMAIN s,
           NEW r \in Filtered(s, places)
    PROVE  r \in Seq(S) /\ InTheirOrder(r, s, places)
<1>1. PICK p \in [1..Cardinality(places) -> places] :
          /\ IsInjective(p) /\ \A i, j \in DOMAIN p : i < j => p[i] < p[j]
          /\ r = [i \in DOMAIN p |-> s[p[i]]]
  BY DEF Filtered, Sorted
<1>2. IsFiniteSet(places)
  <2>1. DOMAIN s = 1..Len(s) /\ Len(s) \in Nat  OBVIOUS
  <2>2. IsFiniteSet(1..Len(s))  BY <2>1, FS_Interval
  <2> QED  BY <2>1, <2>2, FS_Subset
<1>3. /\ p \in Seq(places) /\ DOMAIN p = 1..Len(p)
      /\ \A x \in places : \E i \in DOMAIN p : p[i] = x
  BY <1>1, <1>2, ArrangedIsComplete
<1>4. DOMAIN r = DOMAIN p /\ \A i \in DOMAIN p : r[i] = s[p[i]]
  BY <1>1
<1>5. \A i \in DOMAIN p : p[i] \in places /\ s[p[i]] \in S
  <2>1. SUFFICES ASSUME NEW i \in DOMAIN p PROVE p[i] \in places /\ s[p[i]] \in S  OBVIOUS
  <2>2. p[i] \in places  BY <1>1
  <2>3. p[i] \in DOMAIN s  BY <2>2
  <2> QED  BY <2>2, <2>3
<1>6. r \in Seq(S)
  <2>1. Len(p) \in Nat  BY <1>3, LenProperties
  <2>2. r \in [1..Len(p) -> S]  BY <1>1, <1>3, <1>4, <1>5
  <2> QED  BY <2>1, <2>2
<1>7. p \in [DOMAIN r -> places]  BY <1>1, <1>4
<1>8. InTheirOrder(r, s, places)  BY <1>1, <1>3, <1>4, <1>7 DEF InTheirOrder
<1> QED  BY <1>6, <1>8

LEMMA LesserOfTwo ==
    ASSUME NEW m \in Nat, NEW n \in Nat
    PROVE  Min({m, n}) = IF m <= n THEN m ELSE n
<1> DEFINE l == IF m <= n THEN m ELSE n
<1>1. l \in {m, n} /\ \A y \in {m, n} : l <= y  OBVIOUS
<1>2. \A x \in {m, n} : (\A y \in {m, n} : x <= y) => x = l  OBVIOUS
<1> HIDE DEF l
<1>3. Min({m, n}) = l  BY <1>1, <1>2 DEF Min
<1> QED  BY <1>3 DEF l

LEMMA FirstOfIsAPrefix ==
    ASSUME NEW S, NEW s \in Seq(S), NEW n \in Nat
    PROVE  /\ FirstOf(n, s) \in Seq(S)
           /\ Len(FirstOf(n, s)) = IF n <= Len(s) THEN n ELSE Len(s)
           /\ \A i \in DOMAIN FirstOf(n, s) : i \in DOMAIN s /\ FirstOf(n, s)[i] = s[i]
<1> DEFINE m == IF n <= Len(s) THEN n ELSE Len(s)
<1>1. Len(s) \in Nat /\ DOMAIN s = 1..Len(s)  OBVIOUS
<1>2. FirstOf(n, s) = SubSeq(s, 1, m)  BY <1>1, LesserOfTwo DEF FirstOf
<1>3. m \in Nat /\ m <= Len(s)  BY <1>1
<1> HIDE DEF m
<1>4. /\ SubSeq(s, 1, m) \in Seq(S) /\ Len(SubSeq(s, 1, m)) = m
      /\ \A i \in 1..m : SubSeq(s, 1, m)[i] = s[1 + i - 1]
  BY <1>1, <1>3, SubSeqProperties
<1>5. DOMAIN SubSeq(s, 1, m) = 1..m  BY <1>4, LenProperties
<1>6. \A i \in 1..m : 1 + i - 1 = i /\ i \in DOMAIN s  BY <1>1, <1>3
<1> QED  BY <1>2, <1>4, <1>5, <1>6 DEF m

(* A limit on rows ordered by time never cuts a row that is among so many  *)
(* of its time or later.                                                   *)
LEMMA NewestKeepTheNewest ==
    ASSUME NEW at, IsFiniteSet(DOMAIN at), \A y \in DOMAIN at : at[y] \in Nat,
           NEW limit \in Nat, NEW S \in Newest(limit, at), NEW x \in DOMAIN at,
           Cardinality({y \in DOMAIN at : at[y] >= at[x]}) <= limit
    PROVE  x \in S
<1> DEFINE D == DOMAIN at
           G == {y \in D : at[y] >= at[x]}
<1>1. SUFFICES ASSUME x \notin S PROVE FALSE  OBVIOUS
<1>2. Cardinality(D) \in Nat  BY FS_CardinalityType
<1>3. /\ S \subseteq D /\ Cardinality(S) = Min({limit, Cardinality(D)})
      /\ \A i \in S, j \in D \ S : at[i] >= at[j]
  BY DEF Newest, kSubset
<1>4. Cardinality(S) = IF limit <= Cardinality(D) THEN limit ELSE Cardinality(D)
  BY <1>2, <1>3, LesserOfTwo
<1>5. S \cup {x} \subseteq G
  <2>1. x \in D \ S /\ at[x] \in Nat  BY <1>1
  <2>2. x \in G  BY <2>1
  <2>3. S \subseteq G  BY <1>3, <2>1
  <2> QED  BY <2>2, <2>3
<1>6. IsFiniteSet(S) /\ IsFiniteSet(G) /\ G \subseteq D
  <2>1. G \subseteq D  OBVIOUS
  <2> HIDE DEF G
  <2> QED  BY <1>3, <2>1, FS_Subset
<1> HIDE DEF G, D
<1>7. Cardinality(S \cup {x}) = Cardinality(S) + 1  BY <1>1, <1>6, FS_AddElement
<1>8. Cardinality(S \cup {x}) <= Cardinality(G)  BY <1>5, <1>6, FS_Subset
<1>9. Cardinality(S) \in Nat /\ Cardinality(G) \in Nat  BY <1>6, FS_CardinalityType
<1>10. Cardinality(G) <= limit  BY DEF G, D
<1>11. Cardinality(S) = Cardinality(D)  BY <1>2, <1>4, <1>7, <1>8, <1>9, <1>10
<1>12. S = D  BY <1>3, <1>6, <1>11, FS_Subset DEF D
<1> QED  BY <1>1, <1>12 DEF D

-----------------------------------------------------------------------------
(* The records that the state consists of.                                 *)
Counts == UNION {[S -> Nat] : S \in SUBSET Texts}
Answer == [title : Titles, series : Seq(Point)]
JobRecord == [at : 0..MaxCommits, selected : Seq(Texts), searches : Counts,
              answered : SUBSET Titles]
SurveyRecord ==
    [pc : {"none", "asking", "down", "collected"}, category : Categories \cup {"none", "mock"},
     exclude : SUBSET DOMAIN Containing, selected : Seq(Texts), searches : Counts,
     offer : SUBSET Ad, queue : Seq(Titles), items : Seq(Answer),
     answered : SUBSET Titles, cands : Seq(Candidate), obs : SUBSET Observation]
OverviewRow == [name : DOMAIN Order, title : Titles, at : 1..MaxCommits, series : Seq(Point),
                searches : Nat, latest : Nat]
RankedRow == [row : OverviewRow, level : 0..100, analysis : Analyses, score : 0..1000]
PageRecord == [pc : {"none", "candidates", "job", "done"}, began : 0..MaxCommits,
               listed : SUBSET Nat, job : JobRecord, rows : Seq(RankedRow)]

RecordsAreTyped ==
    /\ cands \in Seq(Candidate) /\ obs \subseteq Observation /\ IsFiniteSet(obs)
    /\ job \in JobRecord /\ survey \in SurveyRecord /\ page \in PageRecord
    /\ IsFiniteSet(survey.obs) /\ months \in 0..MaxMonths
    /\ commits \in 0..MaxCommits

(* What holds of the two tables together, as committed and as a survey     *)
(* sees them: a plain keyword has one candidate, which has its             *)
(* observations and no others.                                             *)
TitleOf(known, o) == known[o.cand].title
Sound(known, observations, now) ==
    /\ \A o, p \in observations :
          <<o.source, o.title, o.month>> = <<p.source, p.title, p.month>> => o = p
    /\ \A o \in observations :
          /\ o.cand \in DOMAIN known
          /\ o.real \/ o.title \in MockTitles
          /\ o.real => o.at <= now
          /\ Plain(o.title) \/ Plain(TitleOf(known, o)) => TitleOf(known, o) = o.title
    /\ \A i, j \in DOMAIN known :
          known[i].title = known[j].title /\ Plain(known[i].title) => i = j
    /\ \A i \in DOMAIN known : known[i].at <= now
    /\ Len(known) <= now * MaxResults

(* Every plain keyword that a job says was answered has an observation of  *)
(* its time or later.                                                      *)
Reported(report, observations) ==
    \A k \in report.answered : Plain(k) =>
        \E o \in observations : o.title = k /\ o.real /\ o.at >= report.at

NamesOf(items) == {items[i].title : i \in DOMAIN items}
FoundAt(observations, at) == {o.title : o \in {p \in observations : p.at = at /\ p.real}}

TablesAreSound ==
    /\ Sound(cands, obs, commits)
    /\ job.at <= commits /\ Reported(job, obs)
    /\ FoundAt(obs, job.at) = job.answered

(* The survey under way: what it has yet to ingest, it has counted among   *)
(* what was answered.                                                      *)
MostSearched(offer, selected) ==
    \A item, other \in offer :
        item.keyword \notin Range(selected) /\ other.keyword \in Range(selected)
            => item.searches <= other.searches

SurveyIsSound ==
    /\ MostSearched(survey.offer, survey.selected)
    /\ Len(survey.items) <= MaxResults
    /\ survey.pc \in {"asking", "down"} =>
          /\ survey.cands = cands /\ survey.obs = obs
          /\ survey.answered = NamesOf(survey.items)
    /\ survey.pc = "down" => survey.items = << >>
    /\ survey.pc # "none" =>
          /\ commits < MaxCommits
          /\ Sound(survey.cands, survey.obs, commits + 1)
          /\ Len(survey.cands) + Len(survey.items) <= (commits + 1) * MaxResults
          /\ Len(cands) <= Len(survey.cands)
          /\ \A i \in DOMAIN cands : survey.cands[i] = cands[i]
          /\ \A i \in DOMAIN survey.cands \ DOMAIN cands : survey.cands[i].at = commits + 1
          /\ Reported(job, survey.obs)
    /\ survey.pc = "collected" =>
          /\ survey.queue = << >>
          /\ FoundAt(survey.obs, commits + 1) \cup NamesOf(survey.items) = survey.answered

(* The page being read: the candidates that the limit cannot have cut are  *)
(* on it, and what its job says was answered is there to be read.          *)
PageIsSound ==
    /\ page.listed \subseteq DOMAIN cands /\ page.began <= commits
    /\ page.pc \in {"candidates", "job"} =>
          \A i \in DOMAIN cands :
              /\ cands[i].at <= page.began
              /\ Cardinality({j \in DOMAIN cands : cands[j].at \in cands[i].at..page.began})
                    <= CandidateLimit
              => i \in page.listed
    /\ page.job.at <= commits
    /\ Reported(page.job, obs)
    /\ survey.pc # "none" => Reported(page.job, survey.obs)

RowsAreRanked ==
    /\ \A i \in DOMAIN page.rows :
          page.rows[i].score = MarketScore(page.rows[i].level, page.rows[i].analysis)
    /\ \A i, j \in DOMAIN page.rows : i < j => page.rows[i].score >= page.rows[j].score

MarketInv == RecordsAreTyped /\ TablesAreSound /\ SurveyIsSound /\ PageIsSound /\ RowsAreRanked

-----------------------------------------------------------------------------
(* The tables: what linking an item to a candidate leaves of them.         *)
LEMMA PageLimits ==
    /\ BatchSize \in Nat \ {0} /\ MaxResults \in Nat \ {0} /\ TopKeywords \in Nat \ {0}
    /\ AdLimit \in Nat \ {0} /\ CandidateLimit \in Nat \ {0} /\ ObservationLimit \in Nat \ {0}
    /\ MaxCommits \in Nat \ {0} /\ MaxMonths \in Nat
BY PageAssumption, AskedAssumption

LEMMA CandidateFields ==
    ASSUME NEW known \in Seq(Candidate), NEW i \in DOMAIN known
    PROVE  known[i].title \in Titles /\ known[i].at \in 1..MaxCommits
<1>1. known[i] \in Candidate  OBVIOUS
<1> QED  BY <1>1 DEF Candidate

LEMMA ObservationFields ==
    ASSUME NEW o \in Observation
    PROVE  /\ o.title \in Titles /\ o.month \in 0..MaxMonths /\ o.at \in 1..MaxCommits
           /\ o.series \in Seq(Point) /\ o.real \in BOOLEAN /\ o.at \in Int
<1>1. /\ o.title \in Titles /\ o.month \in 0..MaxMonths /\ o.at \in 1..MaxCommits
      /\ o.series \in Seq(Point) /\ o.real \in BOOLEAN
  BY DEF Observation
<1> QED  BY <1>1

LEMMA SoundLater ==
    ASSUME NEW known, NEW observations, NEW now \in Nat, Sound(known, observations, now),
           known \in Seq(Candidate), observations \subseteq Observation
    PROVE  Sound(known, observations, now + 1)
<1>1. \A o \in observations : o.at \in Int  BY ObservationFields
<1>2. \A i \in DOMAIN known : known[i].at \in Int  BY CandidateFields
<1>3. Len(known) \in Int /\ now * MaxResults \in Int /\ (now + 1) * MaxResults \in Int
      /\ (now + 1) * MaxResults = now * MaxResults + MaxResults /\ MaxResults \in Nat
  BY PageLimits
<1>4. Len(known) <= (now + 1) * MaxResults  BY <1>3 DEF Sound
<1>5. \A o \in observations : o.real => o.at <= now + 1  BY <1>1 DEF Sound
<1>6. \A i \in DOMAIN known : known[i].at <= now + 1  BY <1>2 DEF Sound
<1> QED  BY <1>4, <1>5, <1>6 DEF Sound

(* What an item's candidate is: one that is there and alike, or a new one. *)
LEMMA LinkedToACandidate ==
    ASSUME NEW known \in Seq(Candidate), commits \in 0..MaxCommits, commits < MaxCommits,
           NEW title \in Titles, NEW i \in Linked(known, title),
           NEW next, next = WithCandidate(known, title)
    PROVE  /\ next \in Seq(Candidate)
           /\ Len(known) <= Len(next) /\ Len(next) <= Len(known) + 1
           /\ \A j \in DOMAIN known : j \in DOMAIN next /\ next[j] = known[j]
           /\ i \in DOMAIN next
           /\ \/ next[i].title = title
              \/ next[i].title \in Titles /\ <<next[i].title, title>> \in Near
           /\ \A j \in DOMAIN next \ DOMAIN known :
                 /\ next[j].title = title /\ next[j].at = commits + 1 /\ j = Len(next)
                 /\ \A k \in DOMAIN known : known[k].title # title
<1>1. Len(known) \in Nat /\ DOMAIN known = 1..Len(known)  OBVIOUS
<1>2. CASE Alike(known, title) = {}
  <2> DEFINE row == [title |-> title, at |-> commits + 1]
  <2>1. next = Append(known, row) /\ i = Len(known) + 1
    BY <1>2 DEF WithCandidate, Linked
  <2>2. row \in Candidate  BY PageLimits DEF Candidate
  <2>3. row.title = title /\ row.at = commits + 1  OBVIOUS
  <2> HIDE DEF row
  <2>4. /\ next \in Seq(Candidate) /\ Len(next) = Len(known) + 1
        /\ \A j \in 1..Len(known) : next[j] = known[j]
        /\ next[Len(known) + 1] = row
    BY <2>1, <2>2, AppendProperties
  <2>5. DOMAIN next = 1..(Len(known) + 1)  BY <2>4
  <2>6. \A k \in DOMAIN known : known[k].title # title  BY <1>2 DEF Alike
  <2>7. \A j \in DOMAIN next \ DOMAIN known : j = Len(known) + 1  BY <1>1, <2>5
  <2>8. Len(known) <= Len(next) /\ Len(next) <= Len(known) + 1  BY <1>1, <2>4
  <2>9. \A j \in DOMAIN known : j \in DOMAIN next /\ next[j] = known[j]  BY <1>1, <2>4, <2>5
  <2>10. i \in DOMAIN next /\ next[i].title = title  BY <1>1, <2>1, <2>3, <2>4, <2>5
  <2>11. \A j \in DOMAIN next \ DOMAIN known :
            next[j].title = title /\ next[j].at = commits + 1 /\ j = Len(next)
    BY <2>3, <2>4, <2>7
  <2> QED  BY <2>4, <2>6, <2>8, <2>9, <2>10, <2>11
<1>3. CASE Alike(known, title) # {}
  <2>1. next = known /\ i \in Alike(known, title)
    BY <1>3 DEF WithCandidate, Linked
  <2>2. i \in DOMAIN known /\ (known[i].title = title \/ <<known[i].title, title>> \in Near)
    BY <2>1 DEF Alike
  <2>3. known[i].title \in Titles  BY <2>2, CandidateFields
  <2>4. Len(known) <= Len(next) /\ Len(next) <= Len(known) + 1  BY <1>1, <2>1
  <2>5. DOMAIN next \ DOMAIN known = {}  BY <2>1
  <2> QED  BY <2>1, <2>2, <2>3, <2>4, <2>5
<1> QED  BY <1>2, <1>3

LEMMA PlainIsNotNear ==
    ASSUME NEW s \in Titles, NEW t \in Titles, <<s, t>> \in Near, Plain(s) \/ Plain(t)
    PROVE  s = t
BY DEF Plain

LEMMA LinkKeepsTheTables ==
    ASSUME NEW known \in Seq(Candidate), commits \in 0..MaxCommits, commits < MaxCommits,
           NEW title \in Titles, NEW i \in Linked(known, title),
           NEW next, next = WithCandidate(known, title),
           NEW observations, observations \subseteq Observation, IsFiniteSet(observations),
           Sound(known, observations, commits + 1),
           Len(known) + 1 <= (commits + 1) * MaxResults,
           NEW o \in Observation, o.title = title, o.cand = i,
           o.real => o.at = commits + 1, o.real \/ title \in MockTitles,
           NEW after, after = WithObservation(observations, o)
    PROVE  /\ after \subseteq Observation /\ IsFiniteSet(after)
           /\ Sound(next, after, commits + 1)
<1>1. /\ next \in Seq(Candidate)
      /\ Len(known) <= Len(next) /\ Len(next) <= Len(known) + 1
      /\ \A j \in DOMAIN known : j \in DOMAIN next /\ next[j] = known[j]
      /\ i \in DOMAIN next
      /\ \/ next[i].title = title
         \/ next[i].title \in Titles /\ <<next[i].title, title>> \in Near
      /\ \A j \in DOMAIN next \ DOMAIN known :
            /\ next[j].title = title /\ next[j].at = commits + 1 /\ j = Len(next)
            /\ \A k \in DOMAIN known : known[k].title # title
  BY LinkedToACandidate
<1>2. \A p \in after : p = o \/ p \in observations
  BY DEF WithObservation
<1>3. after \subseteq Observation  BY <1>2
<1>4. IsFiniteSet(after)
  <2> DEFINE kept == {p \in observations : <<p.source, p.title, p.month>> # <<o.source, o.title, o.month>>}
  <2>1. kept \subseteq observations /\ after = kept \cup {o}  BY DEF WithObservation
  <2> HIDE DEF kept
  <2>2. IsFiniteSet(kept)  BY <2>1, FS_Subset
  <2> QED  BY <2>1, <2>2, FS_AddElement
<1>5. \A p, q \in after :
          <<p.source, p.title, p.month>> = <<q.source, q.title, q.month>> => p = q
  BY DEF WithObservation, Sound
<1>6. ASSUME NEW p \in observations
      PROVE  /\ p.cand \in DOMAIN next
             /\ p.real \/ p.title \in MockTitles
             /\ p.real => p.at <= commits + 1
             /\ Plain(p.title) \/ Plain(TitleOf(next, p)) => TitleOf(next, p) = p.title
  <2>1. /\ p.cand \in DOMAIN known
        /\ p.real \/ p.title \in MockTitles
        /\ p.real => p.at <= commits + 1
        /\ Plain(p.title) \/ Plain(TitleOf(known, p)) => TitleOf(known, p) = p.title
    BY DEF Sound
  <2>2. p.cand \in DOMAIN next /\ TitleOf(next, p) = TitleOf(known, p)
    BY <1>1, <2>1 DEF TitleOf
  <2> QED  BY <2>1, <2>2
<1>7. /\ o.cand \in DOMAIN next
      /\ o.real \/ o.title \in MockTitles
      /\ o.real => o.at <= commits + 1
      /\ Plain(o.title) \/ Plain(TitleOf(next, o)) => TitleOf(next, o) = o.title
  <2>1. Plain(title) \/ Plain(next[i].title) => next[i].title = title
    BY <1>1, PlainIsNotNear
  <2>2. commits + 1 \in Int  BY PageLimits
  <2> QED  BY <1>1, <2>1, <2>2 DEF TitleOf
<1>8. \A j, k \in DOMAIN next :
          next[j].title = next[k].title /\ Plain(next[j].title) => j = k
  <2>1. SUFFICES ASSUME NEW j \in DOMAIN next, NEW k \in DOMAIN next,
                        next[j].title = next[k].title, Plain(next[j].title)
                 PROVE  j = k
    OBVIOUS
  <2>2. CASE j \in DOMAIN known /\ k \in DOMAIN known
    BY <1>1, <2>1, <2>2 DEF Sound
  <2>3. CASE j \notin DOMAIN known /\ k \notin DOMAIN known
    BY <1>1, <2>3
  <2>4. CASE j \in DOMAIN known /\ k \notin DOMAIN known
    BY <1>1, <2>1, <2>4
  <2>5. CASE j \notin DOMAIN known /\ k \in DOMAIN known
    BY <1>1, <2>1, <2>5
  <2> QED  BY <2>2, <2>3, <2>4, <2>5
<1>9. \A j \in DOMAIN next : next[j].at <= commits + 1
  <2>1. commits + 1 \in Int  BY PageLimits
  <2>2. SUFFICES ASSUME NEW j \in DOMAIN next PROVE next[j].at <= commits + 1  OBVIOUS
  <2>3. CASE j \in DOMAIN known  BY <1>1, <2>3 DEF Sound
  <2>4. CASE j \notin DOMAIN known  BY <1>1, <2>1, <2>4
  <2> QED  BY <2>3, <2>4
<1>10. Len(next) <= (commits + 1) * MaxResults
  <2>1. (commits + 1) * MaxResults \in Int /\ Len(next) \in Int /\ Len(known) \in Int
    BY <1>1, PageLimits
  <2> QED  BY <1>1, <2>1
<1>11. \A p \in after :
          /\ p.cand \in DOMAIN next
          /\ p.real \/ p.title \in MockTitles
          /\ p.real => p.at <= commits + 1
          /\ Plain(p.title) \/ Plain(TitleOf(next, p)) => TitleOf(next, p) = p.title
  BY <1>2, <1>6, <1>7
<1> QED  BY <1>3, <1>4, <1>5, <1>8, <1>9, <1>10, <1>11 DEF Sound

(* An item replaces no report of a plain keyword but by a later one.       *)
LEMMA LinkKeepsReports ==
    ASSUME NEW observations, observations \subseteq Observation,
           \A p \in observations : p.real \/ p.title \in MockTitles,
           NEW o \in Observation, NEW now \in Nat, o.real => o.at = now,
           o.real \/ o.title \in MockTitles,
           NEW after, after = WithObservation(observations, o),
           NEW report, report.at \in Nat, report.at <= now, Reported(report, observations)
    PROVE  Reported(report, after)
<1>1. SUFFICES ASSUME NEW k \in report.answered, Plain(k)
               PROVE  \E p \in after : p.title = k /\ p.real /\ p.at >= report.at
  BY DEF Reported
<1>2. PICK p \in observations : p.title = k /\ p.real /\ p.at >= report.at
  BY <1>1 DEF Reported
<1>3. CASE <<p.source, p.title, p.month>> # <<o.source, o.title, o.month>>
  BY <1>2, <1>3 DEF WithObservation
<1>4. CASE <<p.source, p.title, p.month>> = <<o.source, o.title, o.month>>
  <2>1. o.title = k /\ k \notin MockTitles  BY <1>1, <1>2, <1>4 DEF Plain
  <2>2. o \in after  BY DEF WithObservation
  <2> QED  BY <2>1, <2>2
<1> QED  BY <1>3, <1>4

LEMMA LinkAddsTheFound ==
    ASSUME NEW observations, NEW o, NEW at, o.real, o.at = at,
           NEW after, after = WithObservation(observations, o)
    PROVE  FoundAt(after, at) = FoundAt(observations, at) \cup {o.title}
BY DEF FoundAt, WithObservation

-----------------------------------------------------------------------------
(* The invariant: initially, and step by step.                             *)
LEMMA NoCounts == << >> \in Counts
<1>1. << >> \in [{} -> Nat]  OBVIOUS
<1> QED  BY <1>1 DEF Counts

LEMMA NoJobIsAJob == NoJob \in JobRecord
<1>1. 0 \in 0..MaxCommits  BY PageLimits
<1> QED  BY <1>1, NoCounts DEF NoJob, JobRecord

LEMMA NoSurveyIsASurvey ==
    /\ NoSurvey \in SurveyRecord
    /\ NoSurvey.pc = "none" /\ NoSurvey.offer = {} /\ NoSurvey.items = << >>
    /\ NoSurvey.obs = {} /\ NoSurvey.queue = << >>
<1>1. /\ << >> \in Seq(Texts) /\ << >> \in Seq(Titles) /\ << >> \in Seq(Answer)
      /\ << >> \in Seq(Candidate)
  OBVIOUS
<1>2. NoSurvey \in SurveyRecord  BY <1>1, NoCounts DEF NoSurvey, SurveyRecord
<1> QED  BY <1>2 DEF NoSurvey

LEMMA NoPageIsAPage ==
    /\ NoPage \in PageRecord /\ NoPage.listed = {} /\ NoPage.began = 0 /\ NoPage.job = NoJob
    /\ NoPage.rows = << >> /\ NoPage.pc = "none"
<1>1. 0 \in 0..MaxCommits  BY PageLimits
<1> QED  BY <1>1, NoJobIsAJob DEF NoPage, PageRecord

LEMMA NoSurveyIsSound ==
    ASSUME survey' = NoSurvey
    PROVE  SurveyIsSound'
<1>1. Len(NoSurvey.items) <= MaxResults  BY NoSurveyIsASurvey, PageLimits
<1>2. MostSearched(NoSurvey.offer, NoSurvey.selected)  BY NoSurveyIsASurvey DEF MostSearched
<1> QED  BY <1>1, <1>2, NoSurveyIsASurvey DEF SurveyIsSound

LEMMA NothingSurveyedIsSound == NothingSurveyed => MarketInv
<1> SUFFICES ASSUME NothingSurveyed PROVE MarketInv  OBVIOUS
<1> USE DEF NothingSurveyed
<1>1. RecordsAreTyped
  <2>1. IsFiniteSet({})  BY FS_EmptySet
  <2>2. 0 \in 0..MaxCommits /\ 0 \in 0..MaxMonths  BY PageLimits
  <2> QED  BY <2>1, <2>2, NoJobIsAJob, NoSurveyIsASurvey, NoPageIsAPage DEF RecordsAreTyped
<1>2. TablesAreSound
  <2>1. Len(<< >>) <= 0 * MaxResults  BY PageLimits
  <2>2. Sound(<< >>, {}, 0)  BY <2>1 DEF Sound
  <2>3. Reported(NoJob, {}) /\ NoJob.at = 0  BY DEF Reported, NoJob
  <2>4. FoundAt({}, 0) = NoJob.answered  BY DEF FoundAt, NoJob
  <2> QED  BY <2>2, <2>3, <2>4 DEF TablesAreSound
<1>3. SurveyIsSound
  <2>1. Len(NoSurvey.items) <= MaxResults  BY NoSurveyIsASurvey, PageLimits
  <2>2. MostSearched(NoSurvey.offer, NoSurvey.selected)  BY NoSurveyIsASurvey DEF MostSearched
  <2> QED  BY <2>1, <2>2, NoSurveyIsASurvey DEF SurveyIsSound
<1>4. PageIsSound
  <2>1. NoJob.at <= 0 /\ Reported(NoJob, {})  BY DEF NoJob, Reported
  <2> QED  BY <2>1, NoPageIsAPage, NoSurveyIsASurvey DEF PageIsSound
<1>5. RowsAreRanked
  BY NoPageIsAPage DEF RowsAreRanked
<1> QED  BY <1>1, <1>2, <1>3, <1>4, <1>5 DEF MarketInv

LEMMA NextMonthKeeps ==
    ASSUME MarketInv, NextMonth
    PROVE  MarketInv'
<1> USE DEF NextMonth
<1>1. RecordsAreTyped'  BY PageLimits DEF MarketInv, RecordsAreTyped
<1>2. TablesAreSound'  BY DEF MarketInv, TablesAreSound
<1>3. SurveyIsSound'  BY DEF MarketInv, SurveyIsSound
<1>4. PageIsSound'  BY DEF MarketInv, PageIsSound
<1>5. RowsAreRanked'  BY DEF MarketInv, RowsAreRanked
<1> QED  BY <1>1, <1>2, <1>3, <1>4, <1>5 DEF MarketInv

LEMMA BatchFailsKeeps ==
    ASSUME MarketInv, BatchFails
    PROVE  MarketInv'
<1>1. /\ survey.pc = "asking" /\ survey \in SurveyRecord
      /\ survey' = [survey EXCEPT !.pc = "down", !.items = << >>, !.answered = {}]
      /\ UNCHANGED <<cands, obs, job, page, commits, months>>
  BY DEF BatchFails, MarketInv, RecordsAreTyped
<1>2. /\ survey' \in SurveyRecord /\ survey'.pc = "down"
      /\ survey'.items = << >> /\ survey'.answered = {}
      /\ survey'.offer = survey.offer /\ survey'.selected = survey.selected
      /\ survey'.cands = survey.cands /\ survey'.obs = survey.obs
  <2>1. << >> \in Seq(Answer)  OBVIOUS
  <2>2. survey' \in SurveyRecord  BY <1>1, <2>1 DEF SurveyRecord
  <2> QED  BY <1>1, <2>2 DEF SurveyRecord
<1>3. RecordsAreTyped'  BY <1>1, <1>2 DEF MarketInv, RecordsAreTyped
<1>4. TablesAreSound'  BY <1>1 DEF MarketInv, TablesAreSound
<1>5. SurveyIsSound'
  <2>1. NamesOf(<< >>) = {}  BY DEF NamesOf
  <2>2. Len(<< >>) = 0 /\ 0 <= MaxResults /\ Len(survey.items) \in Nat /\ Len(survey.cands) \in Nat
        /\ (commits + 1) * MaxResults \in Int
    <3>1. survey.items \in Seq(Answer) /\ survey.cands \in Seq(Candidate)
      BY <1>1 DEF SurveyRecord
    <3>2. commits \in Int  BY DEF MarketInv, RecordsAreTyped
    <3>3. (commits + 1) * MaxResults \in Int  BY <3>2, PageLimits
    <3>4. Len(survey.items) \in Nat /\ Len(survey.cands) \in Nat  BY <3>1, LenProperties
    <3>5. Len(<< >>) = 0 /\ 0 <= MaxResults  BY PageLimits
    <3> QED  BY <3>3, <3>4, <3>5
  <2>3. Len(survey.cands) + 0 <= (commits + 1) * MaxResults
    <3>1. Len(survey.cands) + Len(survey.items) <= (commits + 1) * MaxResults
      BY <1>1 DEF MarketInv, SurveyIsSound
    <3> DEFINE room == (commits + 1) * MaxResults
    <3>2. room \in Int  BY <2>2
    <3>3. Len(survey.cands) + Len(survey.items) <= room  BY <3>1
    <3> HIDE DEF room
    <3>4. Len(survey.items) \in Nat /\ Len(survey.cands) \in Nat  BY <2>2
    <3>5. \A a, b \in Nat : a + b <= room => a + 0 <= room  BY <3>2
    <3>6. Len(survey.cands) + 0 <= room  BY <3>3, <3>4, <3>5
    <3> QED  BY <3>6 DEF room
  <2> QED  BY <1>1, <1>2, <2>1, <2>2, <2>3 DEF MarketInv, SurveyIsSound
<1>6. PageIsSound'  BY <1>1, <1>2 DEF MarketInv, PageIsSound
<1>7. RowsAreRanked'  BY <1>1 DEF MarketInv, RowsAreRanked
<1> QED  BY <1>3, <1>4, <1>5, <1>6, <1>7 DEF MarketInv

LEMMA AbortSurveyKeeps ==
    ASSUME MarketInv, AbortSurvey
    PROVE  MarketInv'
<1>1. survey' = NoSurvey /\ UNCHANGED <<cands, obs, job, page, commits, months>>
  BY DEF AbortSurvey
<1>2. RecordsAreTyped'
  <2>1. IsFiniteSet({})  BY FS_EmptySet
  <2> QED  BY <1>1, <2>1, NoSurveyIsASurvey DEF MarketInv, RecordsAreTyped
<1>3. TablesAreSound'  BY <1>1 DEF MarketInv, TablesAreSound
<1>4. SurveyIsSound'  BY <1>1, NoSurveyIsSound
<1>5. PageIsSound'  BY <1>1, NoSurveyIsASurvey DEF MarketInv, PageIsSound
<1>6. RowsAreRanked'  BY <1>1 DEF MarketInv, RowsAreRanked
<1> QED  BY <1>2, <1>3, <1>4, <1>5, <1>6 DEF MarketInv

LEMMA ReadJobKeeps ==
    ASSUME MarketInv, ReadJob
    PROVE  MarketInv'
<1>1. /\ page.pc = "candidates" /\ page \in PageRecord
      /\ page' = [page EXCEPT !.pc = "job", !.job = job]
      /\ UNCHANGED <<cands, obs, job, survey, commits, months>>
  BY DEF ReadJob, MarketInv, RecordsAreTyped
<1>2. /\ page' \in PageRecord /\ page'.pc = "job" /\ page'.job = job /\ page'.rows = page.rows
      /\ page'.listed = page.listed /\ page'.began = page.began
  BY <1>1 DEF PageRecord, MarketInv, RecordsAreTyped
<1>3. RecordsAreTyped'  BY <1>1, <1>2 DEF MarketInv, RecordsAreTyped
<1>4. TablesAreSound'  BY <1>1 DEF MarketInv, TablesAreSound
<1>5. SurveyIsSound'  BY <1>1 DEF MarketInv, SurveyIsSound
<1>6. PageIsSound'
  <2>1. job.at <= commits /\ Reported(job, obs)  BY DEF MarketInv, TablesAreSound
  <2>2. survey.pc # "none" => Reported(job, survey.obs)  BY DEF MarketInv, SurveyIsSound
  <2> QED  BY <1>1, <1>2, <2>1, <2>2 DEF MarketInv, PageIsSound
<1>7. RowsAreRanked'  BY <1>1, <1>2 DEF MarketInv, RowsAreRanked
<1> QED  BY <1>3, <1>4, <1>5, <1>6, <1>7 DEF MarketInv

LEMMA ReadCandidatesKeeps ==
    ASSUME MarketInv, ReadCandidates
    PROVE  MarketInv'
<1> DEFINE at == [i \in DOMAIN cands |-> cands[i].at]
<1>1. PICK listed \in Newest(CandidateLimit, at) :
          page' = [NoPage EXCEPT !.pc = "candidates", !.began = commits, !.listed = listed]
  BY DEF ReadCandidates
<1>2. UNCHANGED <<cands, obs, job, survey, commits, months>>
  BY DEF ReadCandidates
<1>3. cands \in Seq(Candidate) /\ commits \in 0..MaxCommits
  BY DEF MarketInv, RecordsAreTyped
<1>4. /\ DOMAIN at = DOMAIN cands /\ \A i \in DOMAIN cands : at[i] = cands[i].at /\ at[i] \in Nat
      /\ IsFiniteSet(DOMAIN cands)
  <2>1. \A i \in DOMAIN cands : cands[i].at \in Nat
    <3>1. SUFFICES ASSUME NEW i \in DOMAIN cands PROVE cands[i].at \in Nat  OBVIOUS
    <3>2. cands[i].at \in 1..MaxCommits  BY <1>3, CandidateFields
    <3> QED  BY <3>2
  <2>2. IsFiniteSet(1..Len(cands)) /\ DOMAIN cands = 1..Len(cands)
    BY <1>3, LenProperties, FS_Interval
  <2> QED  BY <2>1, <2>2
<1> HIDE DEF at
<1>5. listed \subseteq DOMAIN cands
  BY <1>4 DEF Newest, kSubset
<1>6. /\ page' \in PageRecord /\ page'.pc = "candidates" /\ page'.began = commits
      /\ page'.listed = listed /\ page'.job = NoJob /\ page'.rows = << >>
  <2>1. listed \subseteq Nat  BY <1>3, <1>5, LenProperties
  <2>2. page' \in PageRecord  BY <1>1, <1>3, <2>1, NoPageIsAPage DEF PageRecord
  <2> QED  BY <1>1, <2>2, NoPageIsAPage DEF PageRecord
<1>7. RecordsAreTyped'  BY <1>2, <1>6 DEF MarketInv, RecordsAreTyped
<1>8. TablesAreSound'  BY <1>2 DEF MarketInv, TablesAreSound
<1>9. SurveyIsSound'  BY <1>2 DEF MarketInv, SurveyIsSound
<1>10. PageIsSound'
  <2>1. ASSUME NEW i \in DOMAIN cands,
               Cardinality({j \in DOMAIN cands : cands[j].at \in cands[i].at..commits})
                  <= CandidateLimit
        PROVE  i \in listed
    <3>1. \A j \in DOMAIN cands : cands[j].at <= commits
      BY DEF MarketInv, TablesAreSound, Sound
    <3>2. {j \in DOMAIN at : at[j] >= at[i]}
              = {j \in DOMAIN cands : cands[j].at \in cands[i].at..commits}
      <4>1. ASSUME NEW j \in DOMAIN cands
            PROVE  at[j] >= at[i] <=> cands[j].at \in cands[i].at..commits
        <5>1. /\ at[j] = cands[j].at /\ at[i] = cands[i].at
              /\ cands[j].at \in Int /\ cands[i].at \in Int /\ commits \in Int
          BY <1>3, <1>4
        <5> QED  BY <3>1, <5>1
      <4> QED  BY <1>4, <4>1
    <3>3. CandidateLimit \in Nat  BY PageLimits
    <3>4. Cardinality({j \in DOMAIN at : at[j] >= at[i]}) <= CandidateLimit
      BY <2>1, <3>2
    <3>5. i \in DOMAIN at /\ IsFiniteSet(DOMAIN at) /\ \A y \in DOMAIN at : at[y] \in Nat
      BY <1>4
    <3> QED  BY <3>3, <3>4, <3>5, NewestKeepTheNewest
  <2>2. NoJob.at <= commits  BY <1>3 DEF NoJob
  <2>3. \A observations : Reported(NoJob, observations)  BY DEF NoJob, Reported
  <2>4. commits <= commits  BY <1>3
  <2> QED  BY <1>2, <1>5, <1>6, <2>1, <2>2, <2>3, <2>4 DEF PageIsSound
<1>11. RowsAreRanked'  BY <1>6 DEF RowsAreRanked
<1> QED  BY <1>7, <1>8, <1>9, <1>10, <1>11 DEF MarketInv

(* The keywords a survey asks about are titles.                            *)
LEMMA CleanedAreTitles ==
    ASSUME NEW selected \in Seq(Texts), NEW queue \in Clean(selected)
    PROVE  queue \in Seq(Titles)
<1> DEFINE n == Len(selected)
           cleaned == [i \in DOMAIN selected |-> Stripped[selected[i]]]
           Worded(text) == text # ""
           new == {i \in DOMAIN cleaned : /\ Worded(cleaned[i])
                      /\ \A j \in DOMAIN cleaned : j < i => cleaned[j] # cleaned[i]}
           S == {Stripped[text] : text \in Texts}
<1>1. PICK s \in Filtered(cleaned, new) : queue = FirstOf(MaxResults, s)
  BY DEF Clean
<1>2. \A x \in S : Worded(x) => x \in Titles  BY DEF Titles
<1>3. \A i \in new : Worded(cleaned[i])  OBVIOUS
<1>4. new \in SUBSET DOMAIN cleaned  OBVIOUS
<1> HIDE DEF new, Worded
<1>5. n \in Nat /\ DOMAIN selected = 1..n /\ \A i \in 1..n : selected[i] \in Texts
  BY LenProperties, ElementOfSeq
<1> HIDE DEF n
<1>6. \A i \in 1..n : Stripped[selected[i]] \in S  BY <1>5
<1>7. cleaned = [i \in 1..n |-> Stripped[selected[i]]]  BY <1>5
<1> HIDE DEF cleaned, S
<1>8. cleaned \in [1..n -> S]  BY <1>6, <1>7
<1>9. cleaned \in Seq(S)  BY <1>5, <1>8
<1>10. s \in Seq(S) /\ InTheirOrder(s, cleaned, new)
  <2>1. \A places \in SUBSET DOMAIN cleaned : \A r \in Filtered(cleaned, places) :
           r \in Seq(S) /\ InTheirOrder(r, cleaned, places)
    BY <1>9, FilteredInOrder
  <2>2. s \in Filtered(cleaned, new)  BY <1>1
  <2> QED  BY <1>4, <2>1, <2>2
<1>11. DOMAIN s = 1..Len(s) /\ Len(s) \in Nat /\ s = [i \in 1..Len(s) |-> s[i]]
       /\ \A i \in 1..Len(s) : s[i] \in S
  BY <1>10, LenProperties, ElementOfSeq
<1>12. \A i \in 1..Len(s) : Worded(s[i])
  <2>1. PICK p \in [DOMAIN s -> new] : \A i \in DOMAIN s : s[i] = cleaned[p[i]]
    BY <1>10 DEF InTheirOrder
  <2>2. \A i \in DOMAIN s : p[i] \in new /\ s[i] = cleaned[p[i]]  BY <2>1
  <2> QED  BY <1>3, <1>11, <2>2
<1>13. \A i \in 1..Len(s) : s[i] \in Titles  BY <1>2, <1>11, <1>12
<1>14. s \in [1..Len(s) -> Titles]  BY <1>11, <1>13
<1>15. s \in Seq(Titles)  BY <1>11, <1>14
<1> QED  BY <1>1, <1>15, FirstOfIsAPrefix, PageLimits

LEMMA BeginKeeps ==
    ASSUME MarketInv, NEW request \in Requests, NEW selected \in Seq(Texts),
           NEW searches \in Counts, NEW offer \in SUBSET Ad, MostSearched(offer, selected),
           Begin(request, selected, searches, offer)
    PROVE  MarketInv'
<1>1. PICK queue \in Clean(selected) :
          survey' = [pc |-> IF queue = << >> THEN "down" ELSE "asking",
                     category |-> request.category, exclude |-> request.exclude,
                     selected |-> selected, searches |-> searches, offer |-> offer,
                     queue |-> queue, items |-> << >>, answered |-> {},
                     cands |-> cands, obs |-> obs]
  BY DEF Begin
<1>2. /\ survey.pc = "none" /\ commits < MaxCommits
      /\ UNCHANGED <<cands, obs, job, page, commits, months>>
  BY DEF Begin
<1>3. /\ cands \in Seq(Candidate) /\ obs \subseteq Observation /\ IsFiniteSet(obs)
      /\ commits \in 0..MaxCommits
  BY DEF MarketInv, RecordsAreTyped
<1>4. survey' \in SurveyRecord
  <2>1. queue \in Seq(Titles)  BY CleanedAreTitles
  <2>2. request.category \in Categories /\ request.exclude \in SUBSET DOMAIN Containing
    <3>1. request \in AdminDiscoveryRequest  BY AskedAssumption
    <3> QED  BY <3>1 DEF AdminDiscoveryRequest
  <2>3. << >> \in Seq(Answer)  OBVIOUS
  <2> QED  BY <1>1, <1>3, <2>1, <2>2, <2>3 DEF SurveyRecord
<1>5. /\ survey'.pc \in {"asking", "down"} /\ survey'.pc # "none" /\ survey'.pc # "collected"
      /\ survey'.items = << >> /\ survey'.answered = {}
      /\ survey'.cands = cands /\ survey'.obs = obs
      /\ survey'.offer = offer /\ survey'.selected = selected
  BY <1>1
<1>6. RecordsAreTyped'  BY <1>2, <1>3, <1>4, <1>5 DEF MarketInv, RecordsAreTyped
<1>7. TablesAreSound'  BY <1>2 DEF MarketInv, TablesAreSound
<1>8. SurveyIsSound'
  <2>1. NamesOf(<< >>) = {}  BY DEF NamesOf
  <2>2. Sound(cands, obs, commits + 1)
    BY <1>3, SoundLater DEF MarketInv, TablesAreSound
  <2>3. Len(cands) + Len(<< >>) <= (commits + 1) * MaxResults
    <3>1. Len(cands) <= (commits + 1) * MaxResults  BY <2>2 DEF Sound
    <3>2. Len(cands) \in Nat /\ Len(<< >>) = 0  BY <1>3, LenProperties
    <3>3. Len(cands) + Len(<< >>) = Len(cands)  BY <3>2
    <3> QED  BY <3>1, <3>3
  <2>4. Len(<< >>) <= MaxResults  BY PageLimits
  <2>5. Len(cands) <= Len(cands)  BY <1>3, LenProperties
  <2>6. Reported(job, obs)  BY DEF MarketInv, TablesAreSound
  <2> QED  BY <1>2, <1>5, <2>1, <2>2, <2>3, <2>4, <2>5, <2>6 DEF SurveyIsSound
<1>9. PageIsSound'  BY <1>2, <1>5 DEF MarketInv, PageIsSound
<1>10. RowsAreRanked'  BY <1>2 DEF MarketInv, RowsAreRanked
<1> QED  BY <1>6, <1>7, <1>8, <1>9, <1>10 DEF MarketInv

LEMMA SurveyTypedKeeps ==
    ASSUME MarketInv, SurveyTyped
    PROVE  MarketInv'
<1>1. PICK request \in Requests : Begin(request, request.keywords, << >>, {})
  BY DEF SurveyTyped
<1>2. request.keywords \in Seq(Texts)
  <2>1. request \in AdminDiscoveryRequest  BY AskedAssumption
  <2> QED  BY <2>1 DEF AdminDiscoveryRequest
<1>3. MostSearched({}, request.keywords) /\ {} \in SUBSET Ad  BY DEF MostSearched
<1> QED  BY <1>1, <1>2, <1>3, NoCounts, BeginKeeps

(* What is chosen is of what the tool suggested, and nothing that was left *)
(* out has more searches: the limits cut a sequence in that order.         *)
LEMMA ChosenAreMostSearched ==
    ASSUME NEW offer \in Offers, NEW request, NEW suggested \in Suggested(offer, request),
           NEW selected \in Chosen(suggested), NEW rest,
           rest = {item \in offer : /\ item.intent /\ item.searches >= request.minimum
                                    /\ ~Excludes(request.exclude \ BlankTerms, item.keyword)}
    PROVE  /\ suggested \in Seq(Ad) /\ selected \in Seq(Texts)
           /\ MostSearched(rest, selected)
<1> DEFINE kept == {item \in offer : /\ ~Excludes(request.exclude \ BlankTerms, item.keyword)
                                     /\ item.searches >= request.minimum}
           places == {i \in DOMAIN suggested : suggested[i].intent}
<1>1. PICK s \in [1..Cardinality(kept) -> kept] :
          /\ IsInjective(s) /\ \A i, j \in DOMAIN s : i < j => MoreSearched(s[i], s[j])
          /\ suggested = FirstOf(AdLimit, s)
  BY DEF Suggested, Sorted
<1>2. PICK f \in Filtered(suggested, places) : selected = Keywords(FirstOf(TopKeywords, f))
  BY DEF Chosen
<1>3. kept \subseteq offer /\ offer \subseteq Ad /\ IsFiniteSet(offer) /\ IsFiniteSet(kept)
  <2>1. kept \subseteq offer  OBVIOUS
  <2> HIDE DEF kept
  <2> QED  BY <2>1, OffersAssumption, FS_Subset
<1>4. rest \subseteq kept /\ \A item \in rest : item.intent  OBVIOUS
<1> HIDE DEF kept
<1>5. s \in Seq(kept) /\ DOMAIN s = 1..Len(s) /\ \A x \in kept : \E i \in DOMAIN s : s[i] = x
  BY <1>1, <1>3, ArrangedIsComplete
<1>6. /\ suggested \in Seq(kept)
      /\ Len(suggested) = IF AdLimit <= Len(s) THEN AdLimit ELSE Len(s)
      /\ \A i \in DOMAIN suggested : i \in DOMAIN s /\ suggested[i] = s[i]
  BY <1>1, <1>5, PageLimits, FirstOfIsAPrefix
<1>7. places \in SUBSET DOMAIN suggested  OBVIOUS
<1> HIDE DEF places
<1>8. f \in Seq(kept) /\ InTheirOrder(f, suggested, places)
  BY <1>6, <1>7, FilteredInOrder
<1>9. PICK p \in [DOMAIN f -> places] :
            /\ \A i \in DOMAIN f : f[i] = suggested[p[i]]
            /\ \A i, j \in DOMAIN f : i < j => p[i] < p[j]
            /\ \A x \in places : \E i \in DOMAIN f : p[i] = x
  BY <1>8 DEF InTheirOrder
<1> DEFINE best == FirstOf(TopKeywords, f)
<1>10. /\ best \in Seq(kept)
       /\ Len(best) = IF TopKeywords <= Len(f) THEN TopKeywords ELSE Len(f)
       /\ \A i \in DOMAIN best : i \in DOMAIN f /\ best[i] = f[i]
  BY <1>8, PageLimits, FirstOfIsAPrefix
<1> HIDE DEF best
<1>11. DOMAIN selected = DOMAIN best /\ \A i \in DOMAIN best : selected[i] = best[i].keyword
  BY <1>2 DEF Keywords, best
<1>12. \A item \in kept : item.keyword \in Texts /\ item.searches \in Nat
  BY <1>3 DEF Ad
<1>13. selected \in Seq(Texts)
  <2>1. DOMAIN best = 1..Len(best) /\ Len(best) \in Nat /\ \A i \in DOMAIN best : best[i] \in kept
    BY <1>10, LenProperties
  <2>2. selected = [i \in DOMAIN best |-> best[i].keyword]  BY <1>2 DEF Keywords, best
  <2>3. selected \in [1..Len(best) -> Texts]  BY <1>12, <2>1, <2>2
  <2> QED  BY <2>1, <2>3
<1>14. ASSUME NEW item \in rest, NEW other \in rest, item.keyword \notin Range(selected),
              other.keyword \in Range(selected)
       PROVE  item.searches <= other.searches
  <2>1. PICK k \in DOMAIN best : other.keyword = best[k].keyword
    BY <1>11, <1>14 DEF Range
  <2>2. k \in DOMAIN f /\ best[k] = f[k] /\ p[k] \in places /\ f[k] = suggested[p[k]]
    BY <1>9, <1>10, <2>1
  <2>3. p[k] \in DOMAIN s /\ p[k] \in DOMAIN suggested /\ f[k] = s[p[k]]
    BY <1>6, <1>7, <2>2
  <2>4. other = s[p[k]]
    <3>1. s[p[k]] \in kept  BY <1>5, <2>3
    <3>2. s[p[k]] \in offer /\ other \in offer  BY <1>3, <1>4, <3>1
    <3> QED  BY <2>1, <2>2, <2>3, <3>2, OffersAssumption
  <2>5. PICK m \in DOMAIN s : s[m] = item
    BY <1>4, <1>5
  <2>6. p[k] < m
    <3>1. p[k] \in Int /\ m \in Int /\ k \in Int  BY <1>5, <1>8, <2>2, <2>3, LenProperties
    <3>2. CASE m \in DOMAIN suggested
      <4>1. suggested[m] = item /\ m \in places  BY <1>4, <1>6, <2>5, <3>2 DEF places
      <4>2. PICK l \in DOMAIN f : p[l] = m  BY <1>9, <4>1
      <4>3. l \notin DOMAIN best
        <5>1. SUFFICES ASSUME l \in DOMAIN best PROVE FALSE  OBVIOUS
        <5>2. best[l] = item  BY <1>9, <1>10, <4>1, <4>2, <5>1
        <5>3. selected[l] = item.keyword /\ l \in DOMAIN selected  BY <1>11, <5>1, <5>2
        <5> QED  BY <1>14, <5>3 DEF Range
      <4>4. k < l
        <5>1. /\ DOMAIN best = 1..Len(best) /\ Len(best) \in Nat
              /\ DOMAIN f = 1..Len(f) /\ Len(f) \in Nat
          BY <1>8, <1>10, LenProperties
        <5> QED  BY <2>1, <4>2, <4>3, <5>1
      <4> QED  BY <1>9, <2>2, <4>2, <4>4
    <3>3. CASE m \notin DOMAIN suggested
      <4>1. /\ DOMAIN suggested = 1..Len(suggested) /\ Len(suggested) \in Nat
            /\ DOMAIN s = 1..Len(s) /\ Len(s) \in Nat
        BY <1>5, <1>6, LenProperties
      <4> QED  BY <2>3, <2>5, <3>1, <3>3, <4>1
    <3> QED  BY <3>2, <3>3
  <2>7. MoreSearched(other, item)
    BY <1>1, <2>3, <2>4, <2>5, <2>6
  <2>8. item.searches \in Nat /\ other.searches \in Nat  BY <1>4, <1>12
  <2> QED  BY <2>7, <2>8 DEF MoreSearched
<1>15. suggested \in Seq(Ad)
  <2>1. kept \subseteq Ad  BY <1>3
  <2>2. DOMAIN suggested = 1..Len(suggested) /\ Len(suggested) \in Nat
        /\ \A i \in DOMAIN suggested : suggested[i] \in kept
    BY <1>6, LenProperties
  <2>3. suggested = [i \in 1..Len(suggested) |-> suggested[i]]  BY <1>6, <2>2
  <2>4. suggested \in [1..Len(suggested) -> Ad]  BY <2>1, <2>2, <2>3
  <2> QED  BY <2>2, <2>4
<1> QED  BY <1>13, <1>14, <1>15 DEF MostSearched

LEMMA SurveySuggestedKeeps ==
    ASSUME MarketInv, SurveySuggested
    PROVE  MarketInv'
<1>1. PICK request \in Requests, offer \in Offers :
      \E suggested \in Suggested(offer, request) : \E selected \in Chosen(suggested) :
         Begin(request, selected,
               [k \in {item.keyword : item \in Range(suggested)} |->
                   (CHOOSE item \in Range(suggested) : item.keyword = k).searches],
               {item \in offer : /\ item.intent /\ item.searches >= request.minimum
                                 /\ ~Excludes(request.exclude \ BlankTerms, item.keyword)})
  BY DEF SurveySuggested
<1>2. PICK suggested \in Suggested(offer, request) : \E selected \in Chosen(suggested) :
         Begin(request, selected,
               [k \in {item.keyword : item \in Range(suggested)} |->
                   (CHOOSE item \in Range(suggested) : item.keyword = k).searches],
               {item \in offer : /\ item.intent /\ item.searches >= request.minimum
                                 /\ ~Excludes(request.exclude \ BlankTerms, item.keyword)})
  BY <1>1
<1>3. PICK selected \in Chosen(suggested) :
         Begin(request, selected,
               [k \in {item.keyword : item \in Range(suggested)} |->
                   (CHOOSE item \in Range(suggested) : item.keyword = k).searches],
               {item \in offer : /\ item.intent /\ item.searches >= request.minimum
                                 /\ ~Excludes(request.exclude \ BlankTerms, item.keyword)})
  BY <1>2
<1> DEFINE named == {item.keyword : item \in Range(suggested)}
           first(k) == CHOOSE item \in Range(suggested) : item.keyword = k
           counts == [k \in named |-> first(k).searches]
           rest == {item \in offer : /\ item.intent /\ item.searches >= request.minimum
                                     /\ ~Excludes(request.exclude \ BlankTerms, item.keyword)}
<1>4. suggested \in Seq(Ad) /\ selected \in Seq(Texts) /\ MostSearched(rest, selected)
  BY ChosenAreMostSearched
<1>5. Range(suggested) \subseteq Ad  BY <1>4 DEF Range
<1>6. named \in SUBSET Texts  BY <1>5 DEF Ad
<1>7. ASSUME NEW k \in named PROVE first(k).searches \in Nat
  <2>1. \E item \in Range(suggested) : item.keyword = k  OBVIOUS
  <2>2. first(k) \in Range(suggested)  BY <2>1
  <2> HIDE DEF first
  <2>3. first(k) \in Ad  BY <1>5, <2>2
  <2> QED  BY <2>3 DEF Ad
<1>8. counts \in Counts
  <2> HIDE DEF named, first
  <2>1. counts \in [named -> Nat]  BY <1>7
  <2> QED  BY <1>6, <2>1 DEF Counts
<1>9. rest \in SUBSET Ad
  <2>1. offer \subseteq Ad  BY OffersAssumption
  <2> QED  BY <2>1
<1>10. Begin(request, selected, counts, rest)  BY <1>3
<1> HIDE DEF counts, rest
<1> QED  BY <1>4, <1>8, <1>9, <1>10, BeginKeeps

(* What a batch answers has the months that end with the last complete     *)
(* one, whatever the shape of the answer.                                  *)
LEMMA SeriesAreSeries ==
    ASSUME NEW shape \in Seq(Nat), months \in Nat
    PROVE  SeriesOf(shape) \in Seq(Point)
<1> DEFINE n == Len(shape)
           turn(i) == ((Month - 2 - (n - i)) % 12) + 1
<1>1. n \in Nat /\ DOMAIN shape = 1..n /\ \A i \in 1..n : shape[i] \in Nat
  BY LenProperties, ElementOfSeq
<1>2. Month \in 1..12
  <2>1. \A x \in Nat : (x % 12) + 1 \in 1..12  OBVIOUS
  <2> QED  BY <2>1 DEF Month
<1>3. SeriesOf(shape) = [i \in 1..n |-> [month |-> turn(i), ratio |-> shape[i]]]
  BY <1>1 DEF SeriesOf
<1> HIDE DEF n
<1>4. \A i \in 1..n : turn(i) \in 1..12
  <2>1. \A x \in Int : (x % 12) + 1 \in 1..12  OBVIOUS
  <2>2. \A m \in 1..12, i \in 1..n : m - 2 - (n - i) \in Int  BY <1>1
  <2>3. \A i \in 1..n : Month - 2 - (n - i) \in Int  BY <1>2, <2>2
  <2> QED  BY <2>1, <2>3
<1> HIDE DEF turn
<1>5. \A i \in 1..n : [month |-> turn(i), ratio |-> shape[i]] \in Point
  BY <1>1, <1>4 DEF Point
<1>6. SeriesOf(shape) \in [1..n -> Point]  BY <1>3, <1>5
<1> QED  BY <1>1, <1>6

LEMMA RestIsTyped ==
    ASSUME NEW queue \in Seq(Titles), NEW m \in Nat
    PROVE  SubSeq(queue, m + 1, Len(queue)) \in Seq(Titles)
<1> DEFINE n == Len(queue)
<1>1. m + 1 \in Int /\ n \in Int /\ 1 <= m + 1  BY LenProperties
<1>2. \A i \in (m + 1)..n : i \in 1..n  BY <1>1
<1>3. \A i \in 1..n : queue[i] \in Titles  BY ElementOfSeq
<1> HIDE DEF n
<1>4. SubSeq(queue, m + 1, n) \in Seq(Titles)  BY <1>1, <1>2, <1>3, SubSeqProperties
<1> QED  BY <1>4 DEF n

LEMMA AnsweredAreOfTheBatch ==
    ASSUME NEW S, NEW batch \in Seq(S), NEW answered,
           NEW titles \in Filtered(batch, {i \in DOMAIN batch : batch[i] \in answered})
    PROVE  titles \in Seq(S) /\ \A i \in DOMAIN titles : titles[i] \in answered
<1> DEFINE places == {i \in DOMAIN batch : batch[i] \in answered}
<1>1. \A i \in places : batch[i] \in answered  OBVIOUS
<1>2. places \in SUBSET DOMAIN batch  OBVIOUS
<1>3. titles \in Filtered(batch, places)  OBVIOUS
<1> HIDE DEF places
<1>4. titles \in Seq(S) /\ InTheirOrder(titles, batch, places)
  BY <1>2, <1>3, FilteredInOrder
<1>5. PICK p \in [DOMAIN titles -> places] : \A i \in DOMAIN titles : titles[i] = batch[p[i]]
  BY <1>4 DEF InTheirOrder
<1> QED  BY <1>1, <1>4, <1>5

LEMMA AnswersAreTyped ==
    ASSUME NEW items \in Seq(Answer), months \in Nat,
           NEW titles \in Seq(Titles), NEW answered, \A i \in DOMAIN titles : titles[i] \in answered,
           NEW shape \in [answered -> Shapes],
           NEW next,
           next = FirstOf(MaxResults, items \o
                      [i \in DOMAIN titles |->
                          [title |-> titles[i], series |-> SeriesOf(shape[titles[i]])]])
    PROVE  next \in Seq(Answer) /\ Len(next) <= MaxResults
<1> DEFINE found(i) == [title |-> titles[i], series |-> SeriesOf(shape[titles[i]])]
           n == Len(titles)
<1>1. n \in Nat /\ DOMAIN titles = 1..n /\ \A i \in 1..n : titles[i] \in Titles
  BY LenProperties, ElementOfSeq
<1> HIDE DEF n
<1>2. ASSUME NEW i \in 1..n
      PROVE  found(i) \in Answer
  <2>1. shape[titles[i]] \in Shapes  BY <1>1
  <2>2. shape[titles[i]] \in Seq(Nat)  BY <2>1, AnswersAssumption
  <2>3. SeriesOf(shape[titles[i]]) \in Seq(Point)  BY <2>2, SeriesAreSeries
  <2> QED  BY <1>1, <2>3 DEF Answer
<1> DEFINE more == [i \in DOMAIN titles |-> found(i)]
<1>3. more = [i \in 1..n |-> found(i)]  BY <1>1
<1>4. next = FirstOf(MaxResults, items \o more)  OBVIOUS
<1> HIDE DEF more, found
<1>5. more \in [1..n -> Answer]  BY <1>2, <1>3
<1>6. more \in Seq(Answer)  BY <1>1, <1>5
<1> DEFINE all == items \o more
<1>7. all \in Seq(Answer)  BY <1>6, ConcatProperties
<1>8. next = FirstOf(MaxResults, all)  BY <1>4
<1> HIDE DEF all
<1>9. Len(all) \in Nat /\ MaxResults \in Nat  BY <1>7, LenProperties, PageLimits
<1>10. /\ FirstOf(MaxResults, all) \in Seq(Answer)
       /\ Len(FirstOf(MaxResults, all)) = IF MaxResults <= Len(all) THEN MaxResults ELSE Len(all)
  BY <1>7, <1>9, FirstOfIsAPrefix
<1>11. Len(next) <= MaxResults  BY <1>8, <1>9, <1>10
<1> QED  BY <1>8, <1>10, <1>11

LEMMA AskBatchKeeps ==
    ASSUME MarketInv, AskBatch
    PROVE  MarketInv'
<1> DEFINE batch == FirstOf(BatchSize, survey.queue)
           rest == SubSeq(survey.queue, Len(batch) + 1, Len(survey.queue))
<1>1. /\ survey.pc = "asking" /\ survey \in SurveyRecord
      /\ UNCHANGED <<cands, obs, job, page, commits, months>>
  BY DEF AskBatch, MarketInv, RecordsAreTyped
<1>2. PICK answered \in SUBSET {k \in Range(batch) : ~Excludes(survey.exclude, k)} :
      \E shape \in [answered -> Shapes] :
      \E titles \in Filtered(batch, {i \in DOMAIN batch : batch[i] \in answered}) :
         LET items == FirstOf(MaxResults, survey.items \o
                          [i \in DOMAIN titles |->
                              [title |-> titles[i], series |-> SeriesOf(shape[titles[i]])]])
             queue == IF Len(items) = MaxResults THEN << >> ELSE rest
         IN survey' = [survey EXCEPT
                !.items = items, !.queue = queue,
                !.answered = {items[i].title : i \in DOMAIN items},
                !.pc = IF queue = << >> THEN "collected" ELSE "asking"]
  BY Zenon DEF AskBatch
<1>3. PICK shape \in [answered -> Shapes] :
      \E titles \in Filtered(batch, {i \in DOMAIN batch : batch[i] \in answered}) :
         LET items == FirstOf(MaxResults, survey.items \o
                          [i \in DOMAIN titles |->
                              [title |-> titles[i], series |-> SeriesOf(shape[titles[i]])]])
             queue == IF Len(items) = MaxResults THEN << >> ELSE rest
         IN survey' = [survey EXCEPT
                !.items = items, !.queue = queue,
                !.answered = {items[i].title : i \in DOMAIN items},
                !.pc = IF queue = << >> THEN "collected" ELSE "asking"]
  BY <1>2, Zenon
<1>4. PICK titles \in Filtered(batch, {i \in DOMAIN batch : batch[i] \in answered}) :
         LET items == FirstOf(MaxResults, survey.items \o
                          [i \in DOMAIN titles |->
                              [title |-> titles[i], series |-> SeriesOf(shape[titles[i]])]])
             queue == IF Len(items) = MaxResults THEN << >> ELSE rest
         IN survey' = [survey EXCEPT
                !.items = items, !.queue = queue,
                !.answered = {items[i].title : i \in DOMAIN items},
                !.pc = IF queue = << >> THEN "collected" ELSE "asking"]
  BY <1>3, Zenon
<1> DEFINE items == FirstOf(MaxResults, survey.items \o
                        [i \in DOMAIN titles |->
                            [title |-> titles[i], series |-> SeriesOf(shape[titles[i]])]])
           queue == IF Len(items) = MaxResults THEN << >> ELSE rest
           pc == IF queue = << >> THEN "collected" ELSE "asking"
<1>5. survey' = [survey EXCEPT !.items = items, !.queue = queue, !.answered = NamesOf(items),
                               !.pc = pc]
  BY <1>4, Zenon DEF NamesOf
<1>6. /\ survey.queue \in Seq(Titles) /\ survey.items \in Seq(Answer)
      /\ survey.cands \in Seq(Candidate)
  BY <1>1 DEF SurveyRecord
<1>7. months \in Nat /\ commits \in Nat /\ obs \subseteq Observation /\ cands \in Seq(Candidate)
  BY PageLimits DEF MarketInv, RecordsAreTyped
<1>8. rest \in Seq(Titles) /\ items \in Seq(Answer) /\ Len(items) <= MaxResults
  <2>1. batch \in Seq(Titles) /\ Len(batch) \in Nat
    BY <1>6, FirstOfIsAPrefix, PageLimits, LenProperties
  <2>2. rest \in Seq(Titles)  BY <1>6, <2>1, RestIsTyped
  <2> DEFINE b == batch
             t == items
  <2>3. titles \in Filtered(b, {i \in DOMAIN b : b[i] \in answered})  OBVIOUS
  <2>4. t = FirstOf(MaxResults, survey.items \o
                        [i \in DOMAIN titles |->
                            [title |-> titles[i], series |-> SeriesOf(shape[titles[i]])]])
    OBVIOUS
  <2>5. b \in Seq(Titles)  BY <2>1
  <2> HIDE DEF b, t
  <2>6. titles \in Seq(Titles) /\ \A i \in DOMAIN titles : titles[i] \in answered
    BY <2>3, <2>5, AnsweredAreOfTheBatch
  <2>7. titles \in Seq(Titles)  BY <2>6
  <2>8. survey.items \in Seq(Answer)  BY <1>6
  <2>9. months \in Nat  BY <1>7
  <2>10. t \in Seq(Answer) /\ Len(t) <= MaxResults
    BY <2>4, <2>6, <2>7, <2>8, <2>9, AnswersAreTyped
  <2> QED  BY <2>2, <2>10 DEF t
<1> HIDE DEF items, rest, batch
<1>9. queue \in Seq(Titles) /\ pc \in {"asking", "collected"} /\ (pc = "collected" => queue = << >>)
  BY <1>8
<1> HIDE DEF queue, pc
<1>10. NamesOf(items) \subseteq Titles
  <2>1. ASSUME NEW i \in DOMAIN items PROVE items[i].title \in Titles
    <3>1. items[i] \in Answer  BY <1>8, LenProperties, ElementOfSeq
    <3> QED  BY <3>1 DEF Answer
  <2> QED  BY <2>1 DEF NamesOf
<1>11. survey' \in SurveyRecord  BY <1>1, <1>5, <1>8, <1>9, <1>10 DEF SurveyRecord
<1>12. /\ survey'.pc = pc /\ survey'.items = items /\ survey'.queue = queue
       /\ survey'.answered = NamesOf(items)
       /\ survey'.offer = survey.offer /\ survey'.selected = survey.selected
       /\ survey'.cands = survey.cands /\ survey'.obs = survey.obs
  BY <1>1, <1>5 DEF SurveyRecord
<1>13. /\ survey.cands = cands /\ survey.obs = obs /\ commits < MaxCommits
       /\ MostSearched(survey.offer, survey.selected)
       /\ Sound(survey.cands, survey.obs, commits + 1) /\ Reported(job, survey.obs)
       /\ Sound(cands, obs, commits)
  BY <1>1 DEF MarketInv, SurveyIsSound, TablesAreSound
<1>14. RecordsAreTyped'  BY <1>1, <1>11, <1>12 DEF MarketInv, RecordsAreTyped
<1>15. TablesAreSound'  BY <1>1 DEF MarketInv, TablesAreSound
<1>16. SurveyIsSound'
  <2>1. Len(cands) + Len(items) <= (commits + 1) * MaxResults
    <3>1. Len(cands) <= commits * MaxResults  BY <1>13 DEF Sound
    <3>2. /\ Len(cands) \in Nat /\ Len(items) \in Nat /\ MaxResults \in Nat
          /\ commits * MaxResults \in Nat
          /\ (commits + 1) * MaxResults = commits * MaxResults + MaxResults
      BY <1>7, <1>8, LenProperties, PageLimits
    <3> DEFINE room == commits * MaxResults
    <3>3. room \in Nat /\ (commits + 1) * MaxResults = room + MaxResults /\ Len(cands) <= room
      BY <3>1, <3>2
    <3> HIDE DEF room
    <3>4. Len(cands) + Len(items) <= room + MaxResults  BY <1>8, <3>2, <3>3
    <3> QED  BY <3>3, <3>4
  <2>2. FoundAt(obs, commits + 1) = {}
    <3>1. \A p \in obs : p.real => p.at <= commits  BY <1>13 DEF Sound
    <3>2. \A p \in obs : p.at \in Int  BY <1>7, ObservationFields
    <3>3. \A p \in obs : p.real => p.at # commits + 1  BY <1>7, <3>1, <3>2
    <3> QED  BY <3>3 DEF FoundAt
  <2>3. Len(cands) <= Len(cands)  BY <1>7, LenProperties
  <2>4. pc # "none" /\ pc # "down"  BY <1>9
  <2>5. FoundAt(obs, commits + 1) \cup NamesOf(items) = NamesOf(items)  BY <2>2
  <2> QED  BY <1>1, <1>8, <1>9, <1>12, <1>13, <2>1, <2>3, <2>4, <2>5 DEF SurveyIsSound
<1>17. PageIsSound'  BY <1>1, <1>12, <1>13 DEF MarketInv, PageIsSound
<1>18. RowsAreRanked'  BY <1>1 DEF MarketInv, RowsAreRanked
<1> QED  BY <1>14, <1>15, <1>16, <1>17, <1>18 DEF MarketInv

(* There is an id for the candidate of every item that is ingested.        *)
LEMMA IdsAreEnough ==
    ASSUME NEW n \in Nat, NEW now \in Nat, now <= MaxCommits, n <= now * MaxResults
    PROVE  n <= MaxCommits * (MaxResults + 1)
<1>1. MaxCommits \in Nat /\ MaxResults \in Nat  BY PageLimits
<1>2. \A a, b, r \in Nat : a <= b => a * r <= b * r /\ a * r \in Nat /\ b * r \in Nat  OBVIOUS
<1>3. now * MaxResults <= MaxCommits * MaxResults  BY <1>1, <1>2
<1>4. MaxCommits * (MaxResults + 1) = MaxCommits * MaxResults + MaxCommits  BY <1>1
<1>5. now * MaxResults \in Nat /\ MaxCommits * MaxResults \in Nat  BY <1>1
<1> QED  BY <1>1, <1>3, <1>4, <1>5

LEMMA NamesWithoutTheFirst ==
    ASSUME NEW items \in Seq(Answer), items # << >>
    PROVE  /\ Head(items) \in Answer /\ Tail(items) \in Seq(Answer)
           /\ Len(items) \in Nat \ {0} /\ Len(Tail(items)) = Len(items) - 1
           /\ NamesOf(items) = NamesOf(Tail(items)) \cup {Head(items).title}
<1> DEFINE n == Len(items)
           tail == Tail(items)
<1>1. /\ Head(items) \in Answer /\ tail \in Seq(Answer) /\ Len(tail) = n - 1
      /\ \A i \in 1..Len(tail) : tail[i] = items[i + 1]
  BY HeadTailProperties
<1>2. n \in Nat \ {0} /\ DOMAIN items = 1..n  BY EmptySeq, LenProperties
<1>3. DOMAIN tail = 1..(n - 1)  BY <1>1, LenProperties
<1>4. Head(items) = items[1]  OBVIOUS
<1> HIDE DEF n, tail
<1>5. \A i \in 1..n : i = 1 \/ (i - 1 \in 1..(n - 1) /\ tail[i - 1] = items[i])
  <2>1. SUFFICES ASSUME NEW i \in 1..n, i # 1
                 PROVE  i - 1 \in 1..(n - 1) /\ tail[i - 1] = items[i]
    OBVIOUS
  <2>2. i - 1 \in 1..(n - 1) /\ (i - 1) + 1 = i  BY <1>2, <2>1
  <2> QED  BY <1>1, <2>2
<1>6. \A i \in 1..(n - 1) : i + 1 \in 1..n /\ tail[i] = items[i + 1]  BY <1>1, <1>2
<1>7. NamesOf(tail) \subseteq NamesOf(items)  BY <1>2, <1>3, <1>6 DEF NamesOf
<1>8. 1 \in 1..n  BY <1>2
<1>9. items[1].title \in NamesOf(items)  BY <1>2, <1>8 DEF NamesOf
<1>10. ASSUME NEW x \in NamesOf(items) PROVE x \in NamesOf(tail) \cup {items[1].title}
  <2>1. PICK i \in 1..n : x = items[i].title  BY <1>2 DEF NamesOf
  <2>2. CASE i = 1  BY <2>1, <2>2
  <2>3. CASE i # 1
    <3>1. i - 1 \in DOMAIN tail /\ tail[i - 1] = items[i]  BY <1>3, <1>5, <2>3
    <3> QED  BY <2>1, <3>1 DEF NamesOf
  <2> QED  BY <2>2, <2>3
<1>11. NamesOf(items) = NamesOf(tail) \cup {items[1].title}  BY <1>7, <1>9, <1>10
<1> QED  BY <1>1, <1>2, <1>4, <1>11 DEF n, tail

LEMMA IngestItemKeeps ==
    ASSUME MarketInv, IngestItem
    PROVE  MarketInv'
<1> DEFINE item == Head(survey.items)
           observed(i) == [source |-> survey.category, title |-> item.title, month |-> months,
                           cand |-> i, at |-> commits + 1, series |-> item.series, real |-> TRUE]
<1>1. /\ survey.pc = "collected" /\ survey.items # << >> /\ survey \in SurveyRecord
      /\ UNCHANGED <<cands, obs, job, page, commits, months>>
  BY DEF IngestItem, MarketInv, RecordsAreTyped
<1>2. PICK i \in Linked(survey.cands, item.title) :
         survey' = [survey EXCEPT
              !.items = Tail(@), !.cands = WithCandidate(@, item.title),
              !.obs = WithObservation(@, observed(i))]
  BY DEF IngestItem
<1>3. /\ survey.items \in Seq(Answer) /\ survey.cands \in Seq(Candidate)
      /\ survey.obs \subseteq Observation /\ survey.category \in Categories \cup {"none", "mock"}
  BY <1>1 DEF SurveyRecord
<1>4. /\ commits \in 0..MaxCommits /\ months \in 0..MaxMonths /\ IsFiniteSet(survey.obs)
      /\ job \in JobRecord /\ page \in PageRecord
  BY DEF MarketInv, RecordsAreTyped
<1>5. /\ commits < MaxCommits
      /\ Sound(survey.cands, survey.obs, commits + 1)
      /\ Len(survey.cands) + Len(survey.items) <= (commits + 1) * MaxResults
      /\ Len(cands) <= Len(survey.cands)
      /\ \A c \in DOMAIN cands : survey.cands[c] = cands[c]
      /\ \A c \in DOMAIN survey.cands \ DOMAIN cands : survey.cands[c].at = commits + 1
      /\ Reported(job, survey.obs) /\ survey.queue = << >>
      /\ FoundAt(survey.obs, commits + 1) \cup NamesOf(survey.items) = survey.answered
      /\ MostSearched(survey.offer, survey.selected) /\ Len(survey.items) <= MaxResults
      /\ Reported(page.job, survey.obs)
  BY <1>1 DEF MarketInv, SurveyIsSound, PageIsSound
<1> DEFINE tail == Tail(survey.items)
           next == WithCandidate(survey.cands, item.title)
           o == observed(i)
           after == WithObservation(survey.obs, o)
<1>6. /\ item \in Answer /\ tail \in Seq(Answer) /\ Len(survey.items) \in Nat \ {0}
      /\ Len(tail) = Len(survey.items) - 1
      /\ NamesOf(survey.items) = NamesOf(tail) \cup {item.title}
  BY <1>1, <1>3, NamesWithoutTheFirst
<1>7. survey' = [survey EXCEPT !.items = tail, !.cands = next, !.obs = after]
  BY <1>2
<1>8. item.title \in Titles /\ item.series \in Seq(Point)  BY <1>6 DEF Answer
<1> HIDE DEF item
<1>9. /\ o.title = item.title /\ o.cand = i /\ o.real /\ o.at = commits + 1
      /\ o = [source |-> survey.category, title |-> item.title, month |-> months,
              cand |-> i, at |-> commits + 1, series |-> item.series, real |-> TRUE]
  OBVIOUS
<1>10. next = WithCandidate(survey.cands, item.title) /\ after = WithObservation(survey.obs, o)
  OBVIOUS
<1> HIDE DEF tail, next, o, after, observed
<1>11. /\ next \in Seq(Candidate)
       /\ Len(survey.cands) <= Len(next) /\ Len(next) <= Len(survey.cands) + 1
       /\ \A j \in DOMAIN survey.cands : j \in DOMAIN next /\ next[j] = survey.cands[j]
       /\ i \in DOMAIN next
       /\ \A j \in DOMAIN next \ DOMAIN survey.cands : next[j].at = commits + 1
  <2> DEFINE title == item.title
             known == survey.cands
  <2>1. title \in Titles  BY <1>8
  <2>2. i \in Linked(known, title)  BY <1>2
  <2>3. next = WithCandidate(known, title)  BY <1>10
  <2>4. known \in Seq(Candidate)  BY <1>3
  <2>5. commits \in 0..MaxCommits  BY <1>4
  <2>6. commits < MaxCommits  BY <1>5
  <2> HIDE DEF title, known
  <2>7. /\ next \in Seq(Candidate)
        /\ Len(known) <= Len(next) /\ Len(next) <= Len(known) + 1
        /\ \A j \in DOMAIN known : j \in DOMAIN next /\ next[j] = known[j]
        /\ i \in DOMAIN next
        /\ \/ next[i].title = title
           \/ next[i].title \in Titles /\ <<next[i].title, title>> \in Near
        /\ \A j \in DOMAIN next \ DOMAIN known :
              /\ next[j].title = title /\ next[j].at = commits + 1 /\ j = Len(next)
              /\ \A k \in DOMAIN known : known[k].title # title
    BY <2>1, <2>2, <2>3, <2>4, <2>5, <2>6, LinkedToACandidate
  <2> QED  BY <2>7 DEF known
<1> DEFINE room == (commits + 1) * MaxResults
<1>12. /\ room \in Nat /\ Len(survey.cands) \in Nat /\ Len(next) \in Nat /\ Len(tail) \in Nat
       /\ Len(cands) \in Nat /\ DOMAIN next = 1..Len(next)
  BY <1>3, <1>4, <1>6, <1>11, LenProperties, PageLimits DEF MarketInv, RecordsAreTyped
<1>13. Len(survey.cands) + Len(survey.items) <= room  BY <1>5
<1> HIDE DEF room
<1>14. Len(survey.cands) + 1 <= room /\ Len(next) + Len(tail) <= room /\ Len(next) <= room
  <2>1. \A a, b, c, d, e \in Int :
           a + b <= e /\ b >= 1 /\ c <= a + 1 /\ d = b - 1 /\ d >= 0
           => a + 1 <= e /\ c + d <= e /\ c <= e
    OBVIOUS
  <2>2. /\ Len(survey.cands) \in Int /\ Len(survey.items) \in Int /\ Len(next) \in Int
        /\ Len(tail) \in Int /\ room \in Int /\ Len(tail) >= 0 /\ Len(survey.items) >= 1
    BY <1>6, <1>12
  <2> QED  BY <1>6, <1>11, <1>13, <2>1, <2>2
<1>15. o \in Observation
  <2>1. commits + 1 \in Nat /\ commits + 1 <= MaxCommits /\ commits + 1 \in 1..MaxCommits
    BY <1>4, <1>5, PageLimits
  <2>2. Len(next) <= MaxCommits * (MaxResults + 1)
    BY <1>12, <1>14, <2>1, IdsAreEnough DEF room
  <2>3. MaxCommits * (MaxResults + 1) \in Nat  BY PageLimits
  <2>4. i \in 1..(MaxCommits * (MaxResults + 1))  BY <1>11, <1>12, <2>2, <2>3
  <2> QED  BY <1>3, <1>4, <1>8, <1>9, <2>1, <2>4 DEF Observation
<1>16. after \subseteq Observation /\ IsFiniteSet(after) /\ Sound(next, after, commits + 1)
  <2>1. Len(survey.cands) + 1 <= (commits + 1) * MaxResults  BY <1>14 DEF room
  <2> DEFINE title == item.title
             sees == survey.obs
             sees_c == survey.cands
  <2>2. title \in Titles  BY <1>8
  <2>3. i \in Linked(sees_c, title)  BY <1>2
  <2>4. next = WithCandidate(sees_c, title)  BY <1>10
  <2>5. sees_c \in Seq(Candidate)  BY <1>3
  <2>6. sees \subseteq Observation  BY <1>3
  <2>7. IsFiniteSet(sees)  BY <1>4
  <2>8. Sound(sees_c, sees, commits + 1)  BY <1>5
  <2>9. o.title = title /\ o.cand = i /\ (o.real => o.at = commits + 1)
        /\ (o.real \/ title \in MockTitles)
    BY <1>9
  <2>10. after = WithObservation(sees, o)  BY <1>10
  <2>11. commits \in 0..MaxCommits  BY <1>4
  <2>12. commits < MaxCommits  BY <1>5
  <2>13. Len(sees_c) + 1 <= (commits + 1) * MaxResults  BY <2>1
  <2> HIDE DEF title, sees, sees_c
  <2> QED  BY <1>15, <2>2, <2>3, <2>4, <2>5, <2>6, <2>7, <2>8, <2>9, <2>10, <2>11, <2>12, <2>13,
              LinkKeepsTheTables
<1>17. survey' \in SurveyRecord
  BY <1>1, <1>6, <1>7, <1>11, <1>16 DEF SurveyRecord
<1>18. /\ survey'.pc = "collected" /\ survey'.items = tail /\ survey'.queue = survey.queue
       /\ survey'.answered = survey.answered
       /\ survey'.offer = survey.offer /\ survey'.selected = survey.selected
       /\ survey'.cands = next /\ survey'.obs = after
  BY <1>1, <1>7 DEF SurveyRecord
<1>19. \A report : report.at \in Nat /\ report.at <= commits /\ Reported(report, survey.obs)
          => Reported(report, after)
  <2>1. SUFFICES ASSUME NEW report, report.at \in Nat, report.at <= commits,
                        Reported(report, survey.obs)
                 PROVE  Reported(report, after)
    OBVIOUS
  <2>2. commits + 1 \in Nat /\ report.at <= commits + 1  BY <1>4, <2>1
  <2>3. \A p \in survey.obs : p.real \/ p.title \in MockTitles  BY <1>5 DEF Sound
  <2> QED  BY <1>3, <1>9, <1>10, <1>15, <2>1, <2>2, <2>3, LinkKeepsReports
<1>20. /\ job.at \in Nat /\ job.at <= commits
       /\ page.job.at \in Nat /\ page.job.at <= commits
  <2>1. page.job \in JobRecord  BY <1>4 DEF PageRecord
  <2>2. job.at \in Nat /\ page.job.at \in Nat  BY <1>4, <2>1, PageLimits DEF JobRecord
  <2> QED  BY <2>2 DEF MarketInv, TablesAreSound, PageIsSound
<1>21. RecordsAreTyped'  BY <1>1, <1>16, <1>17, <1>18 DEF MarketInv, RecordsAreTyped
<1>22. TablesAreSound'  BY <1>1 DEF MarketInv, TablesAreSound
<1>23. SurveyIsSound'
  <2>1. Len(next) + Len(tail) <= (commits + 1) * MaxResults  BY <1>14 DEF room
  <2>2. Len(cands) <= Len(next)  BY <1>5, <1>11, <1>12
  <2>3. \A c \in DOMAIN cands : next[c] = cands[c]
    <3>1. DOMAIN cands \subseteq DOMAIN survey.cands
      <4>1. cands \in Seq(Candidate)  BY DEF MarketInv, RecordsAreTyped
      <4>2. DOMAIN cands = 1..Len(cands) /\ DOMAIN survey.cands = 1..Len(survey.cands)
        BY <1>3, <4>1, LenProperties
      <4> QED  BY <1>5, <1>12, <4>2
    <3> QED  BY <1>5, <1>11, <3>1
  <2>4. \A c \in DOMAIN next \ DOMAIN cands : next[c].at = commits + 1
    <3>1. SUFFICES ASSUME NEW c \in DOMAIN next \ DOMAIN cands PROVE next[c].at = commits + 1
      OBVIOUS
    <3>2. CASE c \in DOMAIN survey.cands  BY <1>5, <1>11, <3>1, <3>2
    <3>3. CASE c \notin DOMAIN survey.cands  BY <1>11, <3>1, <3>3
    <3> QED  BY <3>2, <3>3
  <2>5. FoundAt(after, commits + 1) = FoundAt(survey.obs, commits + 1) \cup {item.title}
    BY <1>9, <1>10, LinkAddsTheFound
  <2>6. FoundAt(after, commits + 1) \cup NamesOf(tail) = survey.answered
    BY <1>5, <1>6, <2>5
  <2>7. Len(tail) <= MaxResults  BY <1>5, <1>6, PageLimits
  <2>8. Reported(job, after)  BY <1>5, <1>19, <1>20
  <2> QED  BY <1>1, <1>5, <1>16, <1>18, <2>1, <2>2, <2>3, <2>6, <2>7, <2>8, <2>4 DEF SurveyIsSound
<1>24. PageIsSound'
  <2>1. Reported(page.job, after)  BY <1>5, <1>19, <1>20
  <2> QED  BY <1>1, <1>18, <2>1 DEF MarketInv, PageIsSound
<1>25. RowsAreRanked'  BY <1>1 DEF MarketInv, RowsAreRanked
<1> QED  BY <1>21, <1>22, <1>23, <1>24, <1>25 DEF MarketInv

(* Candidates that come later are younger than the page, and change        *)
(* nothing about the ones that its limit cannot have cut.                  *)
LEMMA PageKeepsItsCandidates ==
    ASSUME MarketInv, NEW known \in Seq(Candidate),
           \A j \in DOMAIN cands : j \in DOMAIN known /\ known[j] = cands[j],
           \A j \in DOMAIN known \ DOMAIN cands : known[j].at = commits + 1
    PROVE  /\ page.listed \subseteq DOMAIN known
           /\ page.pc \in {"candidates", "job"} =>
                 \A i \in DOMAIN known :
                     /\ known[i].at <= page.began
                     /\ Cardinality({j \in DOMAIN known : known[j].at \in known[i].at..page.began})
                           <= CandidateLimit
                     => i \in page.listed
<1>1. /\ page.listed \subseteq DOMAIN cands /\ page.began <= commits
      /\ page \in PageRecord /\ commits \in Nat
  BY PageLimits DEF MarketInv, PageIsSound, RecordsAreTyped
<1>2. page.began \in Int  BY <1>1, PageLimits DEF PageRecord
<1>3. \A j \in DOMAIN known : known[j].at <= page.began => j \in DOMAIN cands
  BY <1>1, <1>2
<1>4. SUFFICES ASSUME page.pc \in {"candidates", "job"},
                      NEW i \in DOMAIN known, known[i].at <= page.began,
                      Cardinality({j \in DOMAIN known : known[j].at \in known[i].at..page.began})
                         <= CandidateLimit
               PROVE  i \in page.listed
  BY <1>1
<1>5. i \in DOMAIN cands /\ known[i] = cands[i]  BY <1>3, <1>4
<1>6. {j \in DOMAIN known : known[j].at \in known[i].at..page.began}
         = {j \in DOMAIN cands : cands[j].at \in cands[i].at..page.began}
  <2>1. ASSUME NEW j \in DOMAIN known, known[j].at \in known[i].at..page.began
        PROVE  j \in DOMAIN cands /\ cands[j].at \in cands[i].at..page.began
    <3>1. known[j].at \in 1..MaxCommits /\ known[i].at \in 1..MaxCommits  BY CandidateFields
    <3>2. known[j].at <= page.began  BY <1>2, <2>1, <3>1, PageLimits
    <3>3. j \in DOMAIN cands /\ known[j] = cands[j]  BY <1>3, <3>2
    <3> QED  BY <1>5, <2>1, <3>3
  <2>2. \A j \in DOMAIN cands : cands[j].at \in cands[i].at..page.began =>
           j \in DOMAIN known /\ known[j].at \in known[i].at..page.began
    BY <1>5
  <2> QED  BY <2>1, <2>2
<1>7. cands[i].at <= page.began  BY <1>4, <1>5
<1>8. Cardinality({j \in DOMAIN cands : cands[j].at \in cands[i].at..page.began})
         <= CandidateLimit
  BY <1>4, <1>6
<1> QED  BY <1>4, <1>5, <1>7, <1>8 DEF MarketInv, PageIsSound

LEMMA CommitSurveyKeeps ==
    ASSUME MarketInv, CommitSurvey
    PROVE  MarketInv'
<1>1. /\ survey.pc \in {"down", "collected"} /\ survey.items = << >>
      /\ cands' = survey.cands /\ obs' = survey.obs /\ commits' = commits + 1
      /\ job' = [at |-> commits + 1, selected |-> survey.selected,
                 searches |-> survey.searches, answered |-> survey.answered]
      /\ survey' = NoSurvey /\ page' = page /\ months' = months
      /\ survey \in SurveyRecord /\ commits \in 0..MaxCommits /\ commits \in Nat
      /\ IsFiniteSet(survey.obs) /\ obs \subseteq Observation
  BY PageLimits DEF CommitSurvey, MarketInv, RecordsAreTyped
<1>2. /\ survey.cands \in Seq(Candidate) /\ survey.obs \subseteq Observation
      /\ survey.selected \in Seq(Texts) /\ survey.searches \in Counts
      /\ survey.answered \subseteq Titles
  BY <1>1 DEF SurveyRecord
<1>3. /\ commits < MaxCommits /\ Sound(survey.cands, survey.obs, commits + 1)
      /\ Len(cands) <= Len(survey.cands)
      /\ \A i \in DOMAIN cands : survey.cands[i] = cands[i]
      /\ \A i \in DOMAIN survey.cands \ DOMAIN cands : survey.cands[i].at = commits + 1
      /\ Reported(page.job, survey.obs) /\ page.job.at <= commits /\ page.began <= commits
      /\ page \in PageRecord /\ Sound(cands, obs, commits) /\ cands \in Seq(Candidate)
  BY <1>1 DEF MarketInv, SurveyIsSound, PageIsSound, TablesAreSound, RecordsAreTyped
<1>4. job' \in JobRecord /\ job'.at = commits + 1 /\ job'.answered = survey.answered
  <2>1. commits + 1 \in 0..MaxCommits  BY <1>1, <1>3, PageLimits
  <2> QED  BY <1>1, <1>2, <2>1 DEF JobRecord
<1>5. FoundAt(survey.obs, commits + 1) = survey.answered
  <2>1. NamesOf(<< >>) = {}  BY DEF NamesOf
  <2>2. CASE survey.pc = "collected"
    BY <1>1, <2>1, <2>2 DEF MarketInv, SurveyIsSound
  <2>3. CASE survey.pc = "down"
    <3>1. survey.obs = obs /\ survey.answered = {}
      BY <1>1, <2>1, <2>3 DEF MarketInv, SurveyIsSound
    <3>2. \A p \in obs : p.real => p.at <= commits  BY <1>3 DEF Sound
    <3>3. \A p \in obs : p.at \in Int  BY <1>1, ObservationFields
    <3>4. \A p \in obs : p.real => p.at # commits + 1  BY <1>1, <3>2, <3>3
    <3> QED  BY <3>1, <3>4 DEF FoundAt
  <2> QED  BY <1>1, <2>2, <2>3
<1>6. RecordsAreTyped'
  <2>1. IsFiniteSet({}) /\ commits + 1 \in 0..MaxCommits
    BY <1>1, <1>3, FS_EmptySet, PageLimits
  <2> QED  BY <1>1, <1>2, <1>4, <2>1, NoSurveyIsASurvey DEF MarketInv, RecordsAreTyped
<1>7. TablesAreSound'
  <2>1. Reported(job', obs')
    <3>1. SUFFICES ASSUME NEW k \in survey.answered
                   PROVE  \E o \in survey.obs : o.title = k /\ o.real /\ o.at >= commits + 1
      BY <1>1, <1>4 DEF Reported
    <3>2. PICK o \in survey.obs : o.title = k /\ o.real /\ o.at = commits + 1
      BY <1>5 DEF FoundAt
    <3> QED  BY <1>1, <3>2
  <2>2. commits + 1 <= commits + 1  BY <1>1
  <2> QED  BY <1>1, <1>3, <1>4, <1>5, <2>1, <2>2 DEF TablesAreSound
<1>8. SurveyIsSound'  BY <1>1, NoSurveyIsSound
<1>9. PageIsSound'
  <2>1. \A j \in DOMAIN cands : j \in DOMAIN survey.cands /\ survey.cands[j] = cands[j]
    <3>1. /\ DOMAIN cands = 1..Len(cands) /\ DOMAIN survey.cands = 1..Len(survey.cands)
          /\ Len(cands) \in Nat /\ Len(survey.cands) \in Nat
      BY <1>2, <1>3, LenProperties
    <3> QED  BY <1>3, <3>1
  <2> DEFINE known == survey.cands
  <2>2. /\ known \in Seq(Candidate)
        /\ \A j \in DOMAIN cands : j \in DOMAIN known /\ known[j] = cands[j]
        /\ \A j \in DOMAIN known \ DOMAIN cands : known[j].at = commits + 1
        /\ cands' = known
    BY <1>1, <1>2, <1>3, <2>1
  <2> HIDE DEF known
  <2>3. known \in Seq(Candidate)  BY <2>2
  <2>4. /\ page.listed \subseteq DOMAIN known
        /\ page.pc \in {"candidates", "job"} =>
              \A i \in DOMAIN known :
                  /\ known[i].at <= page.began
                  /\ Cardinality({j \in DOMAIN known : known[j].at \in known[i].at..page.began})
                        <= CandidateLimit
                  => i \in page.listed
    BY <2>2, <2>3, PageKeepsItsCandidates
  <2>5. page.began <= commits + 1 /\ page.job.at <= commits + 1
    <3>1. page.began \in 0..MaxCommits /\ page.job \in JobRecord  BY <1>3 DEF PageRecord
    <3>2. page.job.at \in 0..MaxCommits  BY <3>1 DEF JobRecord
    <3>3. page.began \in Int /\ page.job.at \in Int  BY <3>1, <3>2, PageLimits
    <3> QED  BY <1>1, <1>3, <3>3
  <2> QED  BY <1>1, <1>3, <2>2, <2>4, <2>5, NoSurveyIsASurvey DEF PageIsSound
<1>10. RowsAreRanked'  BY <1>1 DEF MarketInv, RowsAreRanked
<1> QED  BY <1>6, <1>7, <1>8, <1>9, <1>10 DEF MarketInv

LEMMA CommitDemoKeeps ==
    ASSUME MarketInv, CommitDemo
    PROVE  MarketInv'
<1> DEFINE observed(title, i) ==
        [source |-> "mock", title |-> title, month |-> 0, cand |-> i,
         at |-> MockTime, series |-> << >>, real |-> FALSE]
<1>1. /\ survey.pc = "none" /\ commits < MaxCommits /\ commits' = commits + 1
      /\ job' = [NoJob EXCEPT !.at = commits + 1]
      /\ UNCHANGED <<survey, page, months>>
  BY DEF CommitDemo
<1>2. PICK title \in MockTitles : \E i \in Linked(cands, title) :
          cands' = WithCandidate(cands, title) /\ obs' = WithObservation(obs, observed(title, i))
  BY DEF CommitDemo
<1>3. PICK i \in Linked(cands, title) :
          cands' = WithCandidate(cands, title) /\ obs' = WithObservation(obs, observed(title, i))
  BY <1>2
<1> DEFINE o == observed(title, i)
           next == WithCandidate(cands, title)
           after == WithObservation(obs, o)
<1>4. /\ o.title = title /\ o.cand = i /\ o.real = FALSE /\ o.at = MockTime
      /\ o = [source |-> "mock", title |-> title, month |-> 0, cand |-> i,
              at |-> MockTime, series |-> << >>, real |-> FALSE]
  OBVIOUS
<1>5. cands' = next /\ obs' = after  BY <1>3
<1>6. next = WithCandidate(cands, title) /\ after = WithObservation(obs, o)  OBVIOUS
<1> HIDE DEF o, next, after, observed
<1>7. /\ cands \in Seq(Candidate) /\ obs \subseteq Observation /\ IsFiniteSet(obs)
      /\ commits \in 0..MaxCommits /\ commits \in Nat /\ page \in PageRecord
  BY PageLimits DEF MarketInv, RecordsAreTyped
<1>8. title \in Titles /\ MockTime \in 1..MaxCommits  BY MockAssumption
<1>9. Sound(cands, obs, commits)  BY DEF MarketInv, TablesAreSound
<1>10. Sound(cands, obs, commits + 1)  BY <1>7, <1>9, SoundLater
<1>11. /\ next \in Seq(Candidate)
       /\ Len(cands) <= Len(next) /\ Len(next) <= Len(cands) + 1
       /\ \A j \in DOMAIN cands : j \in DOMAIN next /\ next[j] = cands[j]
       /\ i \in DOMAIN next
       /\ \/ next[i].title = title
          \/ next[i].title \in Titles /\ <<next[i].title, title>> \in Near
       /\ \A j \in DOMAIN next \ DOMAIN cands :
             /\ next[j].title = title /\ next[j].at = commits + 1 /\ j = Len(next)
             /\ \A k \in DOMAIN cands : cands[k].title # title
  <2>1. cands \in Seq(Candidate)  BY <1>7
  <2>2. commits \in 0..MaxCommits  BY <1>7
  <2>3. commits < MaxCommits  BY <1>1
  <2>4. title \in Titles  BY <1>8
  <2>5. next = WithCandidate(cands, title)  BY <1>6
  <2> QED  BY <1>3, <2>1, <2>2, <2>3, <2>4, <2>5, LinkedToACandidate
<1> DEFINE room == commits * MaxResults
<1>12. /\ room \in Nat /\ Len(cands) \in Nat /\ Len(next) \in Nat /\ Len(cands) <= room
       /\ (commits + 1) * MaxResults = room + MaxResults
       /\ DOMAIN next = 1..Len(next)
  <2>1. Len(cands) <= commits * MaxResults  BY <1>9 DEF Sound
  <2>2. commits \in Nat /\ MaxResults \in Nat  BY <1>7, PageLimits
  <2>3. room \in Nat /\ (commits + 1) * MaxResults = room + MaxResults  BY <2>2
  <2> QED  BY <1>7, <1>11, <2>1, <2>3, LenProperties
<1> HIDE DEF room
<1>13. Len(cands) + 1 <= (commits + 1) * MaxResults  BY <1>12, PageLimits
<1>14. commits + 1 \in 1..MaxCommits /\ commits + 1 \in Nat /\ commits + 1 <= MaxCommits
  BY <1>1, <1>7, PageLimits
<1>15. o \in Observation
  <2>1. Len(next) <= (commits + 1) * MaxResults  BY <1>11, <1>12, <1>13, PageLimits
  <2>2. Len(next) <= MaxCommits * (MaxResults + 1)  BY <1>12, <1>14, <2>1, IdsAreEnough
  <2>3. MaxCommits * (MaxResults + 1) \in Nat  BY PageLimits
  <2>4. i \in 1..(MaxCommits * (MaxResults + 1))  BY <1>11, <1>12, <2>2, <2>3
  <2>5. 0 \in 0..MaxMonths /\ << >> \in Seq(Point)  BY PageLimits
  <2> QED  BY <1>4, <1>8, <2>4, <2>5 DEF Observation
<1>16. after \subseteq Observation /\ IsFiniteSet(after) /\ Sound(next, after, commits + 1)
  <2>1. commits \in 0..MaxCommits  BY <1>7
  <2>2. cands \in Seq(Candidate)  BY <1>7
  <2>3. obs \subseteq Observation  BY <1>7
  <2>4. IsFiniteSet(obs)  BY <1>7
  <2>5. o.title = title /\ o.cand = i /\ (o.real => o.at = commits + 1)
        /\ (o.real \/ title \in MockTitles)
    BY <1>2, <1>4
  <2>6. next = WithCandidate(cands, title)  BY <1>6
  <2>7. after = WithObservation(obs, o)  BY <1>6
  <2>8. title \in Titles  BY <1>8
  <2>9. commits < MaxCommits  BY <1>1
  <2> QED  BY <1>3, <1>10, <1>13, <1>15, <2>1, <2>2, <2>3, <2>4, <2>5, <2>6, <2>7, <2>8, <2>9,
              LinkKeepsTheTables
<1>17. job' \in JobRecord /\ job'.at = commits + 1 /\ job'.answered = {}
  <2>1. NoJob \in JobRecord /\ commits + 1 \in 0..MaxCommits  BY <1>14, NoJobIsAJob
  <2>2. job' \in JobRecord  BY <1>1, <2>1 DEF JobRecord
  <2> QED  BY <1>1, <2>1, <2>2 DEF JobRecord, NoJob
<1>18. FoundAt(after, commits + 1) = {}
  <2>1. \A p \in obs : p.real => p.at <= commits  BY <1>9 DEF Sound
  <2>2. \A p \in obs : p.at \in Int  BY <1>7, ObservationFields
  <2>3. \A p \in obs : p.real => p.at # commits + 1  BY <1>7, <2>1, <2>2
  <2>4. \A p \in after : p = o \/ p \in obs  BY <1>6 DEF WithObservation
  <2>5. \A p \in after : ~(p.at = commits + 1 /\ p.real)  BY <1>4, <2>3, <2>4
  <2> QED  BY <2>5 DEF FoundAt
<1>19. RecordsAreTyped'
  <2>1. commits + 1 \in 0..MaxCommits  BY <1>14
  <2> QED  BY <1>1, <1>5, <1>11, <1>16, <1>17, <2>1 DEF MarketInv, RecordsAreTyped
<1>20. TablesAreSound'
  <2>1. Reported(job', after)  BY <1>17 DEF Reported
  <2>2. commits + 1 <= commits + 1  BY <1>7
  <2> QED  BY <1>1, <1>5, <1>16, <1>17, <1>18, <2>1, <2>2 DEF TablesAreSound
<1>21. SurveyIsSound'
  BY <1>1 DEF MarketInv, SurveyIsSound
<1>22. PageIsSound'
  <2>1. next \in Seq(Candidate)  BY <1>11
  <2>2. \A j \in DOMAIN cands : j \in DOMAIN next /\ next[j] = cands[j]  BY <1>11
  <2>3. \A j \in DOMAIN next \ DOMAIN cands : next[j].at = commits + 1  BY <1>11
  <2>4. /\ page.listed \subseteq DOMAIN next
        /\ page.pc \in {"candidates", "job"} =>
              \A c \in DOMAIN next :
                  /\ next[c].at <= page.began
                  /\ Cardinality({j \in DOMAIN next : next[j].at \in next[c].at..page.began})
                        <= CandidateLimit
                  => c \in page.listed
    BY <2>1, <2>2, <2>3, PageKeepsItsCandidates
  <2>5. page.began <= commits /\ page.job.at <= commits /\ Reported(page.job, obs)
    BY DEF MarketInv, PageIsSound
  <2>6. page.began \in Int /\ page.job.at \in Nat
    <3>1. page.began \in 0..MaxCommits /\ page.job \in JobRecord  BY <1>7 DEF PageRecord
    <3>2. page.job.at \in 0..MaxCommits  BY <3>1 DEF JobRecord
    <3> QED  BY <3>1, <3>2, PageLimits
  <2>7. page.began <= commits + 1 /\ page.job.at <= commits + 1  BY <1>7, <2>5, <2>6
  <2>8. Reported(page.job, after)
    <3>1. \A p \in obs : p.real \/ p.title \in MockTitles  BY <1>9 DEF Sound
    <3>2. /\ commits + 1 \in Nat /\ (o.real => o.at = commits + 1)
          /\ (o.real \/ o.title \in MockTitles)
      BY <1>2, <1>4, <1>14
    <3>3. obs \subseteq Observation  BY <1>7
    <3>4. after = WithObservation(obs, o)  BY <1>6
    <3> DEFINE report == page.job
    <3>5. report.at \in Nat /\ report.at <= commits + 1 /\ Reported(report, obs)
      BY <2>5, <2>6, <2>7
    <3> HIDE DEF report
    <3>6. Reported(report, after)
      BY <1>15, <3>1, <3>2, <3>3, <3>4, <3>5, LinkKeepsReports
    <3> QED  BY <3>6 DEF report
  <2> QED  BY <1>1, <1>5, <2>4, <2>5, <2>7, <2>8 DEF PageIsSound
<1>23. RowsAreRanked'  BY <1>1 DEF MarketInv, RowsAreRanked
<1> QED  BY <1>19, <1>20, <1>21, <1>22, <1>23 DEF MarketInv

-----------------------------------------------------------------------------
(* The rows of the page.                                                   *)
LEMMA MonthIsAMonth ==
    ASSUME months \in Nat
    PROVE  Month \in 1..12
<1>1. \A x \in Nat : (x % 12) + 1 \in 1..12  OBVIOUS
<1> QED  BY <1>1 DEF Month

LEMMA SearchesAreCounted ==
    ASSUME page \in PageRecord, NEW name
    PROVE  Searches(name) \in Nat
<1>1. page.job \in JobRecord  BY DEF PageRecord
<1>2. page.job.searches \in Counts  BY <1>1 DEF JobRecord
<1>3. PICK S \in SUBSET Texts : page.job.searches \in [S -> Nat]  BY <1>2 DEF Counts
<1> QED  BY <1>3 DEF Searches

LEMMA RowIsARow ==
    ASSUME NEW c \in DOMAIN cands, cands \in Seq(Candidate), page \in PageRecord,
           NEW o \in Observation
    PROVE  RowOf(c, o) \in OverviewRow
<1> DEFINE title == cands[c].title
           name == Canonical[title]
           series == o.series
           n == Len(series)
           ratio == IF n = 0 THEN 0 ELSE series[n].ratio
           count == Searches(name)
<1>1. title \in Titles  BY CandidateFields
<1>2. name \in DOMAIN Order  BY <1>1, NamesAssumption
<1>3. series \in Seq(Point) /\ o.at \in 1..MaxCommits  BY ObservationFields
<1>4. ratio \in Nat
  <2> HIDE DEF series
  <2>1. n \in Nat  BY <1>3, LenProperties
  <2>2. CASE n # 0
    <3>1. series[n] \in Point  BY <1>3, <2>1, <2>2, ElementOfSeq
    <3>2. series[n].ratio \in Nat  BY <3>1 DEF Point
    <3> QED  BY <2>2, <3>2
  <2> QED  BY <2>2
<1>5. count \in Nat  BY SearchesAreCounted
<1>6. RowOf(c, o) = [name |-> name, title |-> title, at |-> o.at, series |-> series,
                     searches |-> count, latest |-> ratio]
  BY DEF RowOf
<1> HIDE DEF title, name, series, n, ratio, count
<1> QED  BY <1>1, <1>2, <1>3, <1>4, <1>5, <1>6 DEF OverviewRow

LEMMA ScoredAreRanked ==
    ASSUME NEW rows, IsFiniteSet(rows), rows \subseteq OverviewRow, months \in Nat
    PROVE  /\ IsFiniteSet(Scored(rows)) /\ Scored(rows) \subseteq RankedRow
           /\ \A s \in Scored(rows) : s.score = MarketScore(s.level, s.analysis)
           /\ \A row \in rows : \E s \in Scored(rows) : s.row = row
<1> DEFINE scored(row) ==
        [row |-> row, level |-> Level(row, rows), analysis |-> Analysis(row.series, Month),
         score |-> MarketScore(Level(row, rows), Analysis(row.series, Month))]
           f == [row \in rows |-> scored(row)]
<1>1. \A row \in rows : row.searches \in Nat /\ row.latest \in Nat /\ row.series \in Seq(Point)
  <2>1. SUFFICES ASSUME NEW row \in rows
                 PROVE  row.searches \in Nat /\ row.latest \in Nat /\ row.series \in Seq(Point)
    OBVIOUS
  <2>2. row \in OverviewRow  OBVIOUS
  <2> QED  BY <2>2 DEF OverviewRow
<1>2. ASSUME NEW row \in rows
      PROVE  scored(row) \in RankedRow
  <2> DEFINE l == Level(row, rows)
             a == Analysis(row.series, Month)
             m == MarketScore(l, a)
  <2>1. \A r \in rows : r.searches \in Nat /\ r.latest \in Nat  BY <1>1
  <2>2. l \in 0..100  BY <2>1, LevelIsAPercent
  <2>3. a \in Analyses  BY <1>1, MonthIsAMonth, AnalysisIsAnAnalysis
  <2>4. scored(row) = [row |-> row, level |-> l, analysis |-> a, score |-> m]  OBVIOUS
  <2> HIDE DEF l, a
  <2>5. m \in 0..1000  BY <2>2, <2>3, MarketScoreIsAScore
  <2> HIDE DEF m, scored
  <2> QED  BY <2>2, <2>3, <2>4, <2>5 DEF RankedRow
<1>3. \A row \in rows :
         /\ scored(row).score = MarketScore(scored(row).level, scored(row).analysis)
         /\ scored(row).row = row
  OBVIOUS
<1>4. Scored(rows) = {scored(row) : row \in rows}  BY DEF Scored
<1>5. DOMAIN f = rows /\ Scored(rows) = {f[row] : row \in rows}  BY <1>4
<1> HIDE DEF scored, f
<1>6. IsFiniteSet(Scored(rows))  BY <1>5, ImageIsFinite
<1> QED  BY <1>2, <1>3, <1>4, <1>6

LEMMA OverviewIsComplete ==
    ASSUME MarketInv,
           NEW observations \in Newest(ObservationLimit, [o \in obs |-> o.at]),
           NEW latest \in LatestOf(observations),
           NEW ranked \in Sorted(Scored(RowsOf(latest)), Ahead)
    PROVE  /\ ranked \in Seq(RankedRow)
           /\ \A i \in DOMAIN ranked :
                 ranked[i].score = MarketScore(ranked[i].level, ranked[i].analysis)
           /\ \A i, j \in DOMAIN ranked : i < j => ranked[i].score >= ranked[j].score
           /\ \A c \in Shown(latest) :
                 \E i \in DOMAIN ranked : ranked[i].row = RowOf(c, latest[c])
<1> DEFINE shown == Shown(latest)
           rows == RowsOf(latest)
<1>1. /\ cands \in Seq(Candidate) /\ obs \subseteq Observation /\ page \in PageRecord
      /\ months \in Nat /\ page.listed \subseteq DOMAIN cands
  BY PageLimits DEF MarketInv, RecordsAreTyped, PageIsSound
<1>2. observations \subseteq obs  BY DEF Newest, kSubset
<1>3. \A c \in shown : c \in DOMAIN cands /\ latest[c] \in Observation
  BY <1>1, <1>2 DEF LatestOf, Shown
<1>4. IsFiniteSet(shown)
  <2>1. DOMAIN cands = 1..Len(cands) /\ Len(cands) \in Int  BY <1>1, LenProperties
  <2>3. IsFiniteSet(1..Len(cands))  BY <2>1, FS_Interval
  <2>2. shown \subseteq DOMAIN cands  BY <1>3
  <2> QED  BY <2>1, <2>2, <2>3, FS_Subset
<1> DEFINE f == [c \in shown |-> RowOf(c, latest[c])]
<1>5. DOMAIN f = shown /\ rows = {f[c] : c \in shown}  BY DEF RowsOf
<1>6. \A c \in shown : f[c] = RowOf(c, latest[c])  OBVIOUS
<1> HIDE DEF f, shown, rows
<1>7. IsFiniteSet(rows)
  <2>1. DOMAIN f = shown  BY <1>5
  <2>2. IsFiniteSet({f[c] : c \in shown})  BY <1>4, <2>1, ImageIsFinite
  <2> QED  BY <1>5, <2>2
<1>8. rows \subseteq OverviewRow
  <2>1. ASSUME NEW c \in shown PROVE f[c] \in OverviewRow
    <3>1. c \in DOMAIN cands /\ latest[c] \in Observation  BY <1>3
    <3>2. cands \in Seq(Candidate)  BY <1>1
    <3>3. page \in PageRecord  BY <1>1
    <3>4. RowOf(c, latest[c]) \in OverviewRow  BY <3>1, <3>2, <3>3, RowIsARow
    <3> QED  BY <1>6, <3>4
  <2> QED  BY <1>5, <2>1
<1> DEFINE S == Scored(rows)
<1>9. /\ IsFiniteSet(S) /\ S \subseteq RankedRow
      /\ \A s \in S : s.score = MarketScore(s.level, s.analysis)
      /\ \A row \in rows : \E s \in S : s.row = row
  BY <1>1, <1>7, <1>8, ScoredAreRanked
<1>10. ranked \in Sorted(S, Ahead)  BY DEF rows
<1> HIDE DEF S
<1>11. /\ ranked \in [1..Cardinality(S) -> S] /\ IsInjective(ranked)
       /\ \A i, j \in DOMAIN ranked : i < j => Ahead(ranked[i], ranked[j])
  BY <1>10 DEF Sorted
<1>12. /\ ranked \in Seq(S) /\ DOMAIN ranked = 1..Len(ranked)
       /\ \A x \in S : \E i \in DOMAIN ranked : ranked[i] = x
  <2>1. IsFiniteSet(S)  BY <1>9
  <2>2. ranked \in [1..Cardinality(S) -> S]  BY <1>11
  <2>3. IsInjective(ranked)  BY <1>11
  <2> QED  BY <2>1, <2>2, <2>3, ArrangedIsComplete
<1>13. \A i \in DOMAIN ranked : ranked[i] \in S /\ ranked[i] \in RankedRow  BY <1>9, <1>11
<1>14. ranked \in Seq(RankedRow)
  <2> DEFINE n == Len(ranked)
  <2>1. n \in Nat /\ DOMAIN ranked = 1..n /\ ranked = [i \in 1..n |-> ranked[i]]
        /\ \A i \in 1..n : ranked[i] \in RankedRow
    BY <1>12, <1>13, LenProperties
  <2> HIDE DEF n
  <2>2. ranked \in [1..n -> RankedRow]  BY <2>1
  <2> QED  BY <2>1, <2>2
<1>15. \A i, j \in DOMAIN ranked : i < j => ranked[i].score >= ranked[j].score
  <2>1. SUFFICES ASSUME NEW i \in DOMAIN ranked, NEW j \in DOMAIN ranked, i < j
                 PROVE  ranked[i].score >= ranked[j].score
    OBVIOUS
  <2>2. Ahead(ranked[i], ranked[j])  BY <1>11, <2>1
  <2>3. ranked[i].score \in Int /\ ranked[j].score \in Int
    <3>1. ranked[i] \in RankedRow /\ ranked[j] \in RankedRow  BY <1>13
    <3> QED  BY <3>1 DEF RankedRow
  <2>4. ranked[i].score > ranked[j].score \/ ranked[i].score = ranked[j].score
    BY <2>2, Zenon DEF Ahead
  <2> QED  BY <2>3, <2>4
<1>16. ASSUME NEW c \in shown
       PROVE  \E i \in DOMAIN ranked : ranked[i].row = RowOf(c, latest[c])
  <2>1. f[c] \in rows  BY <1>5
  <2>2. PICK s \in S : s.row = f[c]  BY <1>9, <2>1
  <2> QED  BY <1>6, <1>12, <2>2
<1>17. \A i \in DOMAIN ranked : ranked[i].score = MarketScore(ranked[i].level, ranked[i].analysis)
  BY <1>9, <1>13
<1> QED  BY <1>14, <1>15, <1>16, <1>17 DEF shown

LEMMA ReadObservationsKeeps ==
    ASSUME MarketInv, ReadObservations
    PROVE  MarketInv'
<1>1. page.pc = "job" /\ UNCHANGED <<cands, obs, job, survey, commits, months>>
      /\ page \in PageRecord
  BY DEF ReadObservations, MarketInv, RecordsAreTyped
<1>2. PICK observations \in Newest(ObservationLimit, [o \in obs |-> o.at]) :
      \E latest \in LatestOf(observations) :
      \E ranked \in Sorted(Scored(RowsOf(latest)), Ahead) :
         page' = [page EXCEPT !.pc = "done", !.rows = ranked]
  BY DEF ReadObservations
<1>3. PICK latest \in LatestOf(observations) :
      \E ranked \in Sorted(Scored(RowsOf(latest)), Ahead) :
         page' = [page EXCEPT !.pc = "done", !.rows = ranked]
  BY <1>2
<1>4. PICK ranked \in Sorted(Scored(RowsOf(latest)), Ahead) :
         page' = [page EXCEPT !.pc = "done", !.rows = ranked]
  BY <1>3
<1>5. /\ ranked \in Seq(RankedRow)
      /\ \A i \in DOMAIN ranked :
            ranked[i].score = MarketScore(ranked[i].level, ranked[i].analysis)
      /\ \A i, j \in DOMAIN ranked : i < j => ranked[i].score >= ranked[j].score
      /\ \A c \in Shown(latest) :
            \E i \in DOMAIN ranked : ranked[i].row = RowOf(c, latest[c])
  BY OverviewIsComplete
<1>6. /\ page' \in PageRecord /\ page'.pc = "done" /\ page'.rows = ranked
      /\ page'.job = page.job /\ page'.listed = page.listed /\ page'.began = page.began
  <2>1. page' \in PageRecord  BY <1>1, <1>4, <1>5 DEF PageRecord
  <2> QED  BY <1>1, <1>4, <2>1 DEF PageRecord
<1>7. RecordsAreTyped'  BY <1>1, <1>6 DEF MarketInv, RecordsAreTyped
<1>8. TablesAreSound'  BY <1>1 DEF MarketInv, TablesAreSound
<1>9. SurveyIsSound'  BY <1>1 DEF MarketInv, SurveyIsSound
<1>10. PageIsSound'  BY <1>1, <1>6 DEF MarketInv, PageIsSound
<1>11. RowsAreRanked'  BY <1>5, <1>6 DEF RowsAreRanked
<1> QED  BY <1>7, <1>8, <1>9, <1>10, <1>11 DEF MarketInv

LEMMA MarketSteps ==
    ASSUME MarketInv, [SurveyNext]_surveyVars
    PROVE  MarketInv'
<1>1. CASE SurveyTyped  BY <1>1, SurveyTypedKeeps
<1>2. CASE SurveySuggested  BY <1>2, SurveySuggestedKeeps
<1>3. CASE AskBatch  BY <1>3, AskBatchKeeps
<1>4. CASE BatchFails  BY <1>4, BatchFailsKeeps
<1>5. CASE IngestItem  BY <1>5, IngestItemKeeps
<1>6. CASE CommitSurvey  BY <1>6, CommitSurveyKeeps
<1>7. CASE AbortSurvey  BY <1>7, AbortSurveyKeeps
<1>8. CASE CommitDemo  BY <1>8, CommitDemoKeeps
<1>9. CASE NextMonth  BY <1>9, NextMonthKeeps
<1>10. CASE ReadCandidates  BY <1>10, ReadCandidatesKeeps
<1>11. CASE ReadJob  BY <1>11, ReadJobKeeps
<1>12. CASE ReadObservations  BY <1>12, ReadObservationsKeeps
<1>13. CASE UNCHANGED surveyVars
  <2> USE <1>13 DEF surveyVars
  <2>1. RecordsAreTyped'  BY DEF MarketInv, RecordsAreTyped
  <2>2. TablesAreSound'  BY DEF MarketInv, TablesAreSound
  <2>3. SurveyIsSound'  BY DEF MarketInv, SurveyIsSound
  <2>4. PageIsSound'  BY DEF MarketInv, PageIsSound
  <2>5. RowsAreRanked'  BY DEF MarketInv, RowsAreRanked
  <2> QED  BY <2>1, <2>2, <2>3, <2>4, <2>5 DEF MarketInv
<1> QED
  BY <1>1, <1>2, <1>3, <1>4, <1>5, <1>6, <1>7, <1>8, <1>9, <1>10, <1>11, <1>12, <1>13
  DEF SurveyNext

(* The invariant, and with it all that is proved here of surveys and pages, *)
(* holds in every state: of any requests, offers, answers and limits.      *)
THEOREM MarketInvariance == Surveying => []MarketInv
<1>1. MarketInv /\ [SurveyNext]_surveyVars => MarketInv'  BY MarketSteps
<1> QED  BY NothingSurveyedIsSound, <1>1, PTL DEF Surveying

(* Every state is of the types of its tables and forms: an observation is  *)
(* of a candidate that is there, once a source, title and month, and a     *)
(* survey keeps no more answers than it may (schemas.py, models.py).       *)
THEOREM SurveyTypes == Surveying => []SurveyTypeOK
<1>1. MarketInv => SurveyTypeOK
  <2>1. SUFFICES ASSUME MarketInv PROVE SurveyTypeOK  OBVIOUS
  <2>2. cands \in Seq(Candidate) /\ obs \subseteq Observation
        /\ commits \in 0..MaxCommits /\ months \in 0..MaxMonths
    BY <2>1 DEF MarketInv, RecordsAreTyped
  <2>3. /\ \A o, p \in obs :
              <<o.source, o.title, o.month>> = <<p.source, p.title, p.month>> => o = p
        /\ \A o \in obs : o.cand \in DOMAIN cands
    BY <2>1 DEF MarketInv, TablesAreSound, Sound
  <2>4. job.at \in 0..commits /\ job.selected \in Seq(Texts) /\ job.answered \subseteq Titles
    <3>1. job \in JobRecord /\ job.at <= commits
      BY <2>1 DEF MarketInv, RecordsAreTyped, TablesAreSound
    <3>2. job.at \in 0..MaxCommits /\ job.selected \in Seq(Texts) /\ job.answered \in SUBSET Titles
      BY <3>1 DEF JobRecord
    <3> QED  BY <2>2, <3>1, <3>2, PageLimits
  <2>5. /\ survey.pc \in {"none", "asking", "down", "collected"}
        /\ survey.queue \in Seq(Titles) /\ Len(survey.items) <= MaxResults
    <3>1. survey \in SurveyRecord /\ Len(survey.items) <= MaxResults
      BY <2>1 DEF MarketInv, RecordsAreTyped, SurveyIsSound
    <3> QED  BY <3>1 DEF SurveyRecord
  <2>6. page.pc \in {"none", "candidates", "job", "done"} /\ page.listed \subseteq DOMAIN cands
    <3>1. page \in PageRecord /\ page.listed \subseteq DOMAIN cands
      BY <2>1 DEF MarketInv, RecordsAreTyped, PageIsSound
    <3> QED  BY <3>1 DEF PageRecord
  <2> QED  BY <2>2, <2>3, <2>4, <2>5, <2>6 DEF SurveyTypeOK
<1> QED  BY MarketInvariance, <1>1, PTL

LEMMA RankedFields ==
    ASSUME NEW r \in RankedRow
    PROVE  /\ r.level \in 0..100 /\ r.analysis \in Analyses /\ r.score \in 0..1000
           /\ r.row.series \in Seq(Point)
<1>1. /\ r.level \in 0..100 /\ r.analysis \in Analyses /\ r.score \in 0..1000
      /\ r.row \in OverviewRow
  BY DEF RankedRow
<1>2. r.row.series \in Seq(Point)  BY <1>1 DEF OverviewRow
<1> QED  BY <1>1, <1>2

(* The page's scores are of 0..1000, never count against a keyword what is *)
(* better about it, and the timing they are made of says of a year that is *)
(* turned by some months what it says of the year as it is                 *)
(* (admin_overview, _trend_analysis).                                      *)
THEOREM OverviewRanks == Surveying => []OverviewIsRanked
<1>1. MarketInv => OverviewIsRanked
  <2>1. SUFFICES ASSUME MarketInv PROVE OverviewIsRanked  OBVIOUS
  <2>2. page \in PageRecord /\ months \in Nat /\ RowsAreRanked
    BY <2>1, PageLimits DEF MarketInv, RecordsAreTyped
  <2>3. page.rows \in Seq(RankedRow)  BY <2>2 DEF PageRecord
  <2>4. \A i \in DOMAIN page.rows : page.rows[i] \in RankedRow
    BY <2>3, LenProperties, ElementOfSeq
  <2>5. ASSUME NEW i \in DOMAIN page.rows, NEW j \in DOMAIN page.rows,
               NoWorse(page.rows[j], page.rows[i]), i < j
        PROVE  page.rows[i].score = page.rows[j].score
    <3> DEFINE low == page.rows[i].level
               high == page.rows[j].level
               a == page.rows[j].analysis
               b == page.rows[i].analysis
               s == page.rows[i].score
               t == page.rows[j].score
    <3>1. low \in 0..100 /\ high \in 0..100 /\ a \in Analyses /\ b \in Analyses
          /\ s \in 0..1000 /\ t \in 0..1000
      <4>1. page.rows[i] \in RankedRow /\ page.rows[j] \in RankedRow  BY <2>4
      <4>2. low \in 0..100 /\ b \in Analyses /\ s \in 0..1000  BY <4>1, RankedFields
      <4>3. high \in 0..100 /\ a \in Analyses /\ t \in 0..1000  BY <4>1, RankedFields
      <4> QED  BY <4>2, <4>3
    <3>2. high >= low /\ AnalysisNoWorse(a, b)  BY <2>5 DEF NoWorse
    <3>3. s = MarketScore(low, b) /\ t = MarketScore(high, a) /\ s >= t
      BY <2>2, <2>5 DEF RowsAreRanked
    <3> HIDE DEF low, high, a, b, s, t
    <3>4. low <= high  BY <3>1, <3>2
    <3>5. MarketScore(low, b) <= MarketScore(high, a)
      BY <3>1, <3>2, <3>4, MarketScoreIsMonotone
    <3>6. s = t  BY <3>1, <3>3, <3>5
    <3> QED  BY <3>6 DEF s, t
  <2>6. ASSUME NEW i \in DOMAIN page.rows, NEW by \in 1..11
        PROVE  EntryTiming(Turned(page.rows[i].row.series, by), MonthTurned(Month, by))
                   = EntryTiming(page.rows[i].row.series, Month)
    <3> DEFINE series == page.rows[i].row.series
               now == Month
    <3>1. series \in Seq(Point)  BY <2>4, RankedFields
    <3>2. now \in 1..12  BY <2>2, MonthIsAMonth
    <3>3. by \in 0..11  OBVIOUS
    <3> HIDE DEF series, now
    <3>4. EntryTiming(Turned(series, by), MonthTurned(now, by)) = EntryTiming(series, now)
      BY <3>1, <3>2, <3>3, TimingIgnoresTheCalendar
    <3> QED  BY <3>4 DEF series, now
  <2>7. \A i \in DOMAIN page.rows : page.rows[i].score \in 0..1000  BY <2>4, RankedFields
  <2> QED  BY <2>5, <2>6, <2>7 DEF OverviewIsRanked
<1> QED  BY MarketInvariance, <1>1, PTL

(* A survey takes the most searched keywords it may take, and what it      *)
(* leaves is what the source answered for all of them, or nothing          *)
(* (run_admin_discovery and the two Naver sources).                       *)
THEOREM SurveysAreNeverInPart == Surveying => SurveysAreWhole
<1> DEFINE Takes == \A item \in survey.offer : item.keyword \notin Range(survey.selected) =>
                       \A other \in survey.offer : other.keyword \in Range(survey.selected) =>
                           item.searches <= other.searches
           Leaves == {o.title : o \in {o \in obs : o.at = job.at /\ o.real}} = job.answered
           Ends == survey.pc # "none" /\ job' # job /\ job'.answered # {} => survey.queue = << >>
<1>1. MarketInv => Takes
  BY DEF MarketInv, SurveyIsSound, MostSearched
<1>2. MarketInv => Leaves
  BY DEF MarketInv, TablesAreSound, FoundAt
<1>3. MarketInv /\ [SurveyNext]_surveyVars => Ends
  <2>1. SUFFICES ASSUME MarketInv, [SurveyNext]_surveyVars, survey.pc # "none",
                        job' # job, job'.answered # {}
                 PROVE  survey.queue = << >>
    OBVIOUS
  <2>2. CommitSurvey
    BY <2>1 DEF SurveyNext, surveyVars, SurveyTyped, SurveySuggested, Begin, AskBatch, BatchFails,
                IngestItem, AbortSurvey, CommitDemo, NextMonth, ReadCandidates, ReadJob,
                ReadObservations
  <2>3. /\ survey.pc \in {"down", "collected"} /\ survey.items = << >>
        /\ job'.answered = survey.answered
    BY <2>2 DEF CommitSurvey
  <2>4. NamesOf(<< >>) = {}  BY DEF NamesOf
  <2>5. survey.pc # "down"  BY <2>1, <2>3, <2>4 DEF MarketInv, SurveyIsSound
  <2> QED  BY <2>1, <2>3, <2>5 DEF MarketInv, SurveyIsSound
<1>4. MarketInv /\ [SurveyNext]_surveyVars => [Ends]_surveyVars  BY <1>3
<1> HIDE DEF Takes, Leaves, Ends
<1>5. Surveying => []Takes /\ []Leaves /\ [][Ends]_surveyVars
  BY MarketInvariance, <1>1, <1>2, <1>4, PTL DEF Surveying
<1> QED  BY <1>5, PTL DEF SurveysAreWhole, Takes, Leaves, Ends

(* A plain keyword of the page's job that was answered and that no limit   *)
(* cuts off has, by the observations the last SELECT keeps, a candidate    *)
(* that is shown, with data of that survey's time or later.                *)
LEMMA WhatIsFoundIsShown ==
    ASSUME MarketInv, page.pc = "job",
           NEW observations \in Newest(ObservationLimit, [o \in obs |-> o.at]),
           NEW latest \in LatestOf(observations),
           NEW k \in page.job.answered \cap Range(page.job.selected), Plain(k), Listable(k),
           Cardinality({o \in obs : o.at >= page.job.at}) <= ObservationLimit
    PROVE  \E c \in Shown(latest) :
              /\ cands[c].title = k /\ latest[c].at >= page.job.at
              /\ RowOf(c, latest[c]).title = k /\ RowOf(c, latest[c]).at = latest[c].at
              /\ RowOf(c, latest[c]).searches = Searches(k)
<1>1. /\ cands \in Seq(Candidate) /\ obs \subseteq Observation /\ IsFiniteSet(obs)
      /\ page \in PageRecord /\ page.listed \subseteq DOMAIN cands
      /\ Sound(cands, obs, commits) /\ Reported(page.job, obs)
  BY DEF MarketInv, RecordsAreTyped, TablesAreSound, PageIsSound
<1>2. page.job.at \in Nat
  <2>1. page.job \in JobRecord  BY <1>1 DEF PageRecord
  <2>2. page.job.at \in 0..MaxCommits  BY <2>1 DEF JobRecord
  <2> QED  BY <2>2, PageLimits
<1>3. PICK o \in obs : o.title = k /\ o.real /\ o.at >= page.job.at
  BY <1>1 DEF Reported
<1> DEFINE c == o.cand
<1>4. c \in DOMAIN cands /\ cands[c].title = k
  BY <1>1, <1>3 DEF Sound, TitleOf
<1>5. \A p \in obs : p.at \in Nat
  <2>1. SUFFICES ASSUME NEW p \in obs PROVE p.at \in Nat  OBVIOUS
  <2>2. p.at \in 1..MaxCommits  BY <1>1, ObservationFields
  <2> QED  BY <2>2
<1>6. o \in observations
  <2> DEFINE at == [p \in obs |-> p.at]
             later == {p \in obs : p.at >= o.at}
             since == {p \in obs : p.at >= page.job.at}
  <2>1. later \subseteq since
    <3>1. \A p \in obs : p.at >= o.at => p.at >= page.job.at  BY <1>2, <1>3, <1>5
    <3> QED  BY <3>1
  <2>2. since \subseteq obs  OBVIOUS
  <2>3. later = {y \in DOMAIN at : at[y] >= at[o]}  OBVIOUS
  <2>4. Cardinality(since) <= ObservationLimit  OBVIOUS
  <2>5. IsFiniteSet(DOMAIN at) /\ (\A y \in DOMAIN at : at[y] \in Nat) /\ o \in DOMAIN at
    BY <1>1, <1>5
  <2>6. observations \in Newest(ObservationLimit, at)  OBVIOUS
  <2> HIDE DEF at, later, since
  <2>7. IsFiniteSet(since)  BY <1>1, <2>2, FS_Subset
  <2>8. Cardinality(later) <= Cardinality(since) /\ IsFiniteSet(later)
    BY <2>1, <2>7, FS_Subset
  <2>9. Cardinality(later) \in Nat /\ Cardinality(since) \in Nat /\ ObservationLimit \in Nat
    BY <2>7, <2>8, FS_CardinalityType, PageLimits
  <2>10. Cardinality({y \in DOMAIN at : at[y] >= at[o]}) <= ObservationLimit
    BY <2>3, <2>4, <2>8, <2>9
  <2> QED  BY <2>5, <2>6, <2>9, <2>10, NewestKeepTheNewest
<1>7. observations \subseteq obs  BY DEF Newest, kSubset
<1>8. /\ c \in DOMAIN latest /\ latest[c] \in obs
      /\ latest[c].cand = c /\ o.at <= latest[c].at
  <2>1. DOMAIN latest = {p.cand : p \in observations} /\ \A d \in DOMAIN latest :
            /\ latest[d] \in observations /\ latest[d].cand = d
            /\ \A p \in observations : p.cand = d => p.at <= latest[d].at
    BY DEF LatestOf
  <2>2. c \in DOMAIN latest  BY <1>6, <2>1
  <2> QED  BY <1>6, <1>7, <2>1, <2>2
<1> HIDE DEF c
<1>9. latest[c].at >= page.job.at  BY <1>2, <1>3, <1>5, <1>8
<1>10. latest[c].real
  <2>1. TitleOf(cands, latest[c]) = k  BY <1>4, <1>8 DEF TitleOf
  <2>2. latest[c].title = k  BY <1>1, <1>8, <2>1 DEF Sound
  <2>3. k \notin MockTitles  BY DEF Plain
  <2> QED  BY <1>1, <1>8, <2>2, <2>3 DEF Sound
<1>11. Canonical[k] = k  BY DEF Plain
<1>12. c \in page.listed
  <2>1. /\ cands[c].at <= page.began
        /\ Cardinality({j \in DOMAIN cands : cands[j].at \in cands[c].at..page.began})
              <= CandidateLimit
    BY <1>4 DEF Listable
  <2> QED  BY <1>4, <2>1 DEF MarketInv, PageIsSound
<1>13. c \in Shown(latest)
  BY <1>4, <1>8, <1>10, <1>11, <1>12 DEF Shown, Wanted
<1>14. /\ RowOf(c, latest[c]).title = cands[c].title /\ RowOf(c, latest[c]).at = latest[c].at
       /\ RowOf(c, latest[c]).searches = Searches(Canonical[cands[c].title])
  BY DEF RowOf
<1> QED  BY <1>4, <1>9, <1>11, <1>13, <1>14

(* What a survey found out reaches the page that has read its job,         *)
(* whatever is committed between the page's SELECTs, and whichever rows of *)
(* one time its limits keep: the keyword's row has the data of that survey *)
(* or of a later one and the searches of that job.                         *)
THEOREM SurveyReachesThePage == Surveying => SurveyReachesTheOverview
<1> DEFINE Reaches ==
        page.pc = "job" /\ page'.pc = "done" =>
          \A k \in page.job.answered \cap Range(page.job.selected) :
              Plain(k) /\ Listable(k)
              /\ Cardinality({o \in obs : o.at >= page.job.at}) <= ObservationLimit
              => \E place \in DOMAIN page'.rows :
                    LET row == page'.rows[place].row
                    IN row.title = k /\ row.at >= page.job.at /\ row.searches = Searches(k)
<1>1. MarketInv /\ [SurveyNext]_surveyVars => Reaches
  <2>1. SUFFICES ASSUME MarketInv, [SurveyNext]_surveyVars, page.pc = "job", page'.pc = "done",
                        NEW k \in page.job.answered \cap Range(page.job.selected),
                        Plain(k), Listable(k),
                        Cardinality({o \in obs : o.at >= page.job.at}) <= ObservationLimit
                 PROVE  \E place \in DOMAIN page'.rows :
                           /\ page'.rows[place].row.title = k
                           /\ page'.rows[place].row.at >= page.job.at
                           /\ page'.rows[place].row.searches = Searches(k)
    OBVIOUS
  <2>2. page \in PageRecord  BY <2>1 DEF MarketInv, RecordsAreTyped
  <2>3. ReadObservations
    <3>1. page' # page  BY <2>1
    <3>2. CASE ReadCandidates
      <4>1. PICK listed : page' = [NoPage EXCEPT !.pc = "candidates", !.began = commits,
                                                 !.listed = listed]
        BY <3>2 DEF ReadCandidates
      <4>2. page'.pc = "candidates"  BY <4>1, NoPageIsAPage DEF PageRecord
      <4> QED  BY <2>1, <4>2
    <3>3. CASE ReadJob  BY <2>1, <3>3 DEF ReadJob
    <3> QED
      BY <2>1, <3>1, <3>2, <3>3 DEF SurveyNext, surveyVars, SurveyTyped, SurveySuggested, Begin,
         AskBatch, BatchFails, IngestItem, CommitSurvey, AbortSurvey, CommitDemo, NextMonth
  <2>4. PICK observations \in Newest(ObservationLimit, [o \in obs |-> o.at]) :
        \E latest \in LatestOf(observations) :
        \E ranked \in Sorted(Scored(RowsOf(latest)), Ahead) :
           page' = [page EXCEPT !.pc = "done", !.rows = ranked]
    BY <2>3 DEF ReadObservations
  <2>5. PICK latest \in LatestOf(observations) :
        \E ranked \in Sorted(Scored(RowsOf(latest)), Ahead) :
           page' = [page EXCEPT !.pc = "done", !.rows = ranked]
    BY <2>4
  <2>6. PICK ranked \in Sorted(Scored(RowsOf(latest)), Ahead) :
           page' = [page EXCEPT !.pc = "done", !.rows = ranked]
    BY <2>5
  <2>7. page'.rows = ranked  BY <2>2, <2>6 DEF PageRecord
  <2>8. PICK c \in Shown(latest) :
           /\ cands[c].title = k /\ latest[c].at >= page.job.at
           /\ RowOf(c, latest[c]).title = k /\ RowOf(c, latest[c]).at = latest[c].at
           /\ RowOf(c, latest[c]).searches = Searches(k)
    BY <2>1, WhatIsFoundIsShown
  <2>9. PICK i \in DOMAIN ranked : ranked[i].row = RowOf(c, latest[c])
    BY <2>1, OverviewIsComplete
  <2> QED  BY <2>7, <2>8, <2>9
<1>2. MarketInv /\ [SurveyNext]_surveyVars => [Reaches]_surveyVars  BY <1>1
<1> HIDE DEF Reaches
<1>3. Surveying => [][Reaches]_surveyVars
  BY MarketInvariance, <1>2, PTL DEF Surveying
<1> QED  BY <1>3, PTL DEF SurveyReachesTheOverview, Reaches
=============================================================================
