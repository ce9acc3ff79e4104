------------------------------ MODULE MarketView ------------------------------
(***************************************************************************)
(* What the admin page makes of a keyword's series: _trend_analysis and    *)
(* the market score of admin_overview.  A series is a sequence of points,  *)
(* one per month with data, oldest first; a ratio is a whole number.       *)
(* Shares, changes and the volatility are in percent (the code keeps two   *)
(* more digits), a score in tenths.                                        *)
(***************************************************************************)
EXTENDS Scoring, FiniteSetsExt, Functions

Point == [month : 1..12, ratio : Nat]

Ratios(series) == [i \in DOMAIN series |-> series[i].ratio]

AtLeastOne(n) == IF n < 1 THEN 1 ELSE n

-----------------------------------------------------------------------------
(* The metrics of a series that is not empty.                              *)

(* change_from: the change since a value so many before the last, or since *)
(* the first where there are fewer.                                        *)
ChangeFrom(values, back) ==
    LET base == values[AtLeastOne(Len(values) - back)]
    IN HalfAway(100 * (values[Len(values)] - base), AtLeastOne(base))

(* pstdev / max(average, 1), rounded down: n * sum of squares - sum^2 is   *)
(* n^2 times the variance.                                                 *)
Squares(values) == [i \in DOMAIN values |-> values[i] * values[i]]
Volatility(values) ==
    LET n == Len(values)
        sum == SumFunction(values)
        spread == n * SumFunction(Squares(values)) - sum * sum
        scale == IF sum < n THEN n ELSE sum
    IN CHOOSE v \in 0..(100 * n) :
          /\ (v * scale) * (v * scale) <= 10000 * spread
          /\ 10000 * spread < ((v + 1) * scale) * ((v + 1) * scale)

Rises(values) == Cardinality({i \in 1..(Len(values) - 1) : values[i] < values[i + 1]})
PositiveShare(values) == HalfUp(100 * Rises(values), AtLeastOne(Len(values) - 1))

(* seasonality_index against its two thresholds.                           *)
Highest(values) == Max({values[i] : i \in DOMAIN values})
Lowest(values) == Min({values[i] : i \in DOMAIN values})

SeasonalityAtLeast(values, percent) ==
    LET n == Len(values)
        sum == SumFunction(values)
    IN 100 * (Highest(values) - Lowest(values)) * n >= percent * (IF sum < n THEN n ELSE sum)

PeakMonths(series) ==
    {series[i].month : i \in {j \in DOMAIN series :
        100 * series[j].ratio >= 85 * Highest(Ratios(series))}}

(* Mutant: the distance to a peak of the year that has passed.             *)
MonthsUntilPast(months, now) == Min({IF m >= now THEN m - now ELSE now - m : m \in months})
MonthsUntil(months, now) == Min({(m - now) % 12 : m \in months})

EntryTiming(series, now) ==
    LET until == MonthsUntil(PeakMonths(series), now)
    IN IF Len(series) < 10 THEN "withheld"
       ELSE IF until = 0 THEN "in season"
       ELSE IF until <= 3 THEN "prepare"
       ELSE IF SeasonalityAtLeast(Ratios(series), 40) THEN "observe"
       ELSE "any time"

(* _trend_analysis, as far as the overview reads it; of an empty series    *)
(* there is none, and the overview falls back to these values.             *)
Analysis(series, now) ==
    IF series = << >>
    THEN [quarter |-> 0, period |-> 0, consistency |-> 0, volatility |-> 0, timing |-> "none"]
    ELSE LET values == Ratios(series)
         IN [quarter |-> ChangeFrom(values, 3), period |-> ChangeFrom(values, Len(values) - 1),
             consistency |-> PositiveShare(values), volatility |-> Volatility(values),
             timing |-> EntryTiming(series, now)]

-----------------------------------------------------------------------------
(* The score of admin_overview.                                            *)
Timings == {"prepare", "any time", "in season", "observe", "withheld", "none"}
Analyses == [quarter : Int, period : Int, consistency : 0..100, volatility : Nat,
             timing : Timings]

TimingScore(timing) ==
    IF timing = "prepare" THEN 100
    ELSE IF timing = "any time" THEN 80
    ELSE IF timing = "in season" THEN 45
    ELSE 30

(* A rate of growth counts from minus to plus fifty percent.               *)
Growth(percent) == Clamp(50 + percent, 0, 100)

(* Mutant: the volatility is added, not taken off.                         *)
TrendScoreOfUnrest(level, a) ==
    HalfUp(35 * level + 25 * Growth(a.quarter) + 15 * Growth(a.period)
             + 15 * a.consistency + 10 * Clamp(a.volatility, 0, 100), 10)
TrendScore(level, a) ==
    HalfUp(35 * level + 25 * Growth(a.quarter) + 15 * Growth(a.period)
             + 15 * a.consistency + 10 * Clamp(100 - a.volatility, 0, 100), 10)

MarketScore(level, a) == HalfUp(9 * TrendScore(level, a) + 10 * TimingScore(a.timing), 10)

(* The share of the largest search volume, or of the largest latest ratio  *)
(* where no row has searches.                                              *)
Level(row, rows) ==
    LET searches == Max({r.searches : r \in rows})
        latest == Max({r.latest : r \in rows})
    IN IF searches > 0 THEN HalfUp(100 * row.searches, searches)
       ELSE HalfUp(100 * row.latest, AtLeastOne(latest))

-----------------------------------------------------------------------------
(* What the properties compare: two analyses, and a calendar turned by     *)
(* some months.                                                            *)
AnalysisNoWorse(a, b) ==
    /\ TimingScore(a.timing) >= TimingScore(b.timing)
    /\ a.quarter >= b.quarter /\ a.period >= b.period
    /\ a.consistency >= b.consistency /\ a.volatility <= b.volatility

MonthTurned(month, by) == ((month + by - 1) % 12) + 1
Turned(series, by) ==
    [i \in DOMAIN series |-> [month |-> MonthTurned(series[i].month, by), ratio |-> series[i].ratio]]
=============================================================================
