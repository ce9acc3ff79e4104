------------------------------- MODULE Scoring -------------------------------
(***************************************************************************)
(* domain/scoring: how features become component scores, the component     *)
(* scores a final score, and which candidates are rejected whatever they   *)
(* score. A score of 0..100 with three decimals is a number of             *)
(* thousandths; decimals are exact up to the rounding the code asks for.   *)
(* (A quotient of decimals is exact here where the code keeps 28 digits:   *)
(* what is rounded afterwards can differ only if the exact value is half a *)
(* thousandth.)                                                            *)
(***************************************************************************)
EXTENDS Integers, Sequences, FiniteSets

Hundred == 100000

Components == {"trend", "demand", "competition", "margin", "supply", "shop_fit", "confidence"}
Scores == [Components -> 0..Hundred]

(* quantize(..., ROUND_HALF_UP) of n / d, for n >= 0 and d > 0.            *)
HalfUp(n, d) == (2 * n + d) \div (2 * d)

(* quantize without a rounding: the context's, ROUND_HALF_EVEN.            *)
HalfEven(n, d) ==
    LET down == n \div d
        rest == 2 * (n % d)
    IN IF rest < d \/ (rest = d /\ down % 2 = 0) THEN down ELSE down + 1

Clamp(n, low, high) == IF n < low THEN low ELSE IF n > high THEN high ELSE n

-----------------------------------------------------------------------------
(* ScoreWeights and OpportunityScoreCalculator.                            *)
Total(f) ==
    f["trend"] + f["demand"] + f["competition"] + f["margin"] + f["supply"] + f["shop_fit"]
        + f["confidence"]

(* Weights sum to one: they are numbers of parts of their sum, so that any *)
(* decimals the configuration accepts are such numbers.                    *)
ScoreWeights == {w \in [Components -> Nat] : Total(w) > 0}

FinalScore(scores, weights) ==
    HalfUp(Total([c \in Components |-> scores[c] * weights[c]]), Total(weights))

-----------------------------------------------------------------------------
(* The normalizers: a feature of 0..1 is n / d.                            *)
Score(n, d) == HalfUp(Clamp(n * Hundred, 0, d * Hundred), d)

(* Each of m features out of d; their sum is n.                            *)
Average(n, m, d) == Score(n, m * d)

NormalizeTrend(growth7d, growth30d, acceleration, diversity, recency, d) ==
    Score(35 * growth7d + 25 * growth30d + 15 * acceleration + 15 * diversity + 10 * recency,
          100 * d)

NormalizeDemand(n, d) == Average(n, 4, d)
NormalizeCompetition(n, d) == Average(n, 4, d)
NormalizeSupply(n, d) == Average(n, 6, d)
NormalizeConfidence(n, d) == Average(n, 6, d)

NormalizeShopFit(n, penalty, d) ==
    Clamp(Average(n, 6, d) - Score(penalty, d), 0, Hundred)

(* ScoringConfig.margin_points_are_valid and normalize_margin.  Points may *)
(* be configured with any decimals: a point's score is a number of parts,  *)
(* grain of them to a thousandth, and rates are numbers of a unit of which *)
(* all of them are multiples.                                              *)
MarginPoint(grain) == [rate : Int, score : 0..(grain * Hundred)]
ValidPoints(points, grain) ==
    /\ points \in Seq(MarginPoint(grain)) /\ Len(points) >= 2
    /\ \A i, j \in DOMAIN points : i < j =>
          points[i].rate < points[j].rate /\ points[i].score <= points[j].score

(* Mutant: the share of the right score, not of the difference.            *)
BetweenOfRight(rate, left, right, grain) ==
    HalfUp(left.score * (right.rate - left.rate) + (rate - left.rate) * right.score,
           grain * (right.rate - left.rate))
Between(rate, left, right, grain) ==
    HalfUp(left.score * (right.rate - left.rate) + (rate - left.rate) * (right.score - left.score),
           grain * (right.rate - left.rate))

(* The first and the last point round their halves to even, the pieces     *)
(* between them round theirs up.                                           *)
NormalizeMargin(rate, points, grain) ==
    IF rate <= points[1].rate THEN HalfEven(points[1].score, grain)
    ELSE IF rate >= points[Len(points)].rate THEN HalfEven(points[Len(points)].score, grain)
    ELSE LET i == CHOOSE i \in 1..(Len(points) - 1) :
                     /\ points[i].rate <= rate /\ rate <= points[i + 1].rate
                     /\ \A j \in 1..(i - 1) : ~(points[j].rate <= rate /\ rate <= points[j + 1].rate)
         IN Between(rate, points[i], points[i + 1], grain)

-----------------------------------------------------------------------------
(* calculate_landed_cost and calculate_pricing_economics.  Costs are whole *)
(* numbers of parts of MONEY_QUANTUM, prices whole quanta; a rate is a     *)
(* whole number of 1 / quanta.  An unknown cost adds nothing.              *)
CostNames == {"supplier_unit_cost", "per_unit_shipping", "per_unit_duty",
              "per_unit_import_tax", "payment_fee", "inbound_handling"}
CostValue == [known : {TRUE}, amount : Nat] \cup [known : {FALSE}]

(* Mutant: an unknown cost is taken for a whole quantum.                   *)
CountedAnyway(cost) == IF cost.known THEN cost.amount ELSE 10
Counted(cost) == IF cost.known THEN cost.amount ELSE 0

LandedCost(costs, parts) ==
    HalfUp(Counted(costs["supplier_unit_cost"]) + Counted(costs["per_unit_shipping"])
             + Counted(costs["per_unit_duty"]) + Counted(costs["per_unit_import_tax"])
             + Counted(costs["payment_fee"]) + Counted(costs["inbound_handling"]), parts)

(* ROUND_HALF_UP takes halves away from zero, below zero too.              *)
HalfAway(n, d) == IF n < 0 THEN -HalfUp(-n, d) ELSE HalfUp(n, d)

MarginRate(price, landed, deducted, quanta) ==
    HalfAway((price - landed - deducted) * quanta, price)

-----------------------------------------------------------------------------
(* evaluate_hard_reject: prices in whole units, the reference price 0 when *)
(* there is none.                                                          *)
Holds(reason, value, config) ==
    CASE reason = "MARGIN_BELOW_MINIMUM" -> value.margin < config.minimumMargin
      [] reason = "CONFIDENCE_BELOW_MINIMUM" -> value.confidence < config.minimumConfidence
      [] reason = "SUPPLIER_REQUIRED" -> config.requireSupplier /\ value.suppliers = 0
      [] reason = "RESTRICTED_CATEGORY" -> value.category \in config.restricted
      [] reason = "PRICE_PREMIUM_UNREALISTIC" ->
             value.reference > 0 /\ value.price * 100 > value.reference * (100 + config.maximumPremium)

Reasons == {"MARGIN_BELOW_MINIMUM", "CONFIDENCE_BELOW_MINIMUM", "SUPPLIER_REQUIRED",
            "RESTRICTED_CATEGORY", "PRICE_PREMIUM_UNREALISTIC"}

HardReject(value, config) == {reason \in Reasons : Holds(reason, value, config)}
=============================================================================
