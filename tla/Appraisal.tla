------------------------------ MODULE Appraisal ------------------------------
(***************************************************************************)
(* The scoring functions over the features of one candidate that gets      *)
(* better, one feature at a time.  A feature of 0..1 is a multiple of      *)
(* 1 / Steps; where a normalizer averages its features only their sum      *)
(* matters, and the sum is kept.  Its margin is that of its landed cost;   *)
(* costs fall, and costs nobody knew become known.  What the normalizers   *)
(* return is what the calculator and the hard reject are given; the hard   *)
(* reject's count of suppliers is a feature of its own, as no code derives *)
(* it from the supply features or them from it.                            *)
(*                                                                         *)
(* Scoring_proofs extends this module and Ranking, so that the names of    *)
(* its specification are its own.                                          *)
(***************************************************************************)
EXTENDS Scoring

CONSTANTS
    Steps,      \* a feature's precision
    Grain,      \* the precision of margin_score_points: parts of a thousandth and of 1 / Quanta
    Points,     \* margin_score_points
    Weights,    \* weights
    Limits,     \* hard_reject
    Parts,      \* of MONEY_QUANTUM, the precision of a cost
    Quanta,     \* the precision of a margin rate
    Amounts,    \* what a cost may come to, in parts
    Price,      \* the selling price
    Starts,     \* the features a candidate may start with
    MaxGains    \* bound: the improvements in a row

ASSUME StepsAssumption == Steps \in Nat \ {0}
ASSUME PointsAssumption == Grain \in Nat \ {0} /\ ValidPoints(Points, Grain)
ASSUME WeightsAssumption == Weights \in ScoreWeights
ASSUME PricingAssumption == {Parts, Quanta, Price} \subseteq Nat \ {0} /\ Amounts \subseteq Nat
ASSUME RejectAssumption == {Limits.minimumMargin, Limits.minimumConfidence} \subseteq Int

VARIABLES
    features,   \* of the candidate
    gains,      \* how often one got better
    learned     \* how many unknown costs became known

candidate == <<features, gains, learned>>

Features ==
    [trend : [1..5 -> 0..Steps], demand : 0..(4 * Steps), competition : 0..(4 * Steps),
     supply : 0..(6 * Steps), fit : 0..(6 * Steps), penalty : 0..Steps,
     confidence : 0..(6 * Steps), suppliers : 0..1, deducted : 0..Price,
     costs : [CostNames -> {cost \in CostValue : cost.known => cost.amount \in Amounts}]]

ASSUME StartsAssumption == Starts \subseteq Features

(* The features of which more is better, each a number.                    *)
Levels == {"demand", "competition", "supply", "fit", "confidence", "suppliers"}

Presented == features \in Starts /\ gains = 0 /\ learned = 0

Gain == gains + learned < MaxGains /\ gains' = gains + 1 /\ UNCHANGED learned

ImproveTrend ==
    Gain /\ \E i \in 1..5 : features' = [features EXCEPT !.trend[i] = @ + 1]
ImproveLevel == Gain /\ \E s \in Levels : features' = [features EXCEPT ![s] = @ + 1]
EasePenalty == Gain /\ features' = [features EXCEPT !.penalty = @ - 1]
EaseDeduction == Gain /\ features' = [features EXCEPT !.deducted = @ - 1]
LowerCost ==
    Gain /\ \E name \in CostNames, amount \in Amounts :
               /\ features.costs[name].known /\ amount < features.costs[name].amount
               /\ features' = [features EXCEPT !.costs[name].amount = amount]

Improve ==
    /\ ImproveTrend \/ ImproveLevel \/ EasePenalty \/ EaseDeduction \/ LowerCost
    /\ features' \in Features

LearnCost ==
    /\ gains + learned < MaxGains /\ learned' = learned + 1 /\ UNCHANGED gains
    /\ \E name \in CostNames, amount \in Amounts :
          /\ ~features.costs[name].known
          /\ features' = [features EXCEPT !.costs[name] = [known |-> TRUE, amount |-> amount]]

Progress == Improve \/ LearnCost \/ UNCHANGED candidate

Appraising == Presented /\ [][Progress]_candidate

-----------------------------------------------------------------------------
Rate(f) == MarginRate(Price, LandedCost(f.costs, Parts), f.deducted, Quanta)

ScoresOf(f) ==
    [trend |-> NormalizeTrend(f.trend[1], f.trend[2], f.trend[3], f.trend[4], f.trend[5], Steps),
     demand |-> NormalizeDemand(f.demand, Steps),
     competition |-> NormalizeCompetition(f.competition, Steps),
     margin |-> NormalizeMargin(Rate(f) * Grain, Points, Grain),
     supply |-> NormalizeSupply(f.supply, Steps),
     shop_fit |-> NormalizeShopFit(f.fit, f.penalty, Steps),
     confidence |-> NormalizeConfidence(f.confidence, Steps)]

RejectionsOf(f) ==
    HardReject([category |-> "any", margin |-> Rate(f), confidence |-> ScoresOf(f).confidence,
                suppliers |-> f.suppliers, price |-> 1, reference |-> 0], Limits)

(* What rounding takes from the last margin point, and not from the piece  *)
(* that leads to it: a thousandth, if its score is half a thousandth above *)
(* an even one; nothing, if it is a whole number of thousandths.           *)
LossAtTheTop(points, grain) ==
    LET top == points[Len(points)].score IN HalfUp(top, grain) - HalfEven(top, grain)

(* A candidate that gets better in one feature, a little or across several *)
(* margin points, loses in no component and not in its final score, save a *)
(* thousandth where the margin curve itself falls by one, and meets no new *)
(* reason to be rejected; and one of which more is known gains nothing by  *)
(* it, since what is unknown counts as nothing.                            *)
NoBetter(f, g) ==
    LET loss == LossAtTheTop(Points, Grain)
    IN /\ \A c \in Components \ {"margin"} : ScoresOf(f)[c] <= ScoresOf(g)[c]
       /\ ScoresOf(f).margin <= ScoresOf(g).margin + loss
       /\ FinalScore(ScoresOf(f), Weights) <= FinalScore(ScoresOf(g), Weights) + loss
       /\ RejectionsOf(g) \subseteq RejectionsOf(f)

BetterIsNeverWorse ==
    [][/\ gains' > gains => NoBetter(features, features')
       /\ learned' > learned => NoBetter(features', features)]_candidate
=============================================================================
