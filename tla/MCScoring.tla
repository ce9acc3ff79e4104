------------------------------ MODULE MCScoring ------------------------------
(***************************************************************************)
(* Bounds for TLC.  A candidate that is appraised and discovery runs that  *)
(* rank share nothing but the operators of Scoring, so that one of them    *)
(* stays where it starts while the other moves.                            *)
(*                                                                         *)
(* Appraisal: thirds as features, so that averages need rounding; the      *)
(* margin points of assets/scoring/default/v1.json, the first two of them  *)
(* half a thousandth higher, where the two roundings differ; a price that  *)
(* divides none of the costs and costs in halves of a quantum, which take  *)
(* the margin rate below, between and beyond the points; candidates that   *)
(* start at the bottom, in the middle and near the top.                    *)
(*                                                                         *)
(* Ranking: four candidates, two with the same name, one of them without a *)
(* supplier and one of another category, so that each rejection, both      *)
(* limits and ties of score and of name happen.  The weights are those of  *)
(* the default configuration and of the growth preset; the second version  *)
(* asks for confidence and not for a supplier.  Two runs make every case   *)
(* of an earlier row.                                                      *)
(***************************************************************************)
EXTENDS Ranking, Appraisal

DefaultWeights ==
    [trend |-> 20, demand |-> 15, competition |-> 15, margin |-> 15, supply |-> 10,
     shop_fit |-> 20, confidence |-> 5]
GrowthWeights ==
    [trend |-> 25, demand |-> 20, competition |-> 10, margin |-> 10, supply |-> 10,
     shop_fit |-> 20, confidence |-> 5]

-----------------------------------------------------------------------------
Point(rate, halves) == [rate |-> 2 * rate, score |-> halves]
MCPoints == <<Point(50, 1), Point(100, 50001), Point(200, 120000), Point(300, 170000),
              Point(400, 200000)>>

MCLimits == [minimumMargin |-> 50, minimumConfidence |-> 30000, requireSupplier |-> TRUE,
             restricted |-> {}, maximumPremium |-> 30]

MCAmounts == {0, 1, 58, 115, 121, 250}

CostsOf(unit, shipping) ==
    [name \in CostNames |->
        CASE name = "supplier_unit_cost" -> unit
          [] name = "per_unit_shipping" -> shipping
          [] OTHER -> [known |-> FALSE]]
Known(amount) == [known |-> TRUE, amount |-> amount]

Level(n, costs) ==
    [trend |-> [i \in 1..5 |-> n], demand |-> 4 * n, competition |-> 4 * n, supply |-> 6 * n,
     fit |-> 6 * n, penalty |-> Steps - n, confidence |-> 6 * n,
     suppliers |-> IF n = 0 THEN 0 ELSE 1, deducted |-> 9, costs |-> costs]

Lowest == Level(0, CostsOf(Known(250), [known |-> FALSE]))
MCStarts == {Lowest, Level(1, CostsOf(Known(115), Known(58))),
             Level(Steps - 1, CostsOf(Known(58), Known(58)))}

-----------------------------------------------------------------------------
MCName == <<1, 2, 2, 3>>

Surging == [growth |-> 20, sources |-> 2]
Booming == [growth |-> 60, sources |-> 1]
Garbled == [growth |-> Unreadable, sources |-> 1]
MCEvidence == <<{Surging, Booming}, {Surging, Booming}, {Surging, Garbled}, {Surging, Booming}>>

HardRejects(confidence, supplier) ==
    [minimumMargin |-> 5, minimumConfidence |-> confidence, requireSupplier |-> supplier,
     restricted |-> {}, maximumPremium |-> 30]

MCConfig == [v1 |-> [weights |-> DefaultWeights, hardReject |-> HardRejects(30000, TRUE)],
             v2 |-> [weights |-> GrowthWeights, hardReject |-> HardRejects(70000, FALSE)]]

-----------------------------------------------------------------------------
ScoringInit == Init /\ Presented /\ (features = Lowest \/ last.version = "v1")

ScoringNext ==
    \/ features = Lowest /\ gains + learned = 0 /\ Next /\ UNCHANGED candidate
    \/ runs = 0 /\ last.version = "v1" /\ Progress /\ UNCHANGED vars

ScoringSpec == ScoringInit /\ [][ScoringNext]_<<vars, candidate>>
=============================================================================
