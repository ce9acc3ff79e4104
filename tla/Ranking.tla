------------------------------- MODULE Ranking -------------------------------
(***************************************************************************)
(* The ranking half of a discovery run: enrich the candidates, reject,     *)
(* score, rank, and upsert the scores and the recommendations of the best. *)
(* One run after another, with decisions between them: a run is one        *)
(* transaction, and what concurrent ones do to each other is the matter of *)
(* Approvals.                                                              *)
(*                                                                         *)
(* Growth is a candidate's mean growth_7d in percent, Unreadable when a    *)
(* source sent something that is not a number.  A row keeps the score its  *)
(* summary text shows.                                                     *)
(***************************************************************************)
EXTENDS Scoring, Functions, FiniteSetsExt

CONSTANTS
    Candidates,      \* product_candidates rows
    Name,            \* their canonical names, as numbers in the names' order
    Home,            \* the candidates of a category that starts with "home"
    Supplied,        \* the candidates whose brand has a supplier
    Versions,        \* scoring versions
    Config,          \* the scoring configuration of each version
    Evidence,        \* what the observations of each candidate can amount to
    Unreadable,      \* growth that does not parse
    TopN,            \* top_n
    MaxCandidates,   \* max_candidates
    MaxRuns,         \* bound: the discovery runs of a history
    NoRow            \* no row in a table

ASSUME CandidatesAssumption == IsFiniteSet(Candidates)
ASSUME NameAssumption == Name \in [Candidates -> Nat]
ASSUME ConfigAssumption ==
    /\ Versions # {}
    /\ \A v \in Versions :
          /\ Config[v].weights \in ScoreWeights
          /\ Config[v].hardReject.minimumConfidence \in 0..Hundred
ASSUME LimitsAssumption == {TopN, MaxCandidates, MaxRuns} \subseteq Nat \ {0}
ASSUME EvidenceAssumption ==
    \A c \in Candidates : \A e \in Evidence[c] :
        (e.growth = Unreadable \/ e.growth \in Int) /\ e.sources \in {1, 2}

VARIABLES
    scores,   \* opportunity_scores.final_score by candidate and version
    recs,     \* recommendations by the candidate and version of their score
    last,     \* the last run: its version, what it found and what it returned
    runs      \* how many there have been

vars == <<scores, recs, last, runs>>

(* What a run may find: some candidates, with what their observations say. *)
Found ==
    {found \in UNION {[S -> UNION Range(Evidence)] : S \in SUBSET Candidates} :
        \A c \in DOMAIN found : found[c] \in Evidence[c]}
Row == [rank : 1..TopN, shown : 0..Hundred, status : {"pending", "decided"}]
ASSUME NoRowAssumption == NoRow \notin Row

TypeOK ==
    /\ scores \in [Candidates -> [Versions -> {NoRow} \cup 0..Hundred]]
    /\ recs \in [Candidates -> [Versions -> {NoRow} \cup Row]]
    /\ runs \in 0..MaxRuns
    /\ last.version \in Versions
    /\ last.found \in Found
    /\ IsInjective(last.output) /\ Range(last.output) \subseteq last.scored
    /\ last.scored \subseteq DOMAIN last.found

Init ==
    /\ scores = [c \in Candidates |-> [v \in Versions |-> NoRow]]
    /\ recs = [c \in Candidates |-> [v \in Versions |-> NoRow]]
    /\ \E v \in Versions :
          last = [version |-> v, found |-> << >>, scored |-> {}, output |-> << >>]
    /\ runs = 0

-----------------------------------------------------------------------------
(* _enrich_candidate                                                       *)
Bounded(n) == Clamp(n, 0, Hundred)

FeaturesOf(c, e) ==
    [trend |-> Bounded(2000 * e.growth),
     demand |-> Bounded(45000 + 1000 * e.growth),
     competition |-> Bounded(75000 - 300 * e.growth),
     margin |-> 75000,
     supply |-> IF c \in Supplied THEN 80000 ELSE 0,
     shop_fit |-> IF c \in Home THEN 82000 ELSE 60000,
     confidence |-> IF e.sources >= 2 THEN 90000 ELSE 60000]

RejectInput(c, e) ==
    [category |-> IF c \in Home THEN "home" ELSE "other",
     margin |-> 25,
     confidence |-> FeaturesOf(c, e).confidence,
     suppliers |-> IF c \in Supplied THEN 1 ELSE 0,
     price |-> 25000, reference |-> 25000]

Accepted(c, e, v) ==
    e.growth # Unreadable /\ HardReject(RejectInput(c, e), Config[v].hardReject) = {}

-----------------------------------------------------------------------------
(* ORDER BY canonical_name LIMIT max_candidates: equal names in any order. *)
Considered(found) ==
    {S \in kSubset(IF Cardinality(found) < MaxCandidates THEN Cardinality(found)
                   ELSE MaxCandidates, found) :
        \A c \in S, d \in found \ S : Name[c] <= Name[d]}

(* The sort key is (-final_score, candidate_name); the sort is stable and  *)
(* leaves equal keys as the SELECT returned them.                          *)
Before(c, d, score) == score[c] > score[d] \/ (score[c] = score[d] /\ Name[c] <= Name[d])

(* Mutant: the rows in the order of their names.                           *)
RankedByName(score) ==
    {s \in [1..Cardinality(DOMAIN score) -> DOMAIN score] :
        IsInjective(s) /\ \A i, j \in DOMAIN s : i < j => Name[s[i]] <= Name[s[j]]}
Ranked(score) ==
    {s \in [1..Cardinality(DOMAIN score) -> DOMAIN score] :
        IsInjective(s) /\ \A i, j \in DOMAIN s : i < j => Before(s[i], s[j], score)}

(* Mutant: all of them.                                                    *)
BestAll(s) == s
Best(s) == SubSeq(s, 1, IF Len(s) < TopN THEN Len(s) ELSE TopN)

-----------------------------------------------------------------------------
(* Mutant: the candidate alone is the key of the conflict.                 *)
UpsertScoresOfAll(score, v) ==
    scores' = [c \in Candidates |->
        IF c \in DOMAIN score
        THEN [w \in Versions |->
                 IF w = v \/ scores[c][w] # NoRow THEN score[c] ELSE NoRow]
        ELSE scores[c]]
(* _persist_scores: on conflict (candidate, version) update.               *)
UpsertScores(score, v) ==
    scores' = [c \in Candidates |->
        IF c \in DOMAIN score THEN [scores[c] EXCEPT ![v] = score[c]] ELSE scores[c]]

(* Mutant: a conflict updates the status only.                             *)
UpsertStatuses(top, v) ==
    recs' = [c \in Candidates |->
        IF c \in Range(top)
        THEN [recs[c] EXCEPT ![v] =
                 IF @ = NoRow THEN [rank |-> CHOOSE i \in DOMAIN top : top[i] = c,
                                    shown |-> scores'[c][v], status |-> "pending"]
                 ELSE [@ EXCEPT !.status = "pending"]]
        ELSE recs[c]]
(* _persist_recommendations: on conflict (score) update rank, summary and  *)
(* status; what is not among the best stays as it is.                      *)
UpsertRecommendations(top, v) ==
    recs' = [c \in Candidates |->
        IF c \in Range(top)
        THEN [recs[c] EXCEPT ![v] =
                 [rank |-> CHOOSE i \in DOMAIN top : top[i] = c,
                  shown |-> scores'[c][v], status |-> "pending"]]
        ELSE recs[c]]

Run(v, found) ==
    /\ runs < MaxRuns
    /\ runs' = runs + 1
    /\ \E kept \in Considered(DOMAIN found) :
          LET scored == {c \in kept : Accepted(c, found[c], v)}
              score == [c \in scored |-> FinalScore(FeaturesOf(c, found[c]), Config[v].weights)]
          IN \E order \in Ranked(score) :
                /\ UpsertScores(score, v)
                /\ UpsertRecommendations(Best(order), v)
                /\ last' = [version |-> v, found |-> found, scored |-> scored,
                            output |-> Best(order)]

(* ApprovalService.decide                                                  *)
Decide(c, v) ==
    /\ recs[c][v] # NoRow /\ recs[c][v].status = "pending"
    /\ recs' = [recs EXCEPT ![c][v].status = "decided"]
    /\ UNCHANGED <<scores, last, runs>>

Quiet == runs = MaxRuns /\ UNCHANGED vars

Next ==
    \/ \E v \in Versions, found \in Found : Run(v, found)
    \/ \E c \in Candidates, v \in Versions : Decide(c, v)
    \/ Quiet

Spec == Init /\ [][Next]_vars
-----------------------------------------------------------------------------
(* A run recommends the best: no candidate it scored and left out has a    *)
(* higher score than one it recommended, nor an equal one and an earlier   *)
(* name; it leaves none out while there is room; and nothing a hard reject *)
(* excludes is among them.                                                 *)
BestAreRecommended ==
    LET v == last.version
        best == Range(last.output)
    IN /\ \A c \in last.scored \ best, d \in best :
             /\ scores[c][v] <= scores[d][v]
             /\ scores[c][v] = scores[d][v] => Name[d] <= Name[c]
       /\ Len(last.output) = Min({TopN, Cardinality(last.scored)})
       /\ \A c \in best :
             /\ c \in Supplied \/ ~Config[v].hardReject.requireSupplier
             /\ last.found[c].sources = 2 \/ Config[v].hardReject.minimumConfidence <= 60000

(* The recommendations an operator sees agree with what the last run       *)
(* returned, also where they were ranked before: its ranks, and in the     *)
(* summary the score that stands in the score's row.                       *)
RowsMatchTheOutput ==
    \A i \in DOMAIN last.output :
        LET row == recs[last.output[i]][last.version]
        IN row # NoRow /\ row.rank = i /\ row.shown = scores[last.output[i]][last.version]

(* A new scoring version does not overwrite the scores of the past.        *)
PastScoresStay ==
    [][\A c \in Candidates, v \in Versions :
          scores'[c][v] # scores[c][v] \/ (recs'[c][v] # recs[c][v] /\ runs' # runs)
              => last'.version = v]_vars
=============================================================================
