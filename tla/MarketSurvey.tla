----------------------------- MODULE MarketSurvey -----------------------------
(***************************************************************************)
(* The admin page's own use of discovery: run_admin_discovery takes the    *)
(* keywords typed, or the most searched ones of the Search Ad tool, asks   *)
(* Shopping Insight about them in batches, and leaves in the job what it   *)
(* chose; admin_overview reads candidates, the latest job and observations *)
(* in SELECTs of their own and ranks the keywords it finds.                *)
(*                                                                         *)
(* Surveys come one at a time (the jobs row of their key is locked from    *)
(* the restart on; DiscoveryJob), and what overlapping ingestions do to    *)
(* each other is in TrendIngestion; here a survey or a demo run commits    *)
(* between any two SELECTs of the page.  Times are numbers of commits.     *)
(***************************************************************************)
EXTENDS MarketView

CONSTANTS
    Texts,            \* keywords as they are typed or suggested
    Stripped,         \* a text without the blanks around it, "" for nothing
    Canonical,        \* the canonical_name a title is given
    Near,             \* <<a title that has a candidate, a title taken for it>>
    Order,            \* the order of texts and names
    Containing,       \* the texts an exclude term is part of
    BlankTerms,       \* the exclude terms of blanks only
    Requests,         \* AdminDiscoveryRequest
    Offers,           \* what the Search Ad tool may suggest
    Shapes,           \* the ratios a keyword's months may have
    MockTitles,       \* the feed of the demo discovery
    MockTime,         \* the one time of its observations
    BatchSize, MaxResults, TopKeywords, AdLimit,
    CandidateLimit, ObservationLimit,   \* of the overview's SELECTs
    MaxCommits, MaxMonths               \* bounds: surveys and demo runs, months

Titles == {Stripped[text] : text \in Texts} \ {""}

Categories == {request.category : request \in Requests}
Ad == [keyword : Texts, searches : Nat, intent : BOOLEAN]
AdminDiscoveryRequest ==
    [mode : {"direct", "auto"}, category : Categories, keywords : Seq(Texts),
     exclude : SUBSET DOMAIN Containing, minimum : Nat]

ASSUME PageAssumption ==
    {BatchSize, MaxResults, TopKeywords, AdLimit, CandidateLimit, ObservationLimit, MaxCommits}
        \subseteq Nat \ {0}
ASSUME NamesAssumption ==
    \A title \in Titles : Stripped[title] = title /\ Canonical[title] \in DOMAIN Order
ASSUME AskedAssumption == Requests \subseteq AdminDiscoveryRequest /\ MaxMonths \in Nat
(* The tool suggests a keyword once.                                       *)
ASSUME OffersAssumption ==
    \A offer \in Offers :
        /\ offer \subseteq Ad /\ IsFiniteSet(offer)
        /\ \A a, b \in offer : a.keyword = b.keyword => a = b
ASSUME AnswersAssumption == Shapes \subseteq Seq(Nat)
ASSUME MockAssumption == MockTitles \subseteq Titles /\ MockTime \in 1..MaxCommits

VARIABLES
    cands,     \* product_candidates in the order of their creation
    obs,       \* raw_trend_observations
    job,       \* the summary of the job updated last
    survey,    \* the survey under way; offer is history: what it may take
    page,      \* the overview being read
    commits,   \* surveys and demo runs so far
    months     \* months gone by

surveyVars == <<cands, obs, job, survey, page, commits, months>>

Month == (months % 12) + 1

Candidate == [title : Titles, at : 1..MaxCommits]
Observation == [source : Categories \cup {"none", "mock"}, title : Titles, month : 0..MaxMonths,
                cand : 1..(MaxCommits * (MaxResults + 1)), at : 1..MaxCommits,
                series : Seq(Point), real : BOOLEAN]

SurveyTypeOK ==
    /\ cands \in Seq(Candidate) /\ obs \subseteq Observation
    /\ \A o, p \in obs : <<o.source, o.title, o.month>> = <<p.source, p.title, p.month>> => o = p
    /\ \A o \in obs : o.cand \in DOMAIN cands
    /\ job.at \in 0..commits /\ job.selected \in Seq(Texts) /\ job.answered \subseteq Titles
    /\ survey.pc \in {"none", "asking", "down", "collected"}
    /\ survey.queue \in Seq(Titles) /\ Len(survey.items) <= MaxResults
    /\ page.pc \in {"none", "candidates", "job", "done"}
    /\ page.listed \subseteq DOMAIN cands
    /\ commits \in 0..MaxCommits /\ months \in 0..MaxMonths

NoJob == [at |-> 0, selected |-> << >>, searches |-> << >>, answered |-> {}]
NoSurvey == [pc |-> "none", category |-> "none", exclude |-> {}, selected |-> << >>,
             searches |-> << >>, offer |-> {}, queue |-> << >>, items |-> << >>,
             answered |-> {}, cands |-> << >>, obs |-> {}]
NoPage == [pc |-> "none", began |-> 0, listed |-> {}, job |-> NoJob, rows |-> << >>]

NothingSurveyed ==
    /\ cands = << >> /\ obs = {}
    /\ job = NoJob /\ survey = NoSurvey /\ page = NoPage
    /\ commits = 0 /\ months = 0

NextMonth ==
    /\ months < MaxMonths /\ survey.pc = "none" /\ page.pc \in {"none", "done"}
    /\ months' = months + 1
    /\ UNCHANGED <<cands, obs, job, survey, page, commits>>

-----------------------------------------------------------------------------
(* NaverSearchAdKeywordSource.discover and the choice among what it finds. *)
(* A set in the order of a sort key, and what a filter leaves of a         *)
(* sequence: the one that has its elements at the places that pass.        *)
Sorted(S, Before(_, _)) ==
    {s \in [1..Cardinality(S) -> S] :
        IsInjective(s) /\ \A i, j \in DOMAIN s : i < j => Before(s[i], s[j])}
Filtered(s, places) == {[i \in DOMAIN p |-> s[p[i]]] : p \in Sorted(places, <)}

Excludes(terms, text) == \E term \in terms : text \in Containing[term]

(* Mutant: the first letter counts for more than the searches.             *)
ByName(a, b) == Order[a.keyword] < Order[b.keyword]
MoreSearched(a, b) ==
    a.searches > b.searches \/ (a.searches = b.searches /\ Order[a.keyword] < Order[b.keyword])

FirstOf(n, s) == SubSeq(s, 1, Min({n, Len(s)}))

Suggested(offer, request) ==
    LET kept == {item \in offer : /\ ~Excludes(request.exclude \ BlankTerms, item.keyword)
                                  /\ item.searches >= request.minimum}
    IN {FirstOf(AdLimit, s) : s \in Sorted(kept, MoreSearched)}

Keywords(items) == [i \in DOMAIN items |-> items[i].keyword]
Chosen(suggested) ==
    {Keywords(FirstOf(TopKeywords, s)) :
        s \in Filtered(suggested, {i \in DOMAIN suggested : suggested[i].intent})}

(* _clean_keywords                                                         *)
Clean(selected) ==
    LET cleaned == [i \in DOMAIN selected |-> Stripped[selected[i]]]
        new == {i \in DOMAIN cleaned :
                   cleaned[i] # "" /\ \A j \in DOMAIN cleaned : j < i => cleaned[j] # cleaned[i]}
    IN {FirstOf(MaxResults, s) : s \in Filtered(cleaned, new)}

(* run_admin_discovery up to the workflow.  A request without keywords, or *)
(* one for which nothing is suggested, is refused and changes nothing.     *)
Begin(request, selected, searches, offer) ==
    /\ survey.pc = "none" /\ commits < MaxCommits
    /\ selected # << >>
    /\ \E queue \in Clean(selected) :
          survey' = [pc |-> IF queue = << >> THEN "down" ELSE "asking",
                     category |-> request.category, exclude |-> request.exclude,
                     selected |-> selected, searches |-> searches, offer |-> offer,
                     queue |-> queue, items |-> << >>, answered |-> {},
                     cands |-> cands, obs |-> obs]
    /\ UNCHANGED <<cands, obs, job, page, commits, months>>

SurveyTyped ==
    \E request \in Requests :
        request.mode = "direct" /\ Begin(request, request.keywords, << >>, {})

SurveySuggested ==
    \E request \in Requests, offer \in Offers :
    \E suggested \in Suggested(offer, request) :
    \E selected \in Chosen(suggested) :
        /\ request.mode = "auto"
        /\ Begin(request, selected,
                 [k \in {item.keyword : item \in Range(suggested)} |->
                     (CHOOSE item \in Range(suggested) : item.keyword = k).searches],
                 {item \in offer : /\ item.intent /\ item.searches >= request.minimum
                                   /\ ~Excludes(request.exclude \ BlankTerms, item.keyword)})

-----------------------------------------------------------------------------
(* NaverShoppingInsightSource.discover: the months end with the last       *)
(* complete one.                                                           *)
SeriesOf(shape) ==
    [i \in DOMAIN shape |-> [month |-> ((Month - 2 - (Len(shape) - i)) % 12) + 1, ratio |-> shape[i]]]

AskBatch ==
    /\ survey.pc = "asking"
    /\ LET batch == FirstOf(BatchSize, survey.queue)
           rest == SubSeq(survey.queue, Len(batch) + 1, Len(survey.queue))
       IN \E answered \in SUBSET {k \in Range(batch) : ~Excludes(survey.exclude, k)} :
          \E shape \in [answered -> Shapes] :
          \E titles \in Filtered(batch, {i \in DOMAIN batch : batch[i] \in answered}) :
             LET items == FirstOf(MaxResults, survey.items \o
                              [i \in DOMAIN titles |->
                                  [title |-> titles[i], series |-> SeriesOf(shape[titles[i]])]])
                 queue == IF Len(items) = MaxResults THEN << >> ELSE rest
             IN survey' = [survey EXCEPT
                    !.items = items, !.queue = queue,
                    !.answered = {items[i].title : i \in DOMAIN items},
                    !.pc = IF queue = << >> THEN "collected" ELSE "asking"]
    /\ UNCHANGED <<cands, obs, job, page, commits, months>>

(* Mutant: what the batches before it answered is kept.                    *)
KeepAnswered ==
    /\ survey.pc = "asking"
    /\ survey' = [survey EXCEPT !.pc = "collected"]
    /\ UNCHANGED <<cands, obs, job, page, commits, months>>
(* A batch that fails raises: the source is down, whatever it answered.    *)
BatchFails ==
    /\ survey.pc = "asking"
    /\ survey' = [survey EXCEPT !.pc = "down", !.items = << >>, !.answered = {}]
    /\ UNCHANGED <<cands, obs, job, page, commits, months>>

-----------------------------------------------------------------------------
(* TrendIngestionService.ingest of one item: its candidate is one of its   *)
(* near duplicates, or new.                                                *)
Alike(known, title) ==
    {i \in DOMAIN known : known[i].title = title \/ <<known[i].title, title>> \in Near}

(* Mutant: linked before the new row has its id.                           *)
LinkedUnflushed(known, title) ==
    IF Alike(known, title) = {} THEN {Len(known)} ELSE Alike(known, title)
Linked(known, title) ==
    IF Alike(known, title) = {} THEN {Len(known) + 1} ELSE Alike(known, title)

WithCandidate(known, title) ==
    IF Alike(known, title) = {} THEN Append(known, [title |-> title, at |-> commits + 1])
    ELSE known

(* Mutant: what the source says again is added again.                      *)
AddedAgain(old, new) == old \cup {new}
WithObservation(old, new) ==
    {o \in old : <<o.source, o.title, o.month>> # <<new.source, new.title, new.month>>} \cup {new}

IngestItem ==
    /\ survey.pc = "collected" /\ survey.items # << >>
    /\ LET item == Head(survey.items) IN
       \E i \in Linked(survey.cands, item.title) :
          survey' = [survey EXCEPT
              !.items = Tail(@),
              !.cands = WithCandidate(@, item.title),
              !.obs = WithObservation(@,
                  [source |-> survey.category, title |-> item.title, month |-> months,
                   cand |-> i, at |-> commits + 1, series |-> item.series, real |-> TRUE])]
    /\ UNCHANGED <<cands, obs, job, page, commits, months>>

(* The workflow's summary, annotated with what was chosen, is there for a  *)
(* survey that failed as well.                                             *)
CommitSurvey ==
    /\ survey.pc \in {"down", "collected"} /\ survey.items = << >>
    /\ cands' = survey.cands /\ obs' = survey.obs
    /\ commits' = commits + 1
    /\ job' = [at |-> commits + 1, selected |-> survey.selected, searches |-> survey.searches,
               answered |-> survey.answered]
    /\ survey' = NoSurvey
    /\ UNCHANGED <<page, months>>

(* An exception, a dropped client, a crash.                                *)
AbortSurvey ==
    /\ survey.pc # "none"
    /\ survey' = NoSurvey
    /\ UNCHANGED <<cands, obs, job, page, commits, months>>

(* The demo discovery, a job of its own that chooses no keywords and whose *)
(* fixture has one date for all time.                                      *)
CommitDemo ==
    /\ survey.pc = "none" /\ commits < MaxCommits
    /\ \E title \in MockTitles :
       \E i \in Linked(cands, title) :
          /\ cands' = WithCandidate(cands, title)
          /\ obs' = WithObservation(obs,
                [source |-> "mock", title |-> title, month |-> 0, cand |-> i,
                 at |-> MockTime, series |-> << >>, real |-> FALSE])
    /\ commits' = commits + 1
    /\ job' = [NoJob EXCEPT !.at = commits + 1]
    /\ UNCHANGED <<survey, page, months>>

-----------------------------------------------------------------------------
(* admin_overview.  Rows committed together have one time, and which of    *)
(* them a limit or a dictionary keeps is open.                             *)
Newest(limit, at) ==
    {S \in kSubset(Min({limit, Cardinality(DOMAIN at)}), DOMAIN at) :
        \A i \in S, j \in DOMAIN at \ S : at[i] >= at[j]}

ReadCandidates ==
    /\ page.pc \in {"none", "done"}
    /\ \E listed \in Newest(CandidateLimit, [i \in DOMAIN cands |-> cands[i].at]) :
          page' = [NoPage EXCEPT !.pc = "candidates", !.began = commits, !.listed = listed]
    /\ UNCHANGED <<cands, obs, job, survey, commits, months>>

ReadJob ==
    /\ page.pc = "candidates"
    /\ page' = [page EXCEPT !.pc = "job", !.job = job]
    /\ UNCHANGED <<cands, obs, job, survey, commits, months>>

(* Mutant: the first observation of a candidate, not the last.             *)
FirstSeen(observations) ==
    {first \in [{o.cand : o \in observations} -> observations] :
        \A c \in DOMAIN first :
            /\ first[c].cand = c
            /\ \A o \in observations : o.cand = c => o.at >= first[c].at}
LatestOf(observations) ==
    {latest \in [{o.cand : o \in observations} -> observations] :
        \A c \in DOMAIN latest :
            /\ latest[c].cand = c
            /\ \A o \in observations : o.cand = c => o.at <= latest[c].at}

Wanted(name) == page.job.selected = << >> \/ name \in Range(page.job.selected)

Searches(name) == IF name \in DOMAIN page.job.searches THEN page.job.searches[name] ELSE 0

RowOf(c, observation) ==
    LET name == Canonical[cands[c].title]
        n == Len(observation.series)
    IN [name |-> name, title |-> cands[c].title, at |-> observation.at,
        series |-> observation.series, searches |-> Searches(name),
        latest |-> IF n = 0 THEN 0 ELSE observation.series[n].ratio]

Scored(rows) ==
    {[row |-> row, level |-> Level(row, rows), analysis |-> Analysis(row.series, Month),
      score |-> MarketScore(Level(row, rows), Analysis(row.series, Month))] : row \in rows}

(* Mutant: by the share of searches, as the rows came.                     *)
AheadByLevel(a, b) ==
    a.level > b.level \/ (a.level = b.level /\ Order[a.row.name] <= Order[b.row.name])
Ahead(a, b) ==
    a.score > b.score \/ (a.score = b.score /\ Order[a.row.name] <= Order[b.row.name])

Shown(latest) ==
    {c \in page.listed \cap DOMAIN latest :
        latest[c].real /\ Wanted(Canonical[cands[c].title])}
RowsOf(latest) == {RowOf(c, latest[c]) : c \in Shown(latest)}

ReadObservations ==
    /\ page.pc = "job"
    /\ \E observations \in Newest(ObservationLimit, [o \in obs |-> o.at]) :
       \E latest \in LatestOf(observations) :
       \E ranked \in Sorted(Scored(RowsOf(latest)), Ahead) :
          page' = [page EXCEPT !.pc = "done", !.rows = ranked]
    /\ UNCHANGED <<cands, obs, job, survey, commits, months>>

-----------------------------------------------------------------------------
SurveyNext ==
    \/ SurveyTyped \/ SurveySuggested \/ AskBatch \/ BatchFails \/ IngestItem
    \/ CommitSurvey \/ AbortSurvey \/ CommitDemo \/ NextMonth
    \/ ReadCandidates \/ ReadJob \/ ReadObservations

Surveying == NothingSurveyed /\ [][SurveyNext]_surveyVars

-----------------------------------------------------------------------------
(* What a survey found out reaches the page: a keyword that the job on the *)
(* page chose and the source answered is there with the data of that       *)
(* survey or a later one and with the searches that job has for it --      *)
(* unless its name is another than the keyword, another title is taken for *)
(* it, its candidate is younger than the page or a limit cuts it off.      *)
Plain(k) ==
    /\ k \notin MockTitles /\ Canonical[k] = k
    /\ \A t \in Titles \ {k} : <<t, k>> \notin Near /\ <<k, t>> \notin Near

Listable(k) ==
    \A i \in DOMAIN cands : cands[i].title = k =>
        /\ cands[i].at <= page.began
        /\ Cardinality({j \in DOMAIN cands : cands[j].at \in cands[i].at..page.began})
              <= CandidateLimit

SurveyReachesTheOverview ==
    [][page.pc = "job" /\ page'.pc = "done" =>
          \A k \in page.job.answered \cap Range(page.job.selected) :
              Plain(k) /\ Listable(k)
              /\ Cardinality({o \in obs : o.at >= page.job.at}) <= ObservationLimit
              => \E place \in DOMAIN page'.rows :
                    LET row == page'.rows[place].row
                    IN row.title = k /\ row.at >= page.job.at /\ row.searches = Searches(k)]_surveyVars

(* A survey takes the most searched of the keywords it may take, asks      *)
(* about all of them or leaves nothing, and what it leaves is what the     *)
(* source answered: a failed one says so in the job and adds nothing.      *)
SurveysAreWhole ==
    /\ [](\A item \in survey.offer : item.keyword \notin Range(survey.selected) =>
             \A other \in survey.offer : other.keyword \in Range(survey.selected) =>
                 item.searches <= other.searches)
    /\ []({o.title : o \in {o \in obs : o.at = job.at /\ o.real}} = job.answered)
    /\ [][survey.pc # "none" /\ job' # job /\ job'.answered # {} => survey.queue = << >>]_surveyVars

(* The page ranks its rows by scores of 0..100 that never count against a  *)
(* keyword what is better about it, and says of a series and a calendar    *)
(* that are both turned by some months what it says of them as they are.   *)
NoWorse(a, b) == a.level >= b.level /\ AnalysisNoWorse(a.analysis, b.analysis)

OverviewIsRanked ==
    \A i \in DOMAIN page.rows :
        /\ page.rows[i].score \in 0..1000
        /\ \A j \in DOMAIN page.rows : NoWorse(page.rows[j], page.rows[i]) /\ i < j =>
               page.rows[i].score = page.rows[j].score
        /\ \A by \in 1..11 : page.rows[i].row.series # << >> =>
               EntryTiming(Turned(page.rows[i].row.series, by), MonthTurned(Month, by))
                   = EntryTiming(page.rows[i].row.series, Month)
=============================================================================
