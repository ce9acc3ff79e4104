# A verification project for the AI commerce agent

TLA+ modules of the parts of this repository that keep state or compute scores, TLC
configurations that check them on small instances, and proofs that TLAPS checks for
every instance. Source paths below are relative to the repository; `…` stands for
`src/commerce_agent/application`.

Contents: [the system](#the-system) · [components](#components) ·
[modules and code](#modules-and-code) · [common modelling decisions](#common-modelling-decisions) ·
[runs](#runs) · [fairness](#fairness) · [proofs](#proofs) ·
[disagreements found](#disagreements-found) · [not modelled](#not-modelled) · [plan](#plan)

## The system

A multi-tenant service that finds products a shop could sell. A *discovery run* copies
the shop's products and sales, asks trend sources what is rising, links what they
answer to product candidates, enriches, rejects, scores and ranks the candidates, and
recommends the best. An operator approves, rejects or defers each recommendation and may
have a marketing draft written for it. Agents (language model calls with a schema, a
budget and a record) and hardening services (idempotency, rate limit, retries, outbox)
are libraries beside that path; no route uses them yet.

    admin survey / demo ──> DiscoveryWorkflow.run
                            ├─ JobService            jobs                        DiscoveryJob
                            ├─ ShopSyncService       shop_products, sales, …     ShopSync
                            │    └─ CommerceAdapter (Shopify, mock)
                            ├─ TrendIngestionService candidates, observations    TrendIngestion
                            │    └─ TrendSource (Naver, search ads, mock)
                            └─ scoring, ranking      scores, recommendations     Scoring, Ranking
    recommendation routes ──> ApprovalService        recommendations, approvals,
                                                     drafts, audit_events        Approvals, ReviewLedger
    admin survey, overview ─> keywords, workflow     jobs, observations          MarketSurvey, MarketView
    pilot routes ──────────> PilotService            configs, flags, feedback    Pilot
    (library) AgentRunner + LLM clients              agent_runs                  AgentRuns
    (library) hardening services                     idempotency, outbox, …      GuardedRequests

Components share nothing but the PostgreSQL database. Every request is one transaction
(`apps/api/dependencies.py:22-25`: a session and `session.begin()` around the handler),
at PostgreSQL's default READ COMMITTED; `await` lets requests interleave statement by
statement within one process and freely across processes. So concurrency here is
transactions that interleave, and nearly every failure is a rollback.

## Components

For each: the state it keeps, its operations, what makes it hard, what makes it correct.

**Recommendation review** (`…/services/approvals.py`, `apps/api/routers/recommendations.py`).
State: `recommendations.status`, `approvals`, `marketing_drafts`, `audit_events`.
Operations: decide, create a draft; the discovery run's upsert sets a status back to
pending. Hard: the status is read by one statement and written by another; two
operators, a draft and a discovery run may meet. Correct: a status that is not pending
has its approvals row, the trail tells exactly what happened, one draft per
recommendation and only for one that was approved.

**Discovery workflow and its job** (`…/workflows/discovery.py`, `…/services/jobs.py`).
State: one `jobs` row per idempotency key. Operations: create or restart, a report per
step, the final report, the admin page's annotation. Hard: the row is loaded before its
lock is waited for, and the ORM writes only the columns it believes have changed.
Correct: the row's status and summary are one run's, no problem is lost, the key keeps its
row, every run ends. What the specification promises of progress while a run goes on, and of
the steps it completed, this code does not keep (see [disagreements](#disagreements-found)).

**Trend ingestion** (`…/services/trend_ingestion.py`, `domain/products/normalization.py`).
State: `product_candidates`, `raw_trend_observations`. Operation: ingest. Hard:
candidates are matched in memory against a list loaded once; counts and times are read,
computed and written back; rows are locked in the order of the items. Correct: every
item finds its candidate again, duplicates only arise from overlap, an undisturbed
ingestion leaves exact counts, none hangs.

**Shop synchronisation** (`…/services/shop_sync.py`, `integrations/commerce/*`).
State: product snapshots, daily sales aggregates, one profile, `last_sync_at`.
Operation: sync. Hard: the timestamp and the products are read before a possible wait
for another sync; a rolling window that does not start at midnight; one page; retries.
Correct: tables of one picture, exact whole days, no sale taken away.

**Scoring and costs** (`domain/scoring/*`). No state; decimals, weights, a piecewise margin
curve, hard rejects; landed cost and margin rate, where an unknown cost counts as zero.
Correct: scores stay in 0..100, improvement costs nothing, save a thousandth where a margin
curve ends on half of one, and learning a cost never raises a margin.

**Ranking** (`…/workflows/discovery.py:114-370`). State: `opportunity_scores` by candidate and version,
`recommendations` by score. Operation: score and recommend. Hard: rows of many runs and
versions live side by side; two limits, ties. Correct: the best are recommended, rows
agree with what the run returned, versions do not overwrite each other.

**Agents** (`…/agents/*`, `integrations/llm/*`, `infrastructure/db/agent_runs.py`).
State: `agent_runs` in the caller's transaction, the run's budget and usage. Operations:
start, call, repair, finish, grounding check. Hard: costs are known after the call, an
exception both records and propagates. Correct: bounded repairs, bounded overspending,
committed records that tell how the run ended.

**Request hardening** (`…/services/hardening.py`). State: an in-process deque of
admission times, `idempotency_records`, `outbox_events`, `dead_letters`. Hard: check
then act; effects that no rollback undoes; window boundaries. Correct: one request per key is
carried out for good, what comes later is answered from its record, every request is answered;
a limit that is kept and not overdone. A duplicate that overlaps its original is *not* answered
from the record, and errors that no retry can help are retried (see
[disagreements](#disagreements-found)).

**Tenant pilot** (`…/services/pilot.py`, `apps/api/routers/pilot.py`). State: one
configuration per tenant, its feature flags, feedback. Operations: onboard (again), set a
flag, leave feedback, the dashboard of six SELECTs. Hard: a flag is loaded before its row
lock is waited for and an equal value is not written; onboarding meets setters; each SELECT
has its own snapshot. Correct: a flag is what an operator asked for, all flags or none, and
a dashboard is wrong by no more than what was committed while it was read.

**Surveys and the overview** (`apps/api/routers/admin.py`,
`integrations/trend_sources/naver.py`, `naver_search_ad.py`). State: candidates,
observations and the job they share with a discovery run; the page keeps none. Operations: a survey
of typed or suggested keywords, in batches; the overview that reads candidates, job and
observations in SELECTs of their own, analyses each series and ranks the keywords. Hard:
three limits and two filters in a row, a batch that fails half way, a page over which a
survey commits, keywords matched to candidates by name, a calendar that wraps. Correct: the
survey is about the most searched keywords and whole or nothing, what it found reaches the
page, and the order of the page never counts against a keyword what is better about it.

**Others**, with the reason each is partly or not modelled, are under
[not modelled](#not-modelled). `PROJECT.json` lists all of them, and every hazard at its
line with the properties that watch it.

## Modules and code

`PROJECT.json` maps each definition to its lines; this is the overview.

| module | stands for | one action per |
|---|---|---|
| `ReviewLedger` | what the review promises: status, and an ever growing ledger | decision, draft, (re)opening |
| `Approvals` | `ApprovalService` and the discovery upserts | statement: SELECT, flush, COMMIT, ROLLBACK |
| `Approvals_proofs` | theorems about `Approvals` | |
| `DiscoveryJob` | `JobService` under `DiscoveryWorkflow.run` | load, flush per step, commit, rollback |
| `TrendIngestion` | `TrendIngestionService.ingest` | statement: load, link an item (with the flush it triggers), count, write, commit, deadlock victim |
| `TrendIngestion_proofs` | theorems about `TrendIngestion` | |
| `ShopSync` | `ShopSyncService.sync` and the adapter's answers | call of the shop, retry, save, commit |
| `ShopSync_proofs` | theorems about `ShopSync` | |
| `Scoring` | `domain/scoring` as operators, `costs.py` included | (no state) |
| `Appraisal` | a candidate whose features improve and whose costs become known, for checking `Scoring` | improvement of one feature or price, a cost learnt |
| `Ranking` | enrichment to recommendations, run after run; extends `Scoring` | run, decision |
| `Scoring_proofs` | theorems about `Scoring`, `Appraisal` and `Ranking` | |
| `AgentRuns` | `AgentRunner.run`, `_execute` of the specialists, the caller's transaction | outcome of a model call, repair, acceptance, catch, commit |
| `RunRecords_proofs` | theorems about the two records of runs: `DiscoveryJob` and `AgentRuns` | |
| `GuardedRequests` | the hardening services around one route, put together by the model | service call, attempt, save, commit |
| `GuardedRequests_proofs` | theorems about the records of requests and about the limiter | |
| `Pilot` | `PilotService` and its routes | statement: load, write, SELECT, commit; a commit of other work |
| `Pilot_proofs` | theorems about flags and dashboards | |
| `MarketView` | `_trend_analysis` and the market score as operators; extends `Scoring` | (no state) |
| `MarketSurvey` | `run_admin_discovery` from request to annotated job, and `admin_overview`; extends `MarketView` | request, batch, ingested item, commit, SELECT |
| `MarketSurvey_proofs` | theorems about `MarketView` and `MarketSurvey`; extends `Scoring_proofs` | |
| `MC…` | small instances for TLC; constants are set in the `.cfg` | |

How the modules relate: `Approvals` implements `ReviewLedger` (a refinement, checked and
proved). `Ranking` determines the rank order that `Approvals` leaves open (any injective
sequence of at most top N), and `Approvals` the interleaving that `Ranking` leaves out.
`TrendIngestion` and `ShopSync` run inside the transaction whose job row `DiscoveryJob`
describes; there they are the steps `SyncShop` and `Ingest`, which succeed, fail or wait.
`MarketSurvey` composes the trend source, the ingestion of one run at a time and the page
that reads what it committed; that runs come one at a time is what `DiscoveryJob` shows of
the row lock.

State and code, module by module:

- **Approvals.** `status, approvals, audit, drafts` are the committed tables; `pc,
  target, choice` are a request's local variables; `rows, scored` the rows it has
  written and therefore locks. `FlushDecision` waits for the row and does not look at
  the status again, as an UPDATE by primary key does. `CommitDiscovery` sets the status
  of its rows to pending because the upsert's SET list does (`discovery.py:343-347`).
- **DiscoveryJob.** `mem` is each session's `JobModel`, `pending` the row as its lock
  holder has written it, `job` the committed row. `Flushed(row, old, new)` is SQLAlchemy's
  unit of work: a column is written only if its attribute differs from what was last
  loaded or flushed. `completed_steps` shares one list with the workflow
  (`jobs.py:81`), so no difference is ever seen.
- **TrendIngestion.** `known` is the in-memory candidate list, in any order, as the
  SELECT has no ORDER BY; `attr` the loaded attributes; `written, noted` what the
  transaction has flushed; `draft, dirty` what waits for the autoflush before the next
  query. `DeadlockVictim` is PostgreSQL's deadlock detector.
- **ShopSync.** `orders` is the shop; `sales` its aggregates with the sync that wrote
  them. `Answer, Busy, Fail` are the adapter's outcomes with the bounded retry of
  `shopify.py`. `snapshots` is locked from `Save` on. A product's price and stock are
  not kept: which sync wrote the row is what the properties need.
- **Scoring, Ranking.** A score is a number of thousandths, a weight a number of parts of the
  sum of all, which is one. `HalfUp` is `quantize(…, ROUND_HALF_UP)`, `HalfEven` a `quantize`
  that names no rounding. A margin point's score may be any decimal: a number of parts, `Grain`
  of them to a thousandth; the curve's two ends round it half to even, the pieces half up
  (`normalizers.py:104-113`). A quotient is exact where the code keeps 28 digits, which could
  only move a value that is exactly half a thousandth. A recommendation's row keeps its
  rank, its status and the score its summary text shows.
- **AgentRuns.** `spent` is the budget guard's, `used` the usage the record gets; `rows` the
  records as the caller's session has written them, visible to others once `txn` is committed.
- **GuardedRequests.** `window` is the deque, `admissions` its history; `effects` what
  operations did outside, which a rollback leaves standing. No route uses the services, and the
  tests call each by itself: that a request passes limiter, record, attempts and outbox in this
  order and in one transaction is the model's own composition, after section 35 of the
  specification. `repeat` is history: whether the record was there when the request came.
- **Pilot.** `session` holds the requests that onboard or set a flag, `flags` the committed
  rows; `moved` and `since` are history: setters overtaken since they loaded, and what was
  committed since a dashboard's first SELECT. Discovery runs, decisions, agent runs and
  feedback are single commits here, as the dashboard sees no more of them.
- **MarketView, MarketSurvey.** A series is its ratios and months; shares and changes are
  percents, scores tenths. `survey` is the request under way with its own view of the
  tables, `job` the summary that the page reads, `page` what the overview has read so far. Times are
  numbers of commits. Which of several rows of one time a limit keeps is open, as it is to
  the database.

## Common modelling decisions

- *One tenant.* Every statement filters on `tenant_id`; another tenant's row is a row
  that is not there.
- *Transactions.* A SELECT sees committed rows and its own; a written row, or an inserted
  unique key, is held until COMMIT or ROLLBACK, and others wait for it. Writes become
  visible at COMMIT. A rollback is possible at every live state: exceptions, dropped
  clients and crashes all end that way, as nothing survives a process but committed
  rows.
- *Identity.* Rows carry the request that made them where the code draws a UUID.
- *Texts, prompts, prices, JSON* are abstracted to what the properties tell apart.
- *Reads for display* change nothing and are left out.
- *Names.* Where two state machines share a module of proofs, one has names of its own for
  what the others call `Init`, `Next`, `Spec` and `TypeOK`: `RunningAgents`, `Appraising`,
  `Surveying` and the like.
- Each `Quiet` (or `Over`, `CallerIsDone`) step is stuttering when everything that will come has come, so
  that deadlock checking stays on in every run and finds real ones.

## Runs

`tlc -config <cfg> <module>`; all passing runs together take a few minutes.

| run | shows | distinct states |
|---|---|---|
| `MCApprovals` | three requests of any kind over two recommendations: records stay consistent, the ledger is implemented, every request ends | 76 148 |
| `MCRunRecords` | three runs over one key, failing sources and enrichments, aborts anywhere; or two agent runs of one caller, calls of every outcome and cost | 17 511 |
| `MCTrendIngestion` | three ingestions with crossing, near duplicate and moving items, live together or not | 80 233 |
| `MCShopSync` | two syncs over orders that keep coming, windows that cut a day, busy shops | 650 055 |
| `MCGuardedRequests` | three requests, repeats and reused keys, under a limit of two per window: one per key is carried out, all are answered, the limit is kept | 206 477 |
| `MCPilot` | two onboardings and two setters of one tenant; a dashboard over four commits of its tenant and another | 1 114 524 |
| `MCMarketSurvey` | two surveys or demo runs, answered in part or failing at any batch, and an overview whose SELECTs they commit between | 414 767 |
| `MCScoring` | two discovery runs, two versions, four candidates with ties, decisions between; or a candidate whose features, costs and known costs improve across the margin curve | 77 208 |
| `MCDoubleDecision`, `MCSalesRetained`, `MCStepsSeen`, `MCDuplicate` | the disagreements below, each as a counterexample | |

`MCRunRecords` and `MCScoring` each hold two state machines that share nothing but operators:
one of them stays where it starts while the other moves, so that their states add up and do
not multiply.

**Bounds, and why they are enough.**
Approvals: two recommendations are what lock order needs, three requests what a decision
between two others needs; each request arrives once, as anything. DiscoveryJob: the
hazards need one run that loads, one that commits meanwhile and one that comes later.
TrendIngestion: the feeds are chosen to cross (`k1` then `k3` against `k3` then `k2`,
with `k1` near `k2`), which gives twins, lost counts and deadlock, and one holds an item twice; the third ingestion is
the later, lone one. ShopSync: days of two ticks and a window of two days, so that one
window starts at midnight and the next in the middle of a day; a clock of six ticks lets
one sync see a cut day that another saw whole. GuardedRequests: two repeats and one
request that is a repeat, a reuse or unrelated, a clock that crosses the window's
boundary. Pilot: two onboardings and two setters are what a lost choice takes, on one flag
that is on by default and one that is off, with a key that is no flag; settings and
dashboards share no row, so a history has the one with all commits already made or the
other with all of them to come, and four commits put one before, two among and one after
the SELECTs of a pair. MarketSurvey: two commits are an older survey and a newer one, or one
and a demo run, and two months the re-asked one and the next; limits of one to three stand
for 5, 20, 50, 100 and 200 so that each is met and exceeded; keywords with blanks, words in another
order and a model number are the three ways a name differs from a title; the series are one
with a peak ahead, two short ones of different unrest and an empty one. AgentRuns: two
repairs and costs 0 to 2 against a budget of 3 put the excess at the second or the third
call. Ranking: four candidates are one more than `MaxCandidates`, which is one more than
`TopN`; two have the same name, one lacks a supplier, one is of another category; the second
version rejects on confidence. Two runs are what an action property over earlier rows needs.
Appraisal: thirds need rounding, the margin rates lie on, beside and beyond each configured
point, the penalty exceeds the fit at the bottom, and the costs' amounts take the margin
below zero and in half quanta to either side of the points; the points' scores are in half
thousandths (`Grain = 2`), the first two of them odd, so that the two roundings differ. Every bound is a constant named in its module.

**What the properties are about.** Besides one type invariant per state machine, which also
holds each counter and queue to its limit and each table to its unique key:

- review: `DecisionIsRecorded`, `AuditTellsAll`, `DraftsAreSound`, `ImplementsLedger`,
  `EveryRequestEnds`;
- job: `SummaryIsOfTheRun`, `ProblemsAreReported`, `JobKeepsItsIdentity`, `EveryRunEnds`;
  violated: `StepsAreSeen`;
- ingestion: `EveryFeedIsCovered`, `TwinsComeFromOverlap`, `LoneIngestIsExact`,
  `EveryIngestEnds`;
- shop: `TablesAreOfOneSync`, `WholeDaysAreExact`, `NoSaleIsForgotten`, `EverySyncEnds`;
- hardening: `OneIsCarriedOut`, `EveryRequestIsAnswered`, `LimitIsKept`; violated:
  `DuplicateGetsTheResponse`;
- pilot: `FlagsAreAsAsked`, `DashboardErrsByOverlap`;
- surveys: `SurveysAreWhole`, `SurveyReachesTheOverview`, `OverviewIsRanked`;
- agents: `OverspendsByOneCall`, `CommittedRunsAreOver`;
- scores: `BetterIsNeverWorse`, `BestAreRecommended`, `RowsMatchTheOutput`,
  `PastScoresStay`.

Each is explained where it is defined. Several say *when* something holds, because without
that condition the code does not keep it: counts are exact after an ingestion that ran
alone, days are exact when whole and on one page, rows match the *last* run's output, a
setter is obeyed unless it was overtaken and asked for what it had loaded, a surveyed keyword is on
the page unless its name, a near duplicate or a limit hides it.

What they do not say: `BestAreRecommended` speaks of the candidates that were scored, not of
those cut by name before; `RowsMatchTheOutput` of the last run's rows, not of older ones;
`TablesAreOfOneSync` does not notice that `last_sync_at` goes back when the sync that read
first commits last, nor `CommittedRunsAreOver` a record that its caller's rollback takes along;
`ProblemsAreReported` counts a run's own problems and is silent on another run's left in the row
of a run without any; `BetterIsNeverWorse` is about component features, and not about growth,
of which the workflow's score is no monotone function. In these points the code does what the
hazards' notes say, and no document promises more.

Each property has a mutant: a definition of the code changed as a bug would (a
dropped lock, an ascending sort, a missing reset), listed in `PROJECT.json`, under which
TLC finds that very property violated.

## Fairness

Weak fairness is on the steps of a request that has started and never on its arrival, on
failures or on the clock. It is what asyncio and PostgreSQL provide: the event loop
resumes a handler whose statement has returned, external calls have timeouts
(`httpx.AsyncClient(timeout=30)`), a lock that is free is granted, and a circle of
waiting transactions is broken by the database. It is per request (`\A q : WF(Proceed(q))`), so a
liveness property also says that no request is starved by the others' aborts. Weak
fairness is enough: no request waits on a condition that others toggle for ever, as each arrives once.

## Proofs

`tlapm <module>` checks them from nothing.

**Approvals_proofs** (any recommendations, requests, top N, either draft policy).
`IInv` is the type invariant, the three safety properties and two facts without which
they are not inductive: *RequestsAreSound*, what a request may rely on between its
statements although others commit meanwhile (the recommendation is there, the approval
it saw is still on record, the draft key it holds is free of drafts), and
*WritersHaveCommitted*, that only a committed request has entries in the trail. Lemmas:
only commits change the tables, approvals and audit grow, a commit is sound. Theorems:
`TypeCorrect`, `DecisionsAreRecorded`, `TrailIsComplete`, `DraftsStaySound`, and
`LedgerRefinement`: every commit is one step of `ReviewLedger`, every other step a
stutter.

**RunRecords_proofs: DiscoveryJob** (any runs, any finite set of sources). The strengthening
says that one run holds the row, that what a session loaded is a row of *another* run that is
over (*JobIsOver*: the committed row always is), and that the holder's object agrees with the pending row in the columns that
matter. From it: a reset always dirties status, progress, summary and completed_at, so
column-wise writes cannot mix two runs there. In warnings and errors they can, but only where
the run has none to report (*ProblemsAreKept*). Theorems: `TypeCorrect`, `SummaryMatchesTheRow`, `ProblemsReachTheRow`, `IdentityIsKept`.

**RunRecords_proofs: AgentRuns** (any runs, costs, budgets, repairs). `AgentTypes`,
`BudgetHolds`, `CommittedMeansOver`. *SpendingIsBounded*: while a run calls, what the budget
has been told is what its usage says and within the maximum, so that the next call is the one
that exceeds it. *RecordsAreOver*: only the run that is calling has a record that is not over,
and none is under way when the transaction has ended.

**TrendIngestion_proofs** (any finite sets of keys and items, any relation of near duplicates,
feeds and ingestions). Four layers, each inductive on top of the one before:
*Typed* is the type invariant with *Sound*, what the unit of work believes of a row (the
objects of an ingestion are those of the candidates it knows, their rows are there, and it
writes no others): `IngestTypes`. *Covered*: every item linked so far has a candidate its
ingestion sees, and what it sees it keeps until it commits: `NoItemIsLeftOut`. *Apart*: a row
that is written has one writer and keeps its maker (*Exclusive*, *MakersStay*), ingestions live
together have met (*LiveHaveMet*), the maker of a candidate one did not load came
while one was live (*Loaded*), and the new candidates of one are near nothing it knows
(*PendingApart*, *MadeApart*): `OnlyOverlapMakesTwins`. *Lone*: an ingestion that has met no
other works on rows nobody else changes, so that its objects are the rows it sees, what it has
counted is exact, and the last answer of each item is within the times of its candidate:
`LoneIngestCountsAll`. Why the *last* answer: a feed may hold one item twice, and the
observation is then of the second.

**ShopSync_proofs** (any products, sales, windows, page and clock). `SyncTypes`; *Exact*, the
invariant of `SalesOfWholeDays` and `NoSaleIsTakenAway`: only `Save` takes the lock
(*OneHolds*), what a sync has read is all of its window up to its start (*WindowIsRead*), a row
is of a committed sync and of orders that are there (*RowsAreOfCommitted*, *RowsAreOfOrders*),
and a sync about to commit has read everything that the rows in its window hold, though a later
one wrote them (*NothingToLose*). It is inductive because a sync reads for less than
a day: the orders it missed are of days that its own window does not count as over. `TablesAgree` needs
that the total a sync stores is the sum over its cells: *SumOfCells*, that adding up over a
grid counts each member of a finite set once.

**GuardedRequests_proofs** (any requests, keys, bodies, limits, attempts).
`OneIsCarriedOutForAll`, in two layers. Sessions are typed, *OnItsWay* (what a request has done
is what its program counter says), *SaversAreAlone* (who has inserted a key's record is the
only one, and none is committed yet) and *EventsHaveRecords* (events and records are of the
same requests, keys and bodies). On top of it *CarriedInv*: what is in the outbox has taken
effect and its record is its own, and each request *Fits*: a replay has the stored response to
its own body, a conflict another body, and a request that came after the record has neither
effect nor letter. It is kept because a step moves one request and leaves every kept record
alone (*MovesOnly*).
About the limiter: `TypesAreKept`, `LimitIsKeptForAll`. The deque forgets, the property does
not: *Recalls* says that the deque is the end of the history and that what it has dropped has
left the window, *InOrder* that the history is sorted by time, *Bounded* that no window holds
more admissions than the limit. How much `allow` drops is the least number of a non-empty
set, which is there by the well-foundedness of finite sets.

**Pilot_proofs** (any tenants, flags, defaults, requests, jobs and recommendations).
`FlagsFollowTheOperators`: what a setter has loaded is the committed flag, unless `moved`
tells of a commit since (*LoadedIsStored*); a written flag has one writer until it commits
(*OneWriter*); a configuration and its flags are there together. `PilotTypes`, and
`OverlapBoundsTheError`: what a count already read is worth by the time of the next SELECT. The
count of all rows falls behind by no more than the rows `since` has noted, and so bounds the
later count of some of them (*JobsBounded*, *RecsBounded*); while the tenant commits nothing
every count stays what there is (*UpToDate*).

**Scoring_proofs: Scoring** (any features, weights of any precision, points, costs). From two
lemmas on rounding half up (it stays between the bounds of its argument and keeps order): `ScoreIsAScore`,
`ScoreIsMonotone`, `FinalScoreIsAScore`, `FinalScoreIsMonotone`, `InterpolationIsSound`,
`InterpolationIsMonotone`. For a list of points of any length and any precision that the configuration accepts,
`MarginCurveIsSound` (a score lies between the first point's, rounded half to even, and the
last's, rounded half up) and `MarginCurveIsMonotone`: a higher rate scores no less, save where it
reaches the last point from below; there it may lose one thousandth, and only if the last
point's score is half a thousandth. A rate's piece is the one that ends at the least index whose
point is not below it; that the two roundings differ by at most one, and on halves only, is a
lemma of its own (*HalfEvenIsHalfUp*). Margins may be negative, where rounding half up is away from zero;
`CostsNeverRaiseTheMargin` and `KnowingACostIsNoGain` hold on both sides of it.

**Scoring_proofs: Appraisal** (any valid configuration). `ImprovementIsNeverAgainstIt` is
`BetterIsNeverWorse` for every configuration: each improvement is *Better* in one of the
features compared, a learnt cost is *Better* the other way round, and from *Better* follow the
component scores (each normalizer keeps order, the margin curve up to the thousandth at its
end), the final score, which loses no more than the margin's score, and the rejections.

**Scoring_proofs: Ranking** (any finite set of candidates, any names, evidence, versions,
limits). `TypesAreKept`, `TheBestAreRecommended`, `RowsAreTheOutput`, `PastScoresAreKept`. That
the best come first rests on a lemma about rankings: an injective sequence as long as its finite
set is large has a place for every member, so whoever is left out stands behind the best. The
three invariants are inductive together; scores are in range by `FinalScoreIsAScore`.

**MarketSurvey_proofs** (any series, levels, months; any texts, requests, offers, answers and
limits). Of the operators: `MarketScoreIsAScore`, `MarketScoreIsMonotone`, and
`TimingIgnoresTheCalendar`, that the distance to a peak is the same from any month on, so that
December is no boundary; and as a lemma that every series has an analysis, for which the
volatility has to exist: a whole root lies below every number, and the standard deviation is at
most n times the mean. Of surveys and pages: `SurveyTypes`, `OverviewRanks`,
`SurveysAreNeverInPart`, `SurveyReachesThePage`, from one invariant, *MarketInv*. What it adds to
the properties: a plain keyword has one candidate, which has its observations and no others
(*Sound*); what a job says was answered has an observation of its time or later, and an item
replaces it only by a later one (*Reported*); the items a survey has yet to ingest are counted
among what was answered, and what it adds carries the number of its commit (*SurveyIsSound*); a
candidate that comes after the page began is younger than it, so that it pushes none off the
page's list (*PageIsSound*). What the limits keep is open among rows of one time;
*NewestKeepTheNewest* says that a limit never cuts a row that is among so many of its time or later.

Assumptions are the named `ASSUME`s of the modules (TLC evaluates them) and no others. Most say
of what type a constant is. The others are what the code or its database gives: tables and
feeds are finite (`FiniteAssumption`, `TablesAssumption`), costs have a largest
(`CostsAssumption`), configured margin points are valid, as the configuration's
own check requires (`PointsAssumption`), the keyword tool suggests a keyword once
(`OffersAssumption`), a title is its own stripped form (`NamesAssumption`), and the absence of a
row is no row (`NoRowAssumption`).

**How the proofs get by without induction.** What an induction would show of natural numbers
or finite sets is shown by the least counterexample, which is there by well-foundedness
(`LeastNat`, `LeastIndex`, `LeastSubset`, `NatSetInduction`). The folds of the community modules
are unfolded by hand: two folds agree wherever both are defined, one exists for every
finite set, and so the sum of a set is an element's value and the sum of the rest. `SelectSeq` cannot
be expanded at all; a filter is therefore the sequence that has the elements of its places in
order (`Filtered`).

**Only model-checked:** liveness, as fairness and ENABLED are beyond the prover
(`EveryRequestEnds`, `EveryRunEnds`, `EveryIngestEnds`, `EverySyncEnds`,
`EveryRequestIsAnswered`). Every other property of every passing run is a theorem.

## Disagreements found

Between what the repository says and what the code does, each a run whose counterexample
is the scenario:

1. `MCDoubleDecision`: "Only pending recommendations can be decided", but two concurrent
   decisions both read pending and the second overwrites the first (`approvals.py:50`).
2. `MCSalesRetained`: the aggregate of the day that the 90-day window cuts is overwritten
   with the part after the cut (`shop_sync.py:87`).
3. `MCStepsSeen`: "Persistent idempotent Job service with heartbeat", "Job progress, heartbeat,
   completed steps, … persisted", and in the specification (sections 22.3 and 23) jobs that are
   seen queued and running, with a percentage and a current step. Every report is flushed in the
   run's one transaction and visible only when the run is over (`discovery.py:372`), and the
   completed steps are not even then: the column is assigned a list that the workflow goes on to
   append to, so that no change is ever seen (`jobs.py:81`).
4. `MCDuplicate`: "Duplicate request returns stored response", but of two that overlap both find
   no record and both act, and the second fails on the unique key instead of getting the
   response that is stored by then (`hardening.py:57`).

Known from modelling and kept as hazards, most of them with notes, rather than runs:

- a discovery run reopens decided recommendations (`discovery.py:346`), and old
  recommendations keep stale ranks (`discovery.py:335`);
- a restarted job may show another run's warnings under a clean summary (`jobs.py:52`);
- overlapping ingestions lose counts (`trend_ingestion.py:130`);
- every exception is retried (`hardening.py:131-135`), where the specification (section 16.4) says
  "permanent validation error: do not retry" and the playbook "never retry permanent validation
  failures": one except clause, which a property could only restate;
- the limiter forgets its admissions on a restart and knows none of another worker's
  (`hardening.py:107`);
- a margin curve whose last score is half a thousandth above an even one falls by a thousandth
  at its last point, as its ends are rounded half to even and its pieces half up
  (`normalizers.py:106`);
- a call that is paid for and does not parse leaves no usage in the budget or the record
  (`runner.py:100`);
- a flag set to the value it was loaded with is not written, whatever another operator has
  set meanwhile (`pilot.py:90`); a rate on the dashboard may exceed one (`pilot.py:114`);
- the page filters what an older survey found by the keywords of a survey that failed, and
  never shows a keyword whose candidate has another name: one with blanks or words in
  another order, or a near duplicate (`admin.py:248`);
- beyond 55 % growth a candidate's score falls as it grows (`discovery.py:227-229`);
- the action stored for a decision is its status without a final d, so "rejecte" and
  "deferre" (`approvals.py:53`).

## Not modelled

- *Commerce adapters, LLM clients*: I/O and parsing; what the services see of them (answers,
  failures, retries, costs) is part of the modules that call them. The same goes for the
  requests, signatures and number parsing of the *trend sources*, whose choices are in
  `MarketSurvey`.
- *Scheduler and worker*: `is_due` is one comparison and nothing calls it; the worker
  only waits.
- *Tool calls of agents*: no code calls a tool, only their registry and log exist.
- *Security, mappers and repositories, settings, health, logging*: lookups, conversions and
  wiring without state.
- *Pass-through reads*: the lists of flags, dead letters, connections, runs and drafts are
  one SELECT each and change nothing; the texts and verdict wording of the admin pages.
- *Orders deleted at the shop, and what a sync computes from prices and categories*: the shop
  of `ShopSync` only adds orders, of one unit each. The code reads one page, and so does the model.
- *Column types and migrations*, except unique keys and what a Numeric can hold.

## Plan

Done: review, job, ingestion, shop, hardening, agents, scoring
with costs, ranking, pilot, surveys and overview; proofs of every safety and action property
that a run checks. Left, in order:

1. A composition of `DiscoveryJob` with `Ranking`: the summary's counts and top
   recommendations against the rows of the same transaction.
2. `ShopSync`: orders that are deleted at the shop; the profile's shares and percentiles.
3. An abstract ledger of spending that `AgentRuns` implements.
