-------------------------------- MODULE Pilot --------------------------------
(***************************************************************************)
(* services/pilot.py and its routes: onboarding writes a tenant's          *)
(* configuration and the flags it lacks, operators set flags, users leave  *)
(* feedback, and the dashboard counts what discovery runs, operators and   *)
(* agents have committed.  Each request is one READ COMMITTED transaction: *)
(* a setter loads its flag, and the UPDATE leaves out a column that equals *)
(* what was loaded; the dashboard is six SELECTs, each with its own        *)
(* snapshot.                                                               *)
(***************************************************************************)
EXTENDS Naturals, Sequences, FiniteSets

CONSTANTS
    Tenants,
    Keys, Default,    \* DEFAULT_FLAGS
    Onboardings,      \* onboarding requests
    Setters,          \* requests that set a flag
    Boards,           \* dashboard requests
    Histories,        \* which requests come, asking for what
    Jobs, Recs,       \* rows of jobs and recommendations there may be
    Owner,            \* the tenant of a job, a recommendation or a dashboard
    Costs, Ratings,   \* what an agent run costs, what users give
    MaxCommits,       \* bound: commits of discovery, review, agents, feedback;
                      \* a history may have had some of them already
    NoRow

Calls == Onboardings \cup Setters

ASSUME DefaultAssumption == Default \in [Keys -> BOOLEAN] /\ Keys # {}
ASSUME CallsAssumption == Onboardings \cap Setters = {}
ASSUME OwnerAssumption == Owner \in [Jobs \cup Recs \cup Boards -> Tenants]
ASSUME NumbersAssumption ==
    Costs \subseteq Nat /\ Ratings \subseteq 1..5 /\ MaxCommits \in Nat
ASSUME HistoriesAssumption ==
    Histories \subseteq [asked : [Calls -> [tenant : Tenants, key : STRING, enabled : BOOLEAN]],
                         come : SUBSET (Calls \cup Boards), commits : 0..MaxCommits]
ASSUME TablesAssumption == IsFiniteSet(Jobs) /\ IsFiniteSet(Recs)

VARIABLES
    config,     \* tenant_pilot_configs: the request whose values the row has
    flags,      \* feature_flags.enabled by tenant and key
    jobs,       \* jobs.status
    recs,       \* recommendations.status
    paid,       \* agent_runs.estimated_cost, summed by tenant
    ratings,    \* pilot_feedback.rating by tenant, in the order they came
    session,    \* the requests that onboard or set
    board,      \* the dashboards: the next SELECT, and what was read
    commits,    \* how many commits there were beside those requests
    moved,      \* history: setters whose flag another set since they loaded it
    since       \* history: what was committed since a dashboard's first SELECT

settings == <<config, flags>>
work == <<jobs, recs, paid, ratings, commits>>
vars == <<settings, work, session, board, moved, since>>

Ended == {"done", "missing", "aborted"}
JobStatus == {"succeeded", "partial", "failed"}
RecStatus == {"pending", "approved", "rejected", "deferred"}
ASSUME NoRowAssumption ==
    NoRow \notin Onboardings /\ NoRow \notin BOOLEAN /\ NoRow \notin JobStatus \cup RecStatus

Selects == <<"total", "succeeded", "recs", "approved", "cost", "ratings">>
Counts == [total : Nat, succeeded : Nat, recs : Nat, approved : Nat, cost : Nat,
           ratings : Seq(Ratings)]

TypeOK ==
    /\ config \in [Tenants -> Onboardings \cup {NoRow}]
    /\ flags \in [Tenants -> [Keys -> BOOLEAN \cup {NoRow}]]
    /\ jobs \in [Jobs -> JobStatus \cup {NoRow}]
    /\ recs \in [Recs -> RecStatus \cup {NoRow}]
    /\ paid \in [Tenants -> Nat] /\ ratings \in [Tenants -> Seq(Ratings)]
    /\ commits \in 0..MaxCommits
    /\ \A q \in Calls :
          /\ session[q].pc \in {"absent", "idle", "loaded", "written"} \cup Ended
          /\ q \in Setters /\ session[q].pc \in {"loaded", "written"} =>
                session[q].loaded \in BOOLEAN
    /\ board \in [Boards -> [at : 0..(Len(Selects) + 1), seen : Counts]]
    /\ moved \subseteq Setters
    /\ since \in [Boards -> [jobs : Nat, recs : Nat, all : Nat]]

Nothing == [total |-> 0, succeeded |-> 0, recs |-> 0, approved |-> 0, cost |-> 0,
            ratings |-> << >>]

Init ==
    /\ config = [t \in Tenants |-> NoRow]
    /\ flags = [t \in Tenants |-> [k \in Keys |-> NoRow]]
    /\ jobs = [j \in Jobs |-> NoRow] /\ recs = [r \in Recs |-> NoRow]
    /\ paid = [t \in Tenants |-> 0] /\ ratings = [t \in Tenants |-> << >>]
    /\ \E history \in Histories :
          LET asked == history.asked IN
          /\ session = [q \in Calls |->
                 [pc |-> IF q \in history.come THEN "idle" ELSE "absent", loaded |-> NoRow,
                  tenant |-> asked[q].tenant, key |-> asked[q].key, enabled |-> asked[q].enabled]]
          /\ board = [b \in Boards |-> [at |-> IF b \in history.come THEN 1 ELSE 0, seen |-> Nothing]]
          /\ commits = history.commits
    /\ moved = {}
    /\ since = [b \in Boards |-> [jobs |-> 0, recs |-> 0, all |-> 0]]

-----------------------------------------------------------------------------
(* A request's statements; a row another request has written waits for its *)
(* end.                                                                    *)
At(q, pc) == session[q].pc = pc
Goes(q, pc) == session' = [session EXCEPT ![q].pc = pc]
Elsewhere == UNCHANGED <<work, board, since>>

(* Mutant: an onboarding that finds a flag sets it back.                   *)
FlagsReset(t) == [k \in Keys |-> Default[k]]
(* on_conflict_do_nothing.                                                 *)
FlagsFilled(t) == [k \in Keys |-> IF flags[t][k] = NoRow THEN Default[k] ELSE flags[t][k]]

(* PilotService.onboard: who has upserted the tenant's configuration is    *)
(* alone in inserting its flags, so that the five statements are one step. *)
Onboard(q) ==
    /\ At(q, "idle")
    /\ \A p \in Onboardings : At(p, "written") => session[p].tenant # session[q].tenant
    /\ Goes(q, "written")
    /\ UNCHANGED <<settings, moved>> /\ Elsewhere

CommitOnboarding(q) ==
    /\ At(q, "written")
    /\ LET t == session[q].tenant IN
          /\ config' = [config EXCEPT ![t] = q]
          /\ flags' = [flags EXCEPT ![t] = FlagsFilled(t)]
    /\ Goes(q, "done")
    /\ UNCHANGED moved /\ Elsewhere

(* PilotService.set_flag: the SELECT.  A key with no row answers 404.      *)
Stored(q) ==
    IF session[q].key \in Keys THEN flags[session[q].tenant][session[q].key] ELSE NoRow

(* Mutant: it is not asked whether there is a flag.                        *)
LoadAnyFlag(q) ==
    /\ At(q, "idle")
    /\ session' = [session EXCEPT ![q].pc = "loaded", ![q].loaded = Stored(q)]
    /\ UNCHANGED <<settings, moved>> /\ Elsewhere

LoadFlag(q) ==
    /\ At(q, "idle") /\ Stored(q) # NoRow
    /\ session' = [session EXCEPT ![q].pc = "loaded", ![q].loaded = Stored(q)]
    /\ UNCHANGED <<settings, moved>> /\ Elsewhere

MissFlag(q) ==
    /\ At(q, "idle") /\ Stored(q) = NoRow
    /\ Goes(q, "missing")
    /\ UNCHANGED <<settings, moved>> /\ Elsewhere

SameFlag(p, q) == session[p].tenant = session[q].tenant /\ session[p].key = session[q].key

(* The flush locks the row: updated_at is always written.                  *)
WriteFlag(q) ==
    /\ At(q, "loaded")
    /\ \A p \in Setters : SameFlag(p, q) => ~At(p, "written")
    /\ Goes(q, "written")
    /\ UNCHANGED <<settings, moved>> /\ Elsewhere

CommitFlag(q) ==
    /\ At(q, "written")
    /\ flags' = IF session[q].enabled = session[q].loaded THEN flags
                ELSE [flags EXCEPT ![session[q].tenant][session[q].key] = session[q].enabled]
    /\ moved' = moved \cup {p \in Setters \ {q} : SameFlag(p, q) /\ At(p, "loaded")}
    /\ Goes(q, "done")
    /\ UNCHANGED config /\ Elsewhere

(* An exception, a dropped client, a crash: nothing of it was committed.   *)
Abort(q) ==
    /\ session[q].pc \in {"loaded", "written"}
    /\ Goes(q, "aborted")
    /\ UNCHANGED <<settings, moved>> /\ Elsewhere

-----------------------------------------------------------------------------
(* What the dashboard counts, committed one transaction at a time.         *)
Note(t, newJobs, newRecs) ==
    /\ commits < MaxCommits /\ commits' = commits + 1
    /\ since' = [b \in Boards |->
          IF Owner[b] = t /\ board[b].at \in 2..Len(Selects)
          THEN [jobs |-> since[b].jobs + newJobs, recs |-> since[b].recs + newRecs,
                all |-> since[b].all + 1]
          ELSE since[b]]
    /\ UNCHANGED <<settings, session, board, moved>>

(* A discovery run, or a restart of one: its job and, unless it failed,    *)
(* some recommendations, which are pending (again).                        *)
CommitDiscovery(j) ==
    \E status \in JobStatus, opened \in SUBSET {r \in Recs : Owner[r] = Owner[j]} :
        /\ status = "failed" => opened = {}
        /\ jobs' = [jobs EXCEPT ![j] = status]
        /\ recs' = [r \in Recs |-> IF r \in opened THEN "pending" ELSE recs[r]]
        /\ Note(Owner[j], IF jobs[j] = NoRow THEN 1 ELSE 0,
                Cardinality({r \in opened : recs[r] = NoRow}))
        /\ UNCHANGED <<paid, ratings>>

CommitDecision(r) ==
    /\ recs[r] = "pending"
    /\ \E status \in RecStatus \ {"pending"} : recs' = [recs EXCEPT ![r] = status]
    /\ Note(Owner[r], 0, 0)
    /\ UNCHANGED <<jobs, paid, ratings>>

CommitAgentRun(t) ==
    /\ \E cost \in Costs : paid' = [paid EXCEPT ![t] = @ + cost]
    /\ Note(t, 0, 0)
    /\ UNCHANGED <<jobs, recs, ratings>>

(* PilotService.feedback                                                   *)
Feedback(t) ==
    /\ \E rating \in Ratings : ratings' = [ratings EXCEPT ![t] = Append(@, rating)]
    /\ Note(t, 0, 0)
    /\ UNCHANGED <<jobs, recs, paid>>

-----------------------------------------------------------------------------
(* PilotService.dashboard.  Mutant: the total is of every tenant.          *)
CountsOfAll(t) ==
    [total |-> Cardinality({j \in Jobs : jobs[j] # NoRow}),
     succeeded |-> Cardinality({j \in Jobs : Owner[j] = t /\ jobs[j] = "succeeded"}),
     recs |-> Cardinality({r \in Recs : Owner[r] = t /\ recs[r] # NoRow}),
     approved |-> Cardinality({r \in Recs : Owner[r] = t /\ recs[r] = "approved"}),
     cost |-> paid[t],
     ratings |-> ratings[t]]

Committed(t) ==
    [total |-> Cardinality({j \in Jobs : Owner[j] = t /\ jobs[j] # NoRow}),
     succeeded |-> Cardinality({j \in Jobs : Owner[j] = t /\ jobs[j] = "succeeded"}),
     recs |-> Cardinality({r \in Recs : Owner[r] = t /\ recs[r] # NoRow}),
     approved |-> Cardinality({r \in Recs : Owner[r] = t /\ recs[r] = "approved"}),
     cost |-> paid[t],
     ratings |-> ratings[t]]

Select(b) ==
    /\ board[b].at \in 1..Len(Selects)
    /\ board' = [board EXCEPT ![b].at = @ + 1,
                              ![b].seen[Selects[board[b].at]] =
                                  Committed(Owner[b])[Selects[board[b].at]]]
    /\ UNCHANGED <<settings, work, session, moved, since>>

-----------------------------------------------------------------------------
Over ==
    /\ \A q \in Calls : session[q].pc \in {"absent"} \cup Ended
    /\ \A b \in Boards : board[b].at \notin 1..Len(Selects)
    /\ UNCHANGED vars

Next ==
    \/ \E q \in Onboardings : Onboard(q) \/ CommitOnboarding(q)
    \/ \E q \in Setters : LoadFlag(q) \/ MissFlag(q) \/ WriteFlag(q) \/ CommitFlag(q)
    \/ \E q \in Calls : Abort(q)
    \/ \E j \in Jobs : CommitDiscovery(j)
    \/ \E r \in Recs : CommitDecision(r)
    \/ \E t \in Tenants : CommitAgentRun(t) \/ Feedback(t)
    \/ \E b \in Boards : Select(b)
    \/ Over

Spec == Init /\ [][Next]_vars
-----------------------------------------------------------------------------
(* A flag is what an operator asked for, or the default while nobody did:  *)
(* onboarding again takes no choice back, a tenant that is ready has all   *)
(* its flags, and of two setters at once only one that asked for what it   *)
(* had loaded can be answered and not obeyed.                              *)
FlagsAreAsAsked ==
    /\ [](\A t \in Tenants : config[t] # NoRow <=> \A k \in Keys : flags[t][k] # NoRow)
    /\ [][\A q \in Setters : At(q, "written") /\ session'[q].pc = "done" =>
             \/ flags'[session[q].tenant][session[q].key] = session[q].enabled
             \/ q \in moved /\ session[q].loaded = session[q].enabled]_vars
    /\ [][\A t \in Tenants, k \in Keys : flags'[t][k] # flags[t][k] =>
             \/ flags[t][k] = NoRow /\ flags'[t][k] = Default[k]
             \/ \E q \in Setters : /\ At(q, "written") /\ session'[q].pc = "done"
                                   /\ session[q].tenant = t /\ session[q].key = k
                                   /\ flags'[t][k] = session[q].enabled]_vars

(* A dashboard is wrong by no more than what its tenant committed between  *)
(* its first SELECT and its last: a rate above one takes as many new rows  *)
(* as it is too high, and with nothing committed it is exact, whatever     *)
(* other tenants do.                                                       *)
Of(t, table) == {row \in DOMAIN table : Owner[row] = t /\ table[row] # NoRow}

DashboardErrsByOverlap ==
    /\ [](\A b \in Boards : board[b].at > Len(Selects) =>
             /\ board[b].seen.succeeded <= board[b].seen.total + since[b].jobs
             /\ board[b].seen.approved <= board[b].seen.recs + since[b].recs)
    /\ [][\A b \in Boards : board'[b].at > Len(Selects) /\ board'[b] # board[b] /\ since[b].all = 0 =>
             LET seen == board'[b].seen
                 mine == Of(Owner[b], jobs)
                 shown == Of(Owner[b], recs)
             IN /\ seen.total = Cardinality(mine) /\ seen.recs = Cardinality(shown)
                /\ seen.succeeded = Cardinality({j \in mine : jobs[j] = "succeeded"})
                /\ seen.approved = Cardinality({r \in shown : recs[r] = "approved"})
                /\ seen.cost = paid[Owner[b]] /\ seen.ratings = ratings[Owner[b]]]_vars
=============================================================================
