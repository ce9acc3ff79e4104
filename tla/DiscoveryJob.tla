---------------------------- MODULE DiscoveryJob ----------------------------
(***************************************************************************)
(* The jobs row of a discovery run.  Runs with the same idempotency key    *)
(* share one row (the admin endpoint uses one fixed key per tenant): each  *)
(* run loads it, resets it and reports to it at every step, all inside the *)
(* one transaction of its request.                                         *)
(*                                                                         *)
(* The row is written through the ORM: a flush UPDATEs only the columns    *)
(* whose attribute differs from the value last loaded or flushed.  A run   *)
(* loads the row before it waits for the row's lock, so what it writes is  *)
(* relative to a row that may be out of date by then, and the columns it   *)
(* does not write keep what the previous holder of the lock left there.    *)
(***************************************************************************)
EXTENDS Naturals, Sequences, FiniteSets

CONSTANTS
    Runs,        \* the runs that may come, each with a correlation id of its own
    Sources,     \* the configured trend sources
    NoJob        \* no row

ASSUME SourcesAssumption == IsFiniteSet(Sources) /\ Sources # {}

VARIABLES
    job,         \* the committed row of the key, or NoJob
    pending,     \* the row as written by the run that holds its lock
    mem,         \* the JobModel object in each run's session
    pc           \* how far each run is

vars == <<job, pending, mem, pc>>

Terminal == {"succeeded", "partial", "failed"}
Steps == {"shop_sync", "trend_sources", "parallel_enrichment", "scoring"}
StepNames == Steps \cup {"candidate_normalization", "ranking", "recommendations"}
Problems == {"no_trend_sources", "enrichment"}

(* summary_json: {} until the end, then the run's summary, to which the    *)
(* admin endpoint adds what it searched for.                               *)
Nothing == [corr |-> NoJob]
Summary == [corr : Runs, status : Terminal, warnings : Nat, errors : Nat, searched : BOOLEAN]

Row == [id : Runs, corr : Runs, status : {"queued", "running"} \cup Terminal,
        progress : 0..100, step : Steps \cup {"none"},
        completed : Seq(StepNames),
        warnings : SUBSET Sources, errors : SUBSET Problems,
        summary : Summary \cup {Nothing}, ended : BOOLEAN]

ASSUME NoJobAssumption == NoJob \notin Runs /\ NoJob \notin Row

(* From the first flush to the end of the transaction a run owns the row   *)
(* (or, when it inserted it, the unique key).                              *)
Holding == {"created"} \cup Steps \cup {"reported", "annotated"}
(* Mutant: a lock of the session, which a rollback does not release.        *)
FreeUnlessAborted == \A q \in Runs : pc[q] \notin Holding \cup {"rolledback"}
Free == \A q \in Runs : pc[q] \notin Holding

TypeOK ==
    /\ job \in Row \cup {NoJob}
    /\ pending \in Row \cup {NoJob}
    /\ mem \in [Runs -> Row \cup {NoJob}]
    /\ pc \in [Runs -> {"idle", "loaded", "committed", "rolledback"} \cup Holding]

Init ==
    /\ job = NoJob
    /\ pending = NoJob
    /\ mem = [q \in Runs |-> NoJob]
    /\ pc = [q \in Runs |-> "idle"]

-----------------------------------------------------------------------------
(* The unit of work: column by column, what a flush leaves in the row.     *)
Column(old, new, current) == IF new = old THEN current ELSE new

(* Mutant: the correlation id is not written again.                        *)
FlushedButCorrelation(row, old, new) ==
    [new EXCEPT !.id = row.id, !.corr = row.corr,
                !.completed = Column(old.completed, new.completed, row.completed)]

Flushed(row, old, new) ==
    [id        |-> row.id,
     corr      |-> Column(old.corr, new.corr, row.corr),
     status    |-> Column(old.status, new.status, row.status),
     progress  |-> Column(old.progress, new.progress, row.progress),
     step      |-> Column(old.step, new.step, row.step),
     completed |-> Column(old.completed, new.completed, row.completed),
     warnings  |-> Column(old.warnings, new.warnings, row.warnings),
     errors    |-> Column(old.errors, new.errors, row.errors),
     summary   |-> Column(old.summary, new.summary, row.summary),
     ended     |-> Column(old.ended, new.ended, row.ended)]

GoTo(q, label) == pc' = [pc EXCEPT ![q] = label]

Close(q, label) == GoTo(q, label) /\ mem' = [mem EXCEPT ![q] = NoJob]

-----------------------------------------------------------------------------
(* JobService.create_or_restart: SELECT, then INSERT or UPDATE.            *)
(* Mutant: the status of another table.                                    *)
QueuedAsPending(q, id) ==
    [id |-> id, corr |-> q, status |-> "pending", progress |-> 0, step |-> "none",
     completed |-> << >>, warnings |-> {}, errors |-> {}, summary |-> Nothing, ended |-> FALSE]

Queued(q, id) ==
    [id |-> id, corr |-> q, status |-> "queued", progress |-> 0, step |-> "none",
     completed |-> << >>, warnings |-> {}, errors |-> {}, summary |-> Nothing, ended |-> FALSE]

Load(q) ==
    /\ pc[q] = "idle"
    /\ mem' = [mem EXCEPT ![q] = job]
    /\ GoTo(q, "loaded")
    /\ UNCHANGED <<job, pending>>

(* Mutant: no unique constraint on the key.                                *)
CreateAnyway(q) ==
    /\ pc[q] = "loaded" /\ mem[q] = NoJob /\ Free
    /\ pending' = Queued(q, q)
    /\ mem' = [mem EXCEPT ![q] = Queued(q, q)]
    /\ GoTo(q, "created")
    /\ UNCHANGED job

Create(q) ==
    /\ pc[q] = "loaded" /\ mem[q] = NoJob /\ Free /\ job = NoJob
    /\ pending' = Queued(q, q)
    /\ mem' = [mem EXCEPT ![q] = Queued(q, q)]
    /\ GoTo(q, "created")
    /\ UNCHANGED job

(* The unique key (tenant_id, idempotency_key): IntegrityError.            *)
CreateConflict(q) ==
    /\ pc[q] = "loaded" /\ mem[q] = NoJob /\ Free /\ job # NoJob
    /\ Close(q, "rolledback")
    /\ UNCHANGED <<job, pending>>

(* Whatever the row says: a running or finished job restarts the same way. *)
Restart(q) ==
    /\ pc[q] = "loaded" /\ mem[q] # NoJob /\ Free
    /\ LET new == Queued(q, mem[q].id) IN
         /\ pending' = Flushed(job, mem[q], new)
         /\ mem' = [mem EXCEPT ![q] = new]
    /\ GoTo(q, "created")
    /\ UNCHANGED job

-----------------------------------------------------------------------------
(* Mutant: the warnings share a list with the workflow, as the steps do.   *)
UpdateSharingLists(q, done, status, step, progress, warnings, errors, summary) ==
    LET old == [mem[q] EXCEPT !.completed = @ \o done, !.warnings = warnings]
        new == [old EXCEPT !.status = status, !.step = step, !.progress = progress,
                           !.errors = errors, !.summary = summary,
                           !.ended = status \in Terminal]
    IN /\ pending' = Flushed(pending, old, new)
       /\ mem' = [mem EXCEPT ![q] = new]
       /\ UNCHANGED job

(* JobService.update after the steps in done.  job.completed_steps is the  *)
(* very list the workflow appends to, so the append has already changed    *)
(* the attribute when update assigns it, and the unit of work compares the *)
(* list with itself.                                                       *)
Update(q, done, status, step, progress, warnings, errors, summary) ==
    LET old == [mem[q] EXCEPT !.completed = @ \o done]
        new == [old EXCEPT !.status = status, !.step = step, !.progress = progress,
                           !.warnings = warnings, !.errors = errors, !.summary = summary,
                           !.ended = status \in Terminal]
    IN /\ pending' = Flushed(pending, old, new)
       /\ mem' = [mem EXCEPT ![q] = new]
       /\ UNCHANGED job

Checkpoint(q, done, step, progress, warnings, errors) ==
    /\ Update(q, done, "running", step, progress, warnings, errors, mem[q].summary)
    /\ GoTo(q, step)

Conclude(q, done, status, step, warnings, errors) ==
    /\ Update(q, done, status, step, 100, warnings, errors,
              [corr |-> q, status |-> status, warnings |-> Cardinality(warnings),
               errors |-> Cardinality(errors), searched |-> FALSE])
    /\ GoTo(q, "reported")

-----------------------------------------------------------------------------
(* DiscoveryWorkflow.run, from one report to the next.                     *)
Begin(q) ==
    /\ pc[q] = "created"
    /\ Checkpoint(q, << >>, "shop_sync", 5, {}, {})

SyncShop(q) ==
    /\ pc[q] = "shop_sync"
    /\ Checkpoint(q, <<"shop_sync">>, "trend_sources", 15, {}, {})

(* Some source answered: the others become warnings.                       *)
Ingest(q, down) ==
    /\ pc[q] = "trend_sources" /\ down # Sources
    /\ Checkpoint(q, <<"trend_sources", "candidate_normalization">>,
                  "parallel_enrichment", 45, down, {})

NoTrendSources(q) ==
    /\ pc[q] = "trend_sources"
    /\ Conclude(q, << >>, "failed", "trend_sources", Sources, {"no_trend_sources"})

Enrich(q, failed) ==
    /\ pc[q] = "parallel_enrichment"
    /\ Checkpoint(q, <<"parallel_enrichment">>, "scoring", 70, mem[q].warnings, failed)

Recommend(q) ==
    /\ pc[q] = "scoring"
    /\ Conclude(q, <<"scoring", "ranking", "recommendations">>,
                IF mem[q].errors # {} \/ mem[q].warnings # {} THEN "partial" ELSE "succeeded",
                "none", mem[q].warnings, mem[q].errors)

(* run_admin_discovery: the summary is replaced by one with the keywords.  *)
Annotate(q) ==
    /\ pc[q] = "reported"
    /\ LET new == [mem[q] EXCEPT !.summary.searched = TRUE] IN
         /\ pending' = Flushed(pending, mem[q], new)
         /\ mem' = [mem EXCEPT ![q] = new]
    /\ GoTo(q, "annotated")
    /\ UNCHANGED job

CommitRun(q) ==
    /\ pc[q] \in {"reported", "annotated"}
    /\ job' = pending /\ pending' = NoJob
    /\ Close(q, "committed")

(* An exception that no step catches, a dropped client, a crash.           *)
Rollback(q) ==
    /\ pc[q] \in Holding \cup {"loaded"}
    /\ pending' = IF pc[q] \in Holding THEN NoJob ELSE pending
    /\ Close(q, "rolledback")
    /\ UNCHANGED job

Proceed(q) ==
    \/ Create(q) \/ CreateConflict(q) \/ Restart(q)
    \/ Begin(q) \/ SyncShop(q) \/ NoTrendSources(q)
    \/ \E down \in SUBSET Sources : Ingest(q, down)
    \/ \E failed \in SUBSET {"enrichment"} : Enrich(q, failed)
    \/ Recommend(q) \/ CommitRun(q)

Quiet ==
    /\ \A q \in Runs : pc[q] \in {"committed", "rolledback"}
    /\ UNCHANGED vars

Next == (\E q \in Runs : Load(q) \/ Proceed(q) \/ Annotate(q) \/ Rollback(q)) \/ Quiet

Spec == Init /\ [][Next]_vars

(* A handler goes on: the calls to the sources time out, the steps between *)
(* two reports are computations, and the database grants a free lock.      *)
FairSpec == Spec /\ \A q \in Runs : WF_vars(Proceed(q))

-----------------------------------------------------------------------------
(* However the runs overlap, status and summary are of one and the same    *)
(* run, the one whose correlation id the row carries.                      *)
SummaryIsOfTheRun ==
    job # NoJob => job.summary.corr = job.corr /\ job.summary.status = job.status

(* A run that met problems leaves them in the row: none is lost to an      *)
(* unchanged column.                                                       *)
ProblemsAreReported ==
    job # NoJob => /\ job.summary.warnings > 0 => Cardinality(job.warnings) = job.summary.warnings
                   /\ job.summary.errors > 0 => Cardinality(job.errors) = job.summary.errors

(* A key names one job for ever: a second first run does not replace it.   *)
JobKeepsItsIdentity == [][job # NoJob => job' # NoJob /\ job'.id = job.id]_vars

(* Whoever asks for a job learns which steps its run completed, at least    *)
(* once: while it works, from a row that says it is running, or when it is *)
(* over, from the list in the finished row.                                *)
StepsAreSeen ==
    [][\A q \in Runs :
          pc[q] # "committed" /\ pc'[q] = "committed" /\ mem[q].completed # << >> =>
              \/ job # NoJob /\ job.corr = q /\ job.status = "running"
              \/ job'.completed # << >>]_vars

(* No run waits for ever for the row.                                      *)
EveryRunEnds == \A q \in Runs : pc[q] # "idle" ~> pc[q] \in {"committed", "rolledback"}
=============================================================================
