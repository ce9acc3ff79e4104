------------------------- MODULE RunRecords_proofs -------------------------
(***************************************************************************)
(* Proofs about the records of runs: DiscoveryJob's for any number of runs *)
(* and any sources, and AgentRuns' for any budget, any bound on repairs,   *)
(* any costs that are bounded and any number of runs.  The core of the     *)
(* first is that a reset always dirties the columns status, progress,      *)
(* summary and completed_at, because a loaded row is always one of a run   *)
(* that is over; so these columns never keep another run's values.  The    *)
(* core of the second is that while a run calls, what the budget has been  *)
(* told is what its usage says, so that the budget refuses the one call    *)
(* that takes the usage over it.                                           *)
(***************************************************************************)
EXTENDS DiscoveryJob, AgentRuns, FiniteSetTheorems, TLAPS

(* The columns in which a row agrees with the attributes of a session.     *)
InSync(row, o) ==
    /\ row.id = o.id /\ row.corr = o.corr /\ row.status = o.status
    /\ row.progress = o.progress /\ row.summary = o.summary /\ row.ended = o.ended

(* A row of a run that is over.                                            *)
Over(row) ==
    /\ row.status \in Terminal /\ row.progress = 100 /\ row.ended
    /\ row.summary \in Summary /\ row.summary.corr = row.corr /\ row.summary.status = row.status

JobIsOver == job # NoJob => Over(job) /\ pc[job.corr] = "committed"

OneHolder == \A p, q \in Runs : pc[p] \in Holding /\ pc[q] \in Holding => p = q

(* What a run loaded may be out of date, but it is a row of a run that is  *)
(* over, and of another run.                                               *)
SnapshotsAreOver ==
    \A q \in Runs : pc[q] = "loaded" /\ mem[q] # NoJob =>
        job # NoJob /\ mem[q].id = job.id /\ Over(mem[q]) /\ mem[q].corr # q

HolderIsInSync ==
    \A q \in Runs : pc[q] \in Holding =>
        /\ mem[q] # NoJob /\ pending # NoJob
        /\ InSync(pending, mem[q]) /\ mem[q].corr = q
        /\ job # NoJob => mem[q].id = job.id
        /\ pc[q] \in {"reported", "annotated"} => Over(mem[q])

IInv == TypeOK /\ JobIsOver /\ OneHolder /\ SnapshotsAreOver /\ HolderIsInSync

-----------------------------------------------------------------------------
(* Flushing a row that is in sync leaves it in sync with the new values,   *)
(* and of the right type.                                                  *)
LEMMA FlushKeepsSync ==
    ASSUME NEW row \in Row, NEW old \in Row, NEW new \in Row, InSync(row, old), new.id = old.id
    PROVE  Flushed(row, old, new) \in Row /\ InSync(Flushed(row, old, new), new)
<1>1. /\ Flushed(row, old, new).id = row.id
      /\ Flushed(row, old, new).corr = Column(old.corr, new.corr, row.corr)
      /\ Flushed(row, old, new).status = Column(old.status, new.status, row.status)
      /\ Flushed(row, old, new).progress = Column(old.progress, new.progress, row.progress)
      /\ Flushed(row, old, new).summary = Column(old.summary, new.summary, row.summary)
      /\ Flushed(row, old, new).ended = Column(old.ended, new.ended, row.ended)
    BY DEF Flushed
<1>2. InSync(Flushed(row, old, new), new)
    BY <1>1 DEF InSync, Column
<1>3. Flushed(row, old, new) \in Row
    BY DEF Flushed, Column, Row
<1> QED
    BY <1>2, <1>3

(* A reset rewrites every column that tells one run from another, whatever *)
(* row it is flushed to.                                                   *)
LEMMA ResetTakesTheRow ==
    ASSUME NEW q \in Runs, NEW row \in Row, NEW old \in Row, Over(old),
           old.corr # q, old.id = row.id
    PROVE  /\ Flushed(row, old, Queued(q, old.id)) \in Row
           /\ InSync(Flushed(row, old, Queued(q, old.id)), Queued(q, old.id))
<1> DEFINE new == Queued(q, old.id)
<1>1. /\ new.id = old.id /\ new.corr = q /\ new.status = "queued" /\ new.progress = 0
      /\ new.summary = Nothing /\ new.ended = FALSE
    BY DEF Queued
<1>2. new \in Row
    BY DEF Queued, Row, Steps, StepNames
<1>3. old.summary # Nothing
    BY NoJobAssumption DEF Over, Summary, Nothing
<1>7. old.ended = TRUE /\ old.status # "queued" /\ old.progress # 0
    BY DEF Over, Terminal, Row
<1>4. /\ Flushed(row, old, new).id = row.id
      /\ Flushed(row, old, new).corr = Column(old.corr, new.corr, row.corr)
      /\ Flushed(row, old, new).status = Column(old.status, new.status, row.status)
      /\ Flushed(row, old, new).progress = Column(old.progress, new.progress, row.progress)
      /\ Flushed(row, old, new).summary = Column(old.summary, new.summary, row.summary)
      /\ Flushed(row, old, new).ended = Column(old.ended, new.ended, row.ended)
    BY DEF Flushed
<1> HIDE DEF new
<1>5. InSync(Flushed(row, old, new), new)
    BY <1>1, <1>3, <1>4, <1>7 DEF InSync, Column
<1>6. Flushed(row, old, new) \in Row
    BY <1>2 DEF Flushed, Column, Row
<1> QED
    BY <1>5, <1>6 DEF new

-----------------------------------------------------------------------------
(* A step of the holder, or of the run that becomes it.                    *)
LEMMA HolderStep ==
    ASSUME IInv, NEW q \in Runs, NEW label \in Holding,
           pc[q] \in Holding \/ (pc[q] = "loaded" /\ Free),
           pending' \in Row, mem' = [mem EXCEPT ![q] = mem'[q]], mem'[q] \in Row,
           InSync(pending', mem'[q]), mem'[q].corr = q,
           job # NoJob => mem'[q].id = job.id,
           label \in {"reported", "annotated"} => Over(mem'[q]),
           GoTo(q, label), UNCHANGED job
    PROVE  IInv'
<1>1. TypeOK /\ pc' = [pc EXCEPT ![q] = label]
    BY DEF IInv, GoTo
<1>2. /\ pc'[q] = label
      /\ \A p \in Runs : p # q => pc'[p] = pc[p] /\ mem'[p] = mem[p] /\ pc[p] \notin Holding
    BY <1>1 DEF TypeOK, IInv, OneHolder, Free
<1>3. label \notin {"loaded", "committed"} /\ pc[q] # "committed"
    BY DEF Holding, Steps
<1>4. TypeOK'
    BY <1>1 DEF TypeOK
<1>5. JobIsOver'
    BY <1>1, <1>2, <1>3 DEF IInv, JobIsOver, Over, TypeOK
<1>6. OneHolder'
    BY <1>2 DEF OneHolder
<1>7. SnapshotsAreOver'
    BY <1>2, <1>3 DEF IInv, SnapshotsAreOver
<1>8. HolderIsInSync'
    BY <1>2, NoJobAssumption DEF HolderIsInSync
<1> QED
    BY <1>4, <1>5, <1>6, <1>7, <1>8 DEF IInv

(* A run ends: it commits its row or leaves the committed one alone.       *)
LEMMA EndStep ==
    ASSUME IInv, NEW q \in Runs, NEW label \in {"committed", "rolledback"}, Close(q, label),
           \/ label = "committed" /\ pc[q] \in {"reported", "annotated"} /\ job' = pending
              /\ pending' = NoJob
           \/ label = "rolledback" /\ pc[q] \in Holding /\ job' = job /\ pending' = NoJob
           \/ label = "rolledback" /\ pc[q] = "loaded" /\ job' = job /\ pending' = pending
    PROVE  IInv'
<1>1. TypeOK /\ pc' = [pc EXCEPT ![q] = label] /\ mem' = [mem EXCEPT ![q] = NoJob]
    BY DEF IInv, Close, GoTo
<1>2. /\ pc'[q] = label
      /\ \A p \in Runs : p # q => pc'[p] = pc[p] /\ mem'[p] = mem[p]
    BY <1>1 DEF TypeOK
<1>3. label \notin Holding /\ label # "loaded"
    BY DEF Holding, Steps
<1>4. pc[q] \in {"reported", "annotated"} => pc[q] \in Holding
    BY DEF Holding
<1>5. pc[q] \in Holding => \A p \in Runs : p # q => pc[p] \notin Holding
    BY DEF IInv, OneHolder
<1>6. TypeOK'
    BY <1>1, <1>4 DEF TypeOK, IInv, HolderIsInSync
<1>7. OneHolder'
    BY <1>2, <1>3 DEF IInv, OneHolder
<1>8. HolderIsInSync'
    BY <1>2, <1>3, <1>4, <1>5 DEF IInv, HolderIsInSync
<1>9. JobIsOver' /\ SnapshotsAreOver'
  <2>1. CASE label = "committed"
    <3>1. /\ pc[q] \in Holding /\ job' = pending /\ mem[q] # NoJob /\ pending # NoJob
          /\ InSync(pending, mem[q]) /\ Over(mem[q]) /\ mem[q].corr = q
          /\ job # NoJob => mem[q].id = job.id
        BY <1>4, <2>1 DEF IInv, HolderIsInSync
    <3>2. Over(job') /\ job'.corr = q /\ job' # NoJob /\ (job # NoJob => job'.id = job.id)
        BY <3>1 DEF Over, InSync
    <3>3. JobIsOver'
        BY <1>2, <2>1, <3>2 DEF JobIsOver, Over
    <3>4. SnapshotsAreOver'
        BY <1>2, <1>3, <3>2 DEF IInv, SnapshotsAreOver
    <3> QED
        BY <3>3, <3>4
  <2>2. CASE label = "rolledback"
    <3>1. job' = job /\ pc[q] # "committed"
        BY <2>2 DEF Holding, Steps
    <3>2. JobIsOver'
        BY <1>1, <1>2, <3>1 DEF IInv, JobIsOver, Over, TypeOK
    <3>3. SnapshotsAreOver'
        BY <1>2, <1>3, <3>1 DEF IInv, SnapshotsAreOver
    <3> QED
        BY <3>2, <3>3
  <2> QED
      BY <2>1, <2>2
<1> QED
    BY <1>6, <1>7, <1>8, <1>9 DEF IInv

-----------------------------------------------------------------------------
(* A report by the holder writes its own values and stays in sync.         *)
LEMMA ReportStep ==
    ASSUME IInv, NEW q \in Runs, pc[q] \in Holding, NEW label \in Holding,
           NEW done \in Seq(StepNames), NEW status \in {"running"} \cup Terminal,
           NEW at \in Steps \cup {"none"}, NEW progress \in 0..100,
           NEW warnings \in SUBSET Sources, NEW errors \in SUBSET Problems,
           NEW summary \in Summary \cup {Nothing},
           Update(q, done, status, at, progress, warnings, errors, summary),
           GoTo(q, label),
           label \in {"reported", "annotated"} =>
               /\ status \in Terminal /\ progress = 100 /\ summary \in Summary
               /\ summary.corr = q /\ summary.status = status
    PROVE  IInv'
<1> DEFINE old == [mem[q] EXCEPT !.completed = @ \o done]
           new == [old EXCEPT !.status = status, !.step = at, !.progress = progress,
                              !.warnings = warnings, !.errors = errors, !.summary = summary,
                              !.ended = status \in Terminal]
<1>1. /\ mem[q] \in Row /\ pending \in Row /\ InSync(pending, mem[q]) /\ mem[q].corr = q
      /\ mem \in [Runs -> Row \cup {NoJob}]
    BY DEF IInv, TypeOK, HolderIsInSync
<1>2. mem[q].completed \o done \in Seq(StepNames)
    BY <1>1 DEF Row
<1>3. old \in Row /\ InSync(pending, old) /\ old.id = mem[q].id /\ old.corr = q
  <2>1. /\ old.id = mem[q].id /\ old.corr = mem[q].corr /\ old.status = mem[q].status
        /\ old.progress = mem[q].progress /\ old.summary = mem[q].summary
        /\ old.ended = mem[q].ended
      BY <1>1 DEF Row
  <2>2. old \in Row
      BY <1>1, <1>2 DEF Row
  <2> QED
      BY <1>1, <2>1, <2>2 DEF InSync
<1> HIDE DEF old
<1>4. /\ new \in Row /\ new.id = old.id /\ new.corr = old.corr /\ new.status = status
      /\ new.progress = progress /\ new.summary = summary /\ (status \in Terminal => new.ended)
  <2> DEFINE ended == status \in Terminal
  <2>1. ended \in BOOLEAN /\ status \in {"queued", "running"} \cup Terminal
      BY DEF Terminal
  <2>2. new = [old EXCEPT !.status = status, !.step = at, !.progress = progress,
                          !.warnings = warnings, !.errors = errors, !.summary = summary,
                          !.ended = ended]
      OBVIOUS
  <2> HIDE DEF ended, new
  <2>3. new \in Row
      BY <1>3, <2>1, <2>2 DEF Row
  <2>4. /\ new.id = old.id /\ new.corr = old.corr /\ new.status = status
        /\ new.progress = progress /\ new.summary = summary /\ new.ended = ended
      BY <1>3, <2>2 DEF Row
  <2> QED
      BY <2>3, <2>4 DEF ended
<1>5. pending' = Flushed(pending, old, new) /\ mem' = [mem EXCEPT ![q] = new]
    BY DEF Update, old
<1> HIDE DEF new
<1>6. mem'[q] = new
    BY <1>1, <1>5
<1>7. pending' \in Row /\ InSync(pending', mem'[q])
    BY <1>1, <1>3, <1>4, <1>5, <1>6, FlushKeepsSync
<1>8. job # NoJob => mem'[q].id = job.id
    BY <1>3, <1>4, <1>6 DEF IInv, HolderIsInSync
<1>9. label \in {"reported", "annotated"} => Over(mem'[q])
    BY <1>3, <1>4, <1>6 DEF Over
<1>10. mem'[q] \in Row /\ mem'[q].corr = q /\ mem' = [mem EXCEPT ![q] = mem'[q]] /\ UNCHANGED job
    BY <1>3, <1>4, <1>5, <1>6 DEF Update
<1> QED
    BY <1>7, <1>8, <1>9, <1>10, HolderStep

(* The row is taken with the holder's own values in every column that      *)
(* matters.                                                                *)
LEMMA TakeStep ==
    ASSUME IInv, NEW q \in Runs, Create(q) \/ Restart(q)
    PROVE  IInv'
<1>1. TypeOK /\ pc[q] = "loaded" /\ Free /\ GoTo(q, "created") /\ UNCHANGED job
      /\ "created" \in Holding
    BY DEF IInv, Create, Restart, Holding
<1>2. CASE Create(q)
  <2>1. Queued(q, q) \in Row /\ Queued(q, q).corr = q
      BY DEF Queued, Row, StepNames, Steps
  <2>2. pending' = Queued(q, q) /\ mem'[q] = Queued(q, q) /\ job = NoJob
        /\ mem' = [mem EXCEPT ![q] = Queued(q, q)]
      BY <1>1, <1>2 DEF Create, TypeOK
  <2> QED
      BY <1>1, <2>1, <2>2, HolderStep DEF InSync
<1>3. CASE Restart(q)
  <2> DEFINE new == Queued(q, mem[q].id)
  <2>1. mem[q] \in Row /\ job \in Row /\ job # NoJob /\ mem[q].id = job.id /\ Over(mem[q])
        /\ mem[q].corr # q
      BY <1>1, <1>3 DEF Restart, IInv, SnapshotsAreOver, TypeOK
  <2>2. new \in Row /\ new.corr = q /\ new.id = mem[q].id
      BY <2>1 DEF Queued, Row, StepNames, Steps
  <2>3. Flushed(job, mem[q], new) \in Row /\ InSync(Flushed(job, mem[q], new), new)
      BY <2>1, ResetTakesTheRow
  <2> HIDE DEF new
  <2>4. pending' = Flushed(job, mem[q], new) /\ mem' = [mem EXCEPT ![q] = new]
      BY <1>3 DEF Restart, new
  <2>5. mem'[q] = new
      BY <1>1, <2>4 DEF TypeOK
  <2> QED
      BY <1>1, <2>1, <2>2, <2>3, <2>4, <2>5, HolderStep
<1> QED
    BY <1>2, <1>3

LEMMA LoadStep ==
    ASSUME IInv, NEW q \in Runs, Load(q)
    PROVE  IInv'
<1>1. /\ TypeOK /\ pc' = [pc EXCEPT ![q] = "loaded"] /\ mem' = [mem EXCEPT ![q] = job]
      /\ pc[q] = "idle" /\ UNCHANGED <<job, pending>>
    BY DEF IInv, Load, GoTo
<1>2. /\ pc'[q] = "loaded" /\ mem'[q] = job
      /\ \A p \in Runs : p # q => pc'[p] = pc[p] /\ mem'[p] = mem[p]
    BY <1>1 DEF TypeOK
<1>3. "loaded" \notin Holding
    BY DEF Holding, Steps
<1>4. job # NoJob => Over(job) /\ job.corr # q
    BY <1>1 DEF IInv, JobIsOver
<1>5. TypeOK'
    BY <1>1 DEF TypeOK
<1>6. OneHolder' /\ HolderIsInSync'
    BY <1>1, <1>2, <1>3 DEF IInv, OneHolder, HolderIsInSync
<1>7. SnapshotsAreOver'
    BY <1>1, <1>2, <1>4 DEF IInv, SnapshotsAreOver
<1>8. JobIsOver'
    BY <1>1, <1>2 DEF IInv, JobIsOver, Over, TypeOK
<1> QED
    BY <1>5, <1>6, <1>7, <1>8 DEF IInv

(* The steps of the run between the reset and the commit.                  *)
LEMMA RunStep ==
    ASSUME IInv, NEW q \in Runs,
           \/ Begin(q) \/ SyncShop(q) \/ NoTrendSources(q) \/ Recommend(q) \/ Annotate(q)
           \/ \E down \in SUBSET Sources : Ingest(q, down)
           \/ \E failed \in SUBSET {"enrichment"} : Enrich(q, failed)
    PROVE  IInv'
<1>1. pc[q] \in Holding /\ mem[q] \in Row
  <2>1. pc[q] \in Holding
      BY DEF Begin, SyncShop, NoTrendSources, Recommend, Annotate, Ingest, Enrich, Holding, Steps
  <2> QED
      BY <2>1 DEF IInv, TypeOK, HolderIsInSync
<1>2. /\ mem[q].warnings \in SUBSET Sources /\ mem[q].errors \in SUBSET Problems
      /\ mem[q].summary \in Summary \cup {Nothing}
    BY <1>1 DEF Row
<1>3. /\ Steps \subseteq Holding /\ "reported" \in Holding /\ "annotated" \in Holding
      /\ \A s \in Steps : s \notin {"reported", "annotated"}
      /\ Steps = {"shop_sync", "trend_sources", "parallel_enrichment", "scoring"}
      /\ Terminal = {"succeeded", "partial", "failed"}
    BY DEF Holding, Steps, Terminal
<1>4. /\ << >> \in Seq(StepNames) /\ <<"shop_sync">> \in Seq(StepNames)
      /\ <<"trend_sources", "candidate_normalization">> \in Seq(StepNames)
      /\ <<"parallel_enrichment">> \in Seq(StepNames)
      /\ <<"scoring", "ranking", "recommendations">> \in Seq(StepNames)
    BY DEF StepNames, Steps
<1>6. ASSUME NEW done \in Seq(StepNames), NEW at \in Steps, NEW progress \in 0..100,
             NEW warnings \in SUBSET Sources, NEW errors \in SUBSET Problems,
             Checkpoint(q, done, at, progress, warnings, errors)
      PROVE  IInv'
    BY <1>1, <1>2, <1>3, <1>6, ReportStep DEF Checkpoint, Steps
<1>7. ASSUME NEW done \in Seq(StepNames), NEW status \in Terminal, NEW at \in Steps \cup {"none"},
             NEW warnings \in SUBSET Sources, NEW errors \in SUBSET Problems,
             Conclude(q, done, status, at, warnings, errors)
      PROVE  IInv'
  <2> DEFINE summary == [corr |-> q, status |-> status, warnings |-> Cardinality(warnings),
                         errors |-> Cardinality(errors), searched |-> FALSE]
  <2>1. IsFiniteSet(warnings) /\ IsFiniteSet(errors)
    <3>1. IsFiniteSet(Problems)
      <4>1. IsFiniteSet({"no_trend_sources"}) /\ IsFiniteSet({"enrichment"})
          BY FS_Singleton
      <4>2. Problems = {"no_trend_sources"} \cup {"enrichment"}
          BY DEF Problems
      <4> QED
          BY <4>1, <4>2, FS_Union
    <3> QED
        BY <3>1, SourcesAssumption, FS_Subset
  <2>2. Cardinality(warnings) \in Nat /\ Cardinality(errors) \in Nat
      BY <2>1, FS_CardinalityType
  <2>3. summary \in Summary /\ summary.corr = q /\ summary.status = status
      BY <2>2 DEF Summary
  <2>4. Update(q, done, status, at, 100, warnings, errors, summary) /\ GoTo(q, "reported")
      BY <1>7 DEF Conclude
  <2>5. /\ status \in {"running"} \cup Terminal /\ summary \in Summary \cup {Nothing}
        /\ 100 \in 0..100 /\ "reported" \in Holding
      BY <1>3, <2>3
  <2> HIDE DEF summary
  <2> QED
      BY <1>1, <2>3, <2>4, <2>5, ReportStep
<1>8. CASE Begin(q)
  <2>1. Checkpoint(q, << >>, "shop_sync", 5, {}, {})
      BY <1>8 DEF Begin
  <2>2. "shop_sync" \in Steps /\ 5 \in 0..100 /\ {} \in SUBSET Sources /\ {} \in SUBSET Problems
      BY DEF Steps
  <2> QED
      BY <1>4, <1>6, <2>1, <2>2
<1>9. CASE SyncShop(q)
  <2>1. Checkpoint(q, <<"shop_sync">>, "trend_sources", 15, {}, {})
      BY <1>9 DEF SyncShop
  <2>2. "trend_sources" \in Steps /\ 15 \in 0..100 /\ {} \in SUBSET Sources /\ {} \in SUBSET Problems
      BY DEF Steps
  <2> QED
      BY <1>4, <1>6, <2>1, <2>2
<1>10. CASE NoTrendSources(q)
  <2>1. Conclude(q, << >>, "failed", "trend_sources", Sources, {"no_trend_sources"})
      BY <1>10 DEF NoTrendSources
  <2>2. /\ "trend_sources" \in Steps \cup {"none"} /\ "failed" \in Terminal
        /\ Sources \in SUBSET Sources /\ {"no_trend_sources"} \in SUBSET Problems
      BY DEF Steps, Terminal, Problems
  <2> QED
      BY <1>4, <1>7, <2>1, <2>2
<1>11. CASE \E down \in SUBSET Sources : Ingest(q, down)
  <2>1. PICK down \in SUBSET Sources : Ingest(q, down)
      BY <1>11
  <2>2. Checkpoint(q, <<"trend_sources", "candidate_normalization">>,
                   "parallel_enrichment", 45, down, {})
      BY <2>1 DEF Ingest
  <2>3. "parallel_enrichment" \in Steps /\ 45 \in 0..100 /\ {} \in SUBSET Problems
      BY DEF Steps
  <2> QED
      BY <1>4, <1>6, <2>2, <2>3
<1>12. CASE \E failed \in SUBSET {"enrichment"} : Enrich(q, failed)
  <2>1. PICK failed \in SUBSET {"enrichment"} : Enrich(q, failed)
      BY <1>12
  <2>2. Checkpoint(q, <<"parallel_enrichment">>, "scoring", 70, mem[q].warnings, failed)
      BY <2>1 DEF Enrich
  <2>3. "scoring" \in Steps /\ 70 \in 0..100 /\ failed \in SUBSET Problems
      BY DEF Steps, Problems
  <2> QED
      BY <1>2, <1>4, <1>6, <2>2, <2>3
<1>13. CASE Recommend(q)
  <2> DEFINE status == IF mem[q].errors # {} \/ mem[q].warnings # {} THEN "partial" ELSE "succeeded"
  <2>1. Conclude(q, <<"scoring", "ranking", "recommendations">>, status, "none",
                 mem[q].warnings, mem[q].errors)
      BY <1>13 DEF Recommend
  <2>2. status \in Terminal /\ "none" \in Steps \cup {"none"}
      BY DEF Terminal
  <2> HIDE DEF status
  <2> QED
      BY <1>2, <1>4, <1>7, <2>1, <2>2
<1>14. CASE Annotate(q)
  <2> DEFINE new == [mem[q] EXCEPT !.summary.searched = TRUE]
  <2>1. Over(mem[q]) /\ InSync(pending, mem[q]) /\ pending \in Row /\ mem[q].corr = q
        /\ (job # NoJob => mem[q].id = job.id)
      BY <1>1, <1>14 DEF Annotate, IInv, HolderIsInSync, TypeOK
  <2>2. /\ new.summary \in Summary /\ new.summary.corr = mem[q].summary.corr
        /\ new.summary.status = mem[q].summary.status
      BY <1>1, <2>1 DEF Over, Summary, Row
  <2>3. /\ new.id = mem[q].id /\ new.corr = mem[q].corr /\ new.status = mem[q].status
        /\ new.progress = mem[q].progress /\ new.ended = mem[q].ended
      BY <1>1 DEF Row
  <2>4. new \in Row
      BY <1>1, <2>2 DEF Row
  <2> HIDE DEF new
  <2>5. Over(new)
      BY <2>1, <2>2, <2>3 DEF Over
  <2>6. pending' = Flushed(pending, mem[q], new) /\ mem' = [mem EXCEPT ![q] = new]
        /\ GoTo(q, "annotated") /\ UNCHANGED job
      BY <1>14 DEF Annotate, new
  <2>7. mem'[q] = new
      BY <2>6 DEF IInv, TypeOK
  <2>8. pending' \in Row /\ InSync(pending', new)
      BY <1>1, <2>1, <2>3, <2>4, <2>6, FlushKeepsSync
  <2> QED
      BY <1>1, <1>3, <2>1, <2>3, <2>4, <2>5, <2>6, <2>7, <2>8, HolderStep
<1> QED
    BY <1>8, <1>9, <1>10, <1>11, <1>12, <1>13, <1>14

-----------------------------------------------------------------------------
(* IInv, and with it all that is proved here, holds in every state, for    *)
(* any number of runs that share a key.                                    *)
THEOREM Invariance == Spec => []IInv
<1>1. Init => IInv
  <2> SUFFICES ASSUME Init PROVE IInv
      OBVIOUS
  <2>1. \A q \in Runs : pc[q] = "idle" /\ mem[q] = NoJob
      BY DEF Init
  <2>2. TypeOK
      BY DEF Init, TypeOK
  <2>3. JobIsOver
      BY DEF Init, JobIsOver
  <2>4. OneHolder /\ SnapshotsAreOver /\ HolderIsInSync
      BY <2>1 DEF OneHolder, SnapshotsAreOver, HolderIsInSync, Holding, Steps
  <2> QED
      BY <2>2, <2>3, <2>4 DEF IInv
<1>2. IInv /\ [Next]_vars => IInv'
  <2> SUFFICES ASSUME IInv, [Next]_vars PROVE IInv'
      OBVIOUS
  <2>1. CASE UNCHANGED vars
      BY <2>1 DEF vars, IInv, TypeOK, JobIsOver, OneHolder, SnapshotsAreOver, HolderIsInSync
  <2>2. ASSUME NEW q \in Runs, Load(q) \/ Proceed(q) \/ Annotate(q) \/ Rollback(q)
        PROVE  IInv'
    <3>1. CASE Load(q)
        BY <3>1, LoadStep
    <3>2. CASE Create(q) \/ Restart(q)
        BY <3>2, TakeStep
    <3>3. CASE CreateConflict(q)
        BY <3>3, EndStep DEF CreateConflict
    <3>4. CASE CommitRun(q)
        BY <3>4, EndStep DEF CommitRun
    <3>5. CASE Rollback(q)
      <4>1. /\ Close(q, "rolledback") /\ job' = job
            /\ \/ pc[q] \in Holding /\ pending' = NoJob
               \/ pc[q] = "loaded" /\ pending' = pending
          BY <3>5 DEF Rollback, Holding, Steps
      <4> QED
          BY <4>1, EndStep
    <3>6. CASE \/ Begin(q) \/ SyncShop(q) \/ NoTrendSources(q) \/ Recommend(q) \/ Annotate(q)
               \/ \E down \in SUBSET Sources : Ingest(q, down)
               \/ \E failed \in SUBSET {"enrichment"} : Enrich(q, failed)
        BY <3>6, RunStep
    <3> QED
        BY <2>2, <3>1, <3>2, <3>3, <3>4, <3>5, <3>6 DEF Proceed
  <2> QED
      BY <2>1, <2>2 DEF Next, Quiet
<1> QED
    BY <1>1, <1>2, PTL DEF Spec

(* The row, the unit of work and the sessions keep their shape.            *)
THEOREM TypeCorrect == Spec => []TypeOK
<1>1. IInv => TypeOK
    BY DEF IInv
<1> QED
    BY <1>1, Invariance, PTL

(* Status, correlation id and summary of the row are of one run, although  *)
(* runs write to the row relative to what they loaded before they waited.  *)
THEOREM SummaryMatchesTheRow == Spec => []SummaryIsOfTheRun
<1>1. IInv => SummaryIsOfTheRun
    BY DEF IInv, JobIsOver, Over, SummaryIsOfTheRun
<1> QED
    BY <1>1, Invariance, PTL

-----------------------------------------------------------------------------
(* Warnings and errors are the columns in which a row may keep what        *)
(* another run has left: a reset does not dirty them if the session loaded *)
(* an empty list.  But then the run has none itself; and a run that has    *)
(* some has written them.                                                  *)
KeepsProblems(row, o) ==
    /\ o.warnings # {} => row.warnings = o.warnings
    /\ o.errors # {} => row.errors = o.errors

Counted(o) ==
    /\ o.summary.warnings = Cardinality(o.warnings)
    /\ o.summary.errors = Cardinality(o.errors)

ProblemsAreKept ==
    \A q \in Runs : pc[q] \in Holding =>
        /\ KeepsProblems(pending, mem[q])
        /\ pc[q] \in {"reported", "annotated"} => Counted(mem[q])

LEMMA FlushKeepsProblems ==
    ASSUME NEW row, NEW old, NEW new, KeepsProblems(row, old)
    PROVE  KeepsProblems(Flushed(row, old, new), new)
<1>1. /\ Flushed(row, old, new).warnings = Column(old.warnings, new.warnings, row.warnings)
      /\ Flushed(row, old, new).errors = Column(old.errors, new.errors, row.errors)
    BY DEF Flushed
<1> QED
    BY <1>1 DEF KeepsProblems, Column

(* The holder, or the run that becomes it, has kept its problems.          *)
LEMMA HolderKeepsProblems ==
    ASSUME IInv, ProblemsAreKept, NEW q \in Runs, NEW label \in Holding,
           pc[q] \in Holding \/ (pc[q] = "loaded" /\ Free),
           NEW new, mem' = [mem EXCEPT ![q] = new], KeepsProblems(pending', new),
           label \in {"reported", "annotated"} => Counted(new),
           GoTo(q, label)
    PROVE  ProblemsAreKept'
<1>1. /\ pc'[q] = label /\ mem'[q] = new
      /\ \A p \in Runs : p # q => pc'[p] = pc[p] /\ pc[p] \notin Holding
    BY DEF IInv, TypeOK, OneHolder, Free, GoTo
<1>2. KeepsProblems(pending', mem'[q]) /\ (label \in {"reported", "annotated"} => Counted(mem'[q]))
    BY <1>1
<1> QED
    BY <1>1, <1>2 DEF ProblemsAreKept, KeepsProblems, Counted

LEMMA ReportKeepsProblems ==
    ASSUME IInv, ProblemsAreKept, NEW q \in Runs, pc[q] \in Holding, NEW label \in Holding,
           NEW done, NEW status, NEW at, NEW progress, NEW warnings, NEW errors, NEW summary,
           Update(q, done, status, at, progress, warnings, errors, summary),
           GoTo(q, label),
           label \in {"reported", "annotated"} =>
               summary.warnings = Cardinality(warnings) /\ summary.errors = Cardinality(errors)
    PROVE  ProblemsAreKept'
<1> DEFINE old == [mem[q] EXCEPT !.completed = @ \o done]
           new == [old EXCEPT !.status = status, !.step = at, !.progress = progress,
                              !.warnings = warnings, !.errors = errors, !.summary = summary,
                              !.ended = status \in Terminal]
<1>1. mem[q] \in Row /\ KeepsProblems(pending, mem[q])
    BY DEF IInv, TypeOK, HolderIsInSync, ProblemsAreKept
<1>2. old.warnings = mem[q].warnings /\ old.errors = mem[q].errors
      /\ DOMAIN old = DOMAIN mem[q]
    BY <1>1 DEF Row
<1>3. new.warnings = warnings /\ new.errors = errors /\ new.summary = summary
    BY <1>1, <1>2 DEF Row
<1>4. pending' = Flushed(pending, old, new) /\ mem' = [mem EXCEPT ![q] = new]
    BY DEF Update
<1> HIDE DEF old, new
<1>5. KeepsProblems(pending', new)
    BY <1>1, <1>2, <1>4, FlushKeepsProblems DEF KeepsProblems
<1>6. label \in {"reported", "annotated"} => Counted(new)
    BY <1>3 DEF Counted
<1> QED
    BY <1>4, <1>5, <1>6, HolderKeepsProblems

LEMMA StepKeepsProblems ==
    ASSUME IInv, ProblemsAreKept, NEW q \in Runs,
           Load(q) \/ Proceed(q) \/ Annotate(q) \/ Rollback(q)
    PROVE  ProblemsAreKept'
<1>1. CASE Load(q)
  <2>1. /\ pc'[q] = "loaded" /\ "loaded" \notin Holding /\ pending' = pending
        /\ \A p \in Runs : p # q => pc'[p] = pc[p] /\ mem'[p] = mem[p]
      BY <1>1 DEF Load, GoTo, IInv, TypeOK, Holding, Steps
  <2> QED
      BY <2>1 DEF ProblemsAreKept
<1>2. CASE Create(q) \/ Restart(q)
  <2>1. PICK id : mem' = [mem EXCEPT ![q] = Queued(q, id)]
      BY <1>2 DEF Create, Restart
  <2>2. KeepsProblems(pending', Queued(q, id))
      BY DEF KeepsProblems, Queued
  <2>3. /\ GoTo(q, "created") /\ pc[q] = "loaded" /\ Free /\ "created" \in Holding
        /\ "created" \notin {"reported", "annotated"}
      BY <1>2 DEF Create, Restart, Holding
  <2> QED
      BY <2>1, <2>2, <2>3, HolderKeepsProblems
<1>3. CASE CreateConflict(q) \/ CommitRun(q) \/ Rollback(q)
  <2>1. /\ pc'[q] \notin Holding
        /\ \A p \in Runs : p # q => pc'[p] = pc[p] /\ mem'[p] = mem[p]
        /\ pc[q] \in Holding \/ pending' = pending
      BY <1>3 DEF CreateConflict, CommitRun, Rollback, Close, GoTo, IInv, TypeOK, Holding, Steps
  <2> QED
      BY <2>1 DEF ProblemsAreKept, IInv, OneHolder
<1>4. ASSUME NEW done, NEW at \in Steps, NEW progress, NEW warnings, NEW errors,
             pc[q] \in Holding, Checkpoint(q, done, at, progress, warnings, errors)
      PROVE  ProblemsAreKept'
  <2>1. at \in Holding /\ at \notin {"reported", "annotated"}
      BY DEF Holding, Steps
  <2>2. Update(q, done, "running", at, progress, warnings, errors, mem[q].summary)
        /\ GoTo(q, at)
      BY <1>4 DEF Checkpoint
  <2> QED
      BY <1>4, <2>1, <2>2, ReportKeepsProblems
<1>5. ASSUME NEW done, NEW status, NEW at, NEW warnings, NEW errors,
             pc[q] \in Holding, Conclude(q, done, status, at, warnings, errors)
      PROVE  ProblemsAreKept'
  <2> DEFINE summary == [corr |-> q, status |-> status, warnings |-> Cardinality(warnings),
                         errors |-> Cardinality(errors), searched |-> FALSE]
  <2>1. Update(q, done, status, at, 100, warnings, errors, summary) /\ GoTo(q, "reported")
      BY <1>5 DEF Conclude
  <2>2. /\ summary.warnings = Cardinality(warnings) /\ summary.errors = Cardinality(errors)
        /\ "reported" \in Holding
      BY DEF Holding
  <2> HIDE DEF summary
  <2> QED
      BY <1>5, <2>1, <2>2, ReportKeepsProblems
<1>6. CASE Begin(q) \/ SyncShop(q) \/ (\E down \in SUBSET Sources : Ingest(q, down))
           \/ (\E failed \in SUBSET {"enrichment"} : Enrich(q, failed))
    BY <1>4, <1>6 DEF Begin, SyncShop, Ingest, Enrich, Holding, Steps
<1>7. CASE NoTrendSources(q) \/ Recommend(q)
    BY <1>5, <1>7 DEF NoTrendSources, Recommend, Holding, Steps
<1>8. CASE Annotate(q)
  <2> DEFINE new == [mem[q] EXCEPT !.summary.searched = TRUE]
  <2>1. /\ pc[q] \in Holding /\ pc[q] \in {"reported", "annotated"} /\ mem[q] \in Row
        /\ mem[q].summary \in Summary /\ KeepsProblems(pending, mem[q]) /\ Counted(mem[q])
      BY <1>8 DEF Annotate, Holding, IInv, TypeOK, HolderIsInSync, Over, ProblemsAreKept
  <2>2. /\ new.warnings = mem[q].warnings /\ new.errors = mem[q].errors
        /\ new.summary.warnings = mem[q].summary.warnings
        /\ new.summary.errors = mem[q].summary.errors
      BY <2>1 DEF Row, Summary
  <2>3. /\ pending' = Flushed(pending, mem[q], new) /\ mem' = [mem EXCEPT ![q] = new]
        /\ GoTo(q, "annotated") /\ "annotated" \in Holding
      BY <1>8 DEF Annotate, Holding
  <2> HIDE DEF new
  <2>4. KeepsProblems(pending', new) /\ Counted(new)
      BY <2>1, <2>2, <2>3, FlushKeepsProblems DEF Counted
  <2> QED
      BY <2>1, <2>3, <2>4, HolderKeepsProblems
<1> QED
    BY <1>1, <1>2, <1>3, <1>6, <1>7, <1>8 DEF Proceed

(* A run that met problems leaves them in the row, although a flush leaves *)
(* out the columns that the session believes unchanged.                    *)
THEOREM ProblemsReachTheRow == Spec => []ProblemsAreReported
<1>1. Init => ProblemsAreKept /\ ProblemsAreReported
    BY DEF Init, ProblemsAreKept, ProblemsAreReported, Holding, Steps
<1>2. IInv /\ ProblemsAreKept /\ ProblemsAreReported /\ [Next]_vars
      => ProblemsAreKept' /\ ProblemsAreReported'
  <2> SUFFICES ASSUME IInv, ProblemsAreKept, ProblemsAreReported, [Next]_vars
               PROVE  ProblemsAreKept' /\ ProblemsAreReported'
      OBVIOUS
  <2>1. CASE UNCHANGED vars
      BY <2>1 DEF vars, ProblemsAreKept, ProblemsAreReported
  <2>2. ASSUME NEW q \in Runs, Load(q) \/ Proceed(q) \/ Annotate(q) \/ Rollback(q)
        PROVE  ProblemsAreKept' /\ ProblemsAreReported'
    <3>1. ProblemsAreKept'
        BY <2>2, StepKeepsProblems
    <3>2. CASE CommitRun(q)
      <4>1. /\ pc[q] \in Holding /\ KeepsProblems(pending, mem[q]) /\ Counted(mem[q])
            /\ pending.summary = mem[q].summary /\ job' = pending
          BY <3>2 DEF CommitRun, Holding, ProblemsAreKept, IInv, HolderIsInSync, InSync
      <4>2. Cardinality({}) = 0
          BY FS_EmptySet
      <4>3. /\ job'.summary.warnings > 0 => Cardinality(job'.warnings) = job'.summary.warnings
            /\ job'.summary.errors > 0 => Cardinality(job'.errors) = job'.summary.errors
          BY <4>1, <4>2 DEF KeepsProblems, Counted
      <4> QED
          BY <3>1, <4>3 DEF ProblemsAreReported
    <3>3. CASE ~CommitRun(q)
      <4>1. \A done, status, at, progress, warnings, errors, summary :
                Update(q, done, status, at, progress, warnings, errors, summary) => job' = job
          BY DEF Update
      <4>2. /\ \A done, at, progress, warnings, errors :
                   Checkpoint(q, done, at, progress, warnings, errors) => job' = job
            /\ \A done, status, at, warnings, errors :
                   Conclude(q, done, status, at, warnings, errors) => job' = job
          BY <4>1, Zenon DEF Checkpoint, Conclude
      <4>3. job' = job
          BY <2>2, <3>3, <4>2 DEF Proceed, Load, Create, CreateConflict, Restart, Begin, SyncShop,
             NoTrendSources, Ingest, Enrich, Recommend, Annotate, Rollback
      <4> QED
          BY <3>1, <4>3 DEF ProblemsAreReported
    <3> QED
        BY <3>2, <3>3
  <2> QED
      BY <2>1, <2>2 DEF Next, Quiet
<1> QED
    BY <1>1, <1>2, Invariance, PTL DEF Spec

(* Once a key names a job it names that job for ever.                      *)
THEOREM IdentityIsKept == Spec => JobKeepsItsIdentity
<1>1. IInv /\ [Next]_vars => [job # NoJob => job' # NoJob /\ job'.id = job.id]_vars
  <2> SUFFICES ASSUME IInv, Next, job # NoJob PROVE job' # NoJob /\ job'.id = job.id
      BY DEF vars
  <2>1. CASE UNCHANGED job
      BY <2>1
  <2>2. CASE \E q \in Runs : CommitRun(q)
    <3>1. PICK q \in Runs : CommitRun(q)
        BY <2>2
    <3>2. pc[q] \in Holding /\ job' = pending
        BY <3>1 DEF CommitRun, Holding
    <3> QED
        BY <3>2 DEF IInv, HolderIsInSync, InSync
  <2> QED
      BY <2>1, <2>2 DEF Next, Proceed, Quiet, vars, Load, Create, CreateConflict, Restart, Begin,
         SyncShop, NoTrendSources, Ingest, Enrich, Recommend, Annotate, Rollback, Checkpoint,
         Conclude, Update
<1> QED
    BY <1>1, Invariance, PTL DEF Spec, JobKeepsItsIdentity

-----------------------------------------------------------------------------
(* The records of agents.                                                  *)
Most == Max(Costs)

LEMMA MostIsMost == Most \in Nat /\ \A cost \in Costs : cost \in Nat /\ cost <= Most
<1>1. \E most \in Costs : \A cost \in Costs : most >= cost
    BY CostsAssumption
<1>2. Most \in Costs /\ \A cost \in Costs : Most >= cost
    BY <1>1 DEF Most, Max
<1> QED
    BY <1>2, CostsAssumption

(* A record of a run that is over, as the row is written.                  *)
Closed(row) ==
    /\ row \in Record
    /\ row.status \in {"succeeded", "failed"}
    /\ row.status = "failed" <=> row.error # "none"
    /\ row.status = "succeeded" <=> row.output
    /\ row.status = "succeeded" => row.cost <= Maximum
    /\ row.error = "budget" <=> row.cost > Maximum
    /\ row.cost <= Maximum + Most

Begun == [status |-> "running", output |-> FALSE, cost |-> 0, error |-> "none"]

Typed ==
    /\ active \in Agents \cup {NoRow}
    /\ step \in {"none", "calling", "checking", "raising"}
    /\ step = "none" <=> active = NoRow
    /\ spent \in Nat /\ used \in Nat /\ repairs \in 0..MaxRepairs
    /\ DOMAIN rows = Agents /\ rows = [a \in Agents |-> rows[a]]
    /\ txn \in {"open", "committed", "rolledback"}

(* Each repair may have cost what the dearest call does.                   *)
SpendingIsBounded ==
    /\ spent <= (MaxRepairs + 1) * Most /\ used <= (MaxRepairs + 1) * Most
    /\ step = "calling" => used = spent /\ spent <= Maximum /\ spent <= repairs * Most

(* Only the run that is calling has a record that is not over, and nothing *)
(* is under way when the transaction has ended.                            *)
RecordsAreOver ==
    /\ \A a \in Agents : \/ rows[a] = NoRow /\ a # active
                         \/ Closed(rows[a]) /\ (a = active => step # "calling")
                         \/ rows[a] = Begun /\ a = active /\ step = "calling"
    /\ txn # "open" => active = NoRow

AgentInv == Typed /\ SpendingIsBounded /\ RecordsAreOver

-----------------------------------------------------------------------------
(* One call more than the repairs so far.                                  *)
LEMMA OneMoreCall ==
    ASSUME NEW r \in 0..MaxRepairs, NEW s \in Nat, s <= r * Most, NEW cost \in Costs
    PROVE  /\ s + cost \in Nat /\ s + cost <= (r + 1) * Most
           /\ s + cost <= (MaxRepairs + 1) * Most
<1>1. Most \in Nat /\ cost \in Nat /\ cost <= Most /\ MaxRepairs \in Nat /\ r \in Nat
    BY MostIsMost, BoundsAssumption
<1>2. (r + 1) * Most = r * Most + Most /\ r * Most \in Nat
    BY <1>1
<1>3. (r + 1) * Most <= (MaxRepairs + 1) * Most
  <2>1. PICK d \in Nat : MaxRepairs = r + d
    <3>1. MaxRepairs - r \in Nat /\ MaxRepairs = r + (MaxRepairs - r)
        BY <1>1
    <3> QED
        BY <3>1
  <2>2. (MaxRepairs + 1) * Most = (r + 1) * Most + d * Most /\ d * Most \in Nat
      BY <1>1, <2>1
  <2>3. (r + 1) * Most \in Nat
      BY <1>1
  <2> QED
      BY <2>2, <2>3
<1>4. s + cost <= (r + 1) * Most
    BY <1>1, <1>2
<1>5. (r + 1) * Most \in Nat /\ (MaxRepairs + 1) * Most \in Nat
    BY <1>1
<1> QED
    BY <1>1, <1>3, <1>4, <1>5

LEMMA NoAgentRanIsSound == NoAgentRan => AgentInv
<1> SUFFICES ASSUME NoAgentRan PROVE AgentInv
    OBVIOUS
<1>1. 0 \in 0..MaxRepairs /\ (MaxRepairs + 1) * Most \in Nat
    BY MostIsMost, BoundsAssumption
<1> QED
    BY <1>1, NoRowAssumption DEF NoAgentRan, AgentInv, Typed, SpendingIsBounded, RecordsAreOver

LEMMA StartKeepsIInv ==
    ASSUME AgentInv, NEW a \in Agents, Start(a)
    PROVE  AgentInv'
<1>1. a # NoRow
    BY NoRowAssumption
<1>2. 0 \in 0..MaxRepairs /\ (MaxRepairs + 1) * Most \in Nat /\ 0 * Most = 0
    BY MostIsMost, BoundsAssumption
<1>3. Typed'
    BY <1>1, <1>2 DEF Start, AgentInv, Typed
<1>4. SpendingIsBounded'
    BY <1>2, BoundsAssumption DEF Start, SpendingIsBounded
<1>5. RecordsAreOver'
    BY <1>1 DEF Start, AgentInv, Typed, RecordsAreOver, Begun, Closed
<1> QED
    BY <1>3, <1>4, <1>5 DEF AgentInv

(* The record of the calling run is written as one that is over.           *)
LEMMA RecordingKeepsRecords ==
    ASSUME AgentInv, step = "calling", NEW row, Closed(row), active' = active, txn' = txn,
           step' \in {"checking", "raising"}, rows' = [rows EXCEPT ![active] = row]
    PROVE  RecordsAreOver' /\ DOMAIN rows' = Agents /\ rows' = [a \in Agents |-> rows'[a]]
<1>1. active \in Agents
    BY DEF AgentInv, Typed
<1>2. rows' = [a \in Agents |-> IF a = active THEN row ELSE rows[a]]
    BY <1>1 DEF AgentInv, Typed
<1> QED
    BY <1>1, <1>2 DEF AgentInv, RecordsAreOver, Closed

LEMMA FailedIsOver ==
    ASSUME NEW error \in {"schema", "budget", "provider"}, NEW cost \in Nat,
           cost <= Maximum + Most, error = "budget" <=> cost > Maximum
    PROVE  Closed([status |-> "failed", output |-> FALSE, cost |-> cost, error |-> error])
BY DEF Closed, Record, Errors

(* Repair: within the budget the run fails for its schema, or asks again.  *)
LEMMA RepairKeepsRecords ==
    ASSUME AgentInv, step = "calling", NEW cost \in Nat, cost <= Maximum, Repair(cost),
           active' = active, txn' = txn
    PROVE  /\ RecordsAreOver' /\ DOMAIN rows' = Agents /\ rows' = [a \in Agents |-> rows'[a]]
           /\ \/ step' = "raising" /\ repairs' = repairs
              \/ step' = "calling" /\ repairs' = repairs + 1 /\ repairs' \in 0..MaxRepairs
<1>1. CASE repairs >= MaxRepairs
  <2>1. Fail("schema", cost) /\ repairs' = repairs
      BY <1>1 DEF Repair
  <2>2. Closed([status |-> "failed", output |-> FALSE, cost |-> cost, error |-> "schema"])
      BY FailedIsOver, BoundsAssumption, MostIsMost
  <2> QED
      BY <2>1, <2>2, RecordingKeepsRecords DEF Fail
<1>2. CASE ~(repairs >= MaxRepairs)
  <2>1. repairs' = repairs + 1 /\ UNCHANGED <<step, rows>>
      BY <1>2 DEF Repair
  <2>2. repairs' \in 0..MaxRepairs
      BY <1>2, <2>1, BoundsAssumption DEF AgentInv, Typed
  <2> QED
      BY <2>1, <2>2 DEF AgentInv, Typed, RecordsAreOver, Closed
<1> QED
    BY <1>1, <1>2

-----------------------------------------------------------------------------
LEMMA RespondKeepsIInv ==
    ASSUME AgentInv, step = "calling", NEW cost \in Costs,
           used' = used + cost, active' = active, txn' = txn,
           \/ ~Reserves(cost) /\ Fail("budget", used + cost) /\ UNCHANGED <<spent, repairs>>
           \/ Reserves(cost) /\ spent' = spent + cost /\ Repair(used + cost)
           \/ /\ Reserves(cost) /\ spent' = spent + cost /\ step' = "checking"
              /\ rows' = [rows EXCEPT ![active] = [status |-> "succeeded", output |-> TRUE,
                                                   cost |-> used + cost, error |-> "none"]]
              /\ UNCHANGED repairs
    PROVE  AgentInv'
<1>1. /\ cost \in Nat /\ cost <= Most /\ Most \in Nat /\ Maximum \in Nat /\ MaxRepairs \in Nat
      /\ used = spent /\ spent \in Nat /\ spent <= Maximum
      /\ repairs \in 0..MaxRepairs /\ spent <= repairs * Most
    BY MostIsMost, BoundsAssumption DEF AgentInv, Typed, SpendingIsBounded
<1>2. /\ spent + cost \in Nat /\ spent + cost <= (repairs + 1) * Most
      /\ spent + cost <= (MaxRepairs + 1) * Most
    BY <1>1, OneMoreCall
<1>3. spent <= (MaxRepairs + 1) * Most /\ active \in Agents /\ active # NoRow
    BY NoRowAssumption DEF AgentInv, SpendingIsBounded, Typed
<1>4. CASE ~Reserves(cost) /\ Fail("budget", used + cost) /\ UNCHANGED <<spent, repairs>>
  <2>1. used + cost \in Nat /\ used + cost > Maximum /\ used + cost <= Maximum + Most
      BY <1>1, <1>4 DEF Reserves
  <2>2. Closed([status |-> "failed", output |-> FALSE, cost |-> used + cost, error |-> "budget"])
      BY <2>1, FailedIsOver
  <2>3. /\ step' = "raising" /\ RecordsAreOver' /\ DOMAIN rows' = Agents
        /\ rows' = [a \in Agents |-> rows'[a]]
      BY <1>4, <2>2, RecordingKeepsRecords DEF Fail
  <2>4. Typed'
      BY <1>1, <1>3, <1>4, <2>1, <2>3 DEF AgentInv, Typed
  <2>5. SpendingIsBounded'
      BY <1>1, <1>2, <1>3, <1>4, <2>3 DEF SpendingIsBounded
  <2> QED
      BY <2>3, <2>4, <2>5 DEF AgentInv
<1>5. CASE Reserves(cost) /\ spent' = spent + cost /\ Repair(used + cost)
  <2>1. used + cost \in Nat /\ used + cost <= Maximum /\ spent' = used'
      BY <1>1, <1>5 DEF Reserves
  <2>2. /\ RecordsAreOver' /\ DOMAIN rows' = Agents /\ rows' = [a \in Agents |-> rows'[a]]
        /\ \/ step' = "raising" /\ repairs' = repairs
           \/ step' = "calling" /\ repairs' = repairs + 1 /\ repairs' \in 0..MaxRepairs
      BY <1>5, <2>1, RepairKeepsRecords
  <2>3. Typed'
      BY <1>1, <1>3, <1>5, <2>1, <2>2 DEF AgentInv, Typed
  <2>4. SpendingIsBounded'
      BY <1>1, <1>2, <1>5, <2>1, <2>2 DEF SpendingIsBounded
  <2> QED
      BY <2>2, <2>3, <2>4 DEF AgentInv
<1>6. CASE /\ Reserves(cost) /\ spent' = spent + cost /\ step' = "checking"
           /\ rows' = [rows EXCEPT ![active] = [status |-> "succeeded", output |-> TRUE,
                                                cost |-> used + cost, error |-> "none"]]
           /\ UNCHANGED repairs
  <2>1. used + cost \in Nat /\ used + cost <= Maximum /\ spent' = used'
      BY <1>1, <1>6 DEF Reserves
  <2>2. Closed([status |-> "succeeded", output |-> TRUE, cost |-> used + cost, error |-> "none"])
      BY <1>1, <2>1 DEF Closed, Record, Errors
  <2>3. RecordsAreOver' /\ DOMAIN rows' = Agents /\ rows' = [a \in Agents |-> rows'[a]]
      BY <1>6, <2>2, RecordingKeepsRecords
  <2>4. Typed'
      BY <1>1, <1>3, <1>6, <2>1, <2>3 DEF AgentInv, Typed
  <2>5. SpendingIsBounded'
      BY <1>1, <1>2, <1>6, <2>1 DEF SpendingIsBounded
  <2> QED
      BY <2>3, <2>4, <2>5 DEF AgentInv
<1> QED
    BY <1>4, <1>5, <1>6

LEMMA UnheardKeepsIInv ==
    ASSUME AgentInv, RespondUnparsed \/ CallFails
    PROVE  AgentInv'
<1>1. /\ step = "calling" /\ used = spent /\ spent \in Nat /\ used <= Maximum
      /\ Maximum \in Nat /\ Most \in Nat /\ repairs \in 0..MaxRepairs /\ MaxRepairs \in Nat
      /\ active' = active /\ txn' = txn /\ spent' = spent /\ used' = used
    BY MostIsMost, BoundsAssumption
    DEF RespondUnparsed, CallFails, AgentInv, Typed, SpendingIsBounded
<1>2. active \in Agents /\ active # NoRow
    BY <1>1, NoRowAssumption DEF AgentInv, Typed
<1>3. CASE RespondUnparsed
  <2>1. /\ RecordsAreOver' /\ DOMAIN rows' = Agents /\ rows' = [a \in Agents |-> rows'[a]]
        /\ \/ step' = "raising" /\ repairs' = repairs
           \/ step' = "calling" /\ repairs' = repairs + 1 /\ repairs' \in 0..MaxRepairs
      BY <1>1, <1>3, RepairKeepsRecords DEF RespondUnparsed
  <2>2. Typed'
      BY <1>1, <1>2, <2>1 DEF AgentInv, Typed
  <2>3. spent <= (repairs + 1) * Most
    <3>1. (repairs + 1) * Most = repairs * Most + Most /\ repairs * Most \in Nat
        BY <1>1
    <3> QED
        BY <1>1, <3>1 DEF AgentInv, SpendingIsBounded
  <2>4. SpendingIsBounded'
      BY <1>1, <2>1, <2>3 DEF AgentInv, SpendingIsBounded
  <2> QED
      BY <2>1, <2>2, <2>4 DEF AgentInv
<1>4. CASE CallFails
  <2>1. Closed([status |-> "failed", output |-> FALSE, cost |-> used, error |-> "provider"])
      BY <1>1, FailedIsOver
  <2>2. /\ step' = "raising" /\ repairs' = repairs /\ RecordsAreOver' /\ DOMAIN rows' = Agents
        /\ rows' = [a \in Agents |-> rows'[a]]
      BY <1>1, <1>4, <2>1, RecordingKeepsRecords DEF CallFails, Fail
  <2>3. Typed'
      BY <1>1, <1>2, <2>2 DEF AgentInv, Typed
  <2>4. SpendingIsBounded'
      BY <1>1, <2>2 DEF AgentInv, SpendingIsBounded
  <2> QED
      BY <2>2, <2>3, <2>4 DEF AgentInv
<1> QED
    BY <1>3, <1>4

-----------------------------------------------------------------------------
(* A run that has its outcome leaves, or is rejected or rolled back.       *)
LEMMA LeavingKeepsIInv ==
    ASSUME AgentInv, Accept \/ Catch \/ Reject \/ CallerRollsBack \/ CallerCommits
    PROVE  AgentInv'
<1>1. 0 \in 0..MaxRepairs /\ (MaxRepairs + 1) * Most \in Nat
    BY MostIsMost, BoundsAssumption
<1>2. CASE Accept \/ Catch
  <2>1. /\ active' = NoRow /\ step' = "none" /\ spent' = 0 /\ used' = 0 /\ repairs' = 0
        /\ rows' = rows /\ txn' = txn /\ step # "calling"
      BY <1>2 DEF Accept, Catch, Leave
  <2>2. Typed' /\ SpendingIsBounded'
      BY <1>1, <2>1 DEF AgentInv, Typed, SpendingIsBounded
  <2>3. RecordsAreOver'
      BY <2>1, NoRowAssumption DEF AgentInv, RecordsAreOver, Closed
  <2> QED
      BY <2>2, <2>3 DEF AgentInv
<1>3. CASE Reject
    BY <1>1, <1>3 DEF Reject, AgentInv, Typed, SpendingIsBounded, RecordsAreOver, Closed
<1>4. CASE CallerRollsBack
    BY <1>1, <1>4, NoRowAssumption
    DEF CallerRollsBack, Leave, AgentInv, Typed, SpendingIsBounded, RecordsAreOver
<1>5. CASE CallerCommits
    BY <1>1, <1>5 DEF CallerCommits, AgentInv, Typed, SpendingIsBounded, RecordsAreOver, Closed
<1> QED
    BY <1>2, <1>3, <1>4, <1>5

LEMMA NextKeepsIInv == AgentInv /\ [AgentNext]_agentVars => AgentInv'
<1> SUFFICES ASSUME AgentInv, [AgentNext]_agentVars PROVE AgentInv'
    OBVIOUS
<1>1. ASSUME NEW a \in Agents, Start(a) PROVE AgentInv'
    BY <1>1, StartKeepsIInv
<1>2. CASE RespondOverBudget
    BY <1>2, RespondKeepsIInv DEF RespondOverBudget
<1>3. CASE RespondInvalid
    BY <1>3, RespondKeepsIInv DEF RespondInvalid
<1>4. CASE RespondValid
    BY <1>4, RespondKeepsIInv DEF RespondValid
<1>5. CASE RespondUnparsed \/ CallFails
    BY <1>5, UnheardKeepsIInv
<1>6. CASE Accept \/ Catch \/ Reject \/ CallerRollsBack \/ CallerCommits
    BY <1>6, LeavingKeepsIInv
<1>7. CASE CallerIsDone \/ UNCHANGED agentVars
    BY <1>7 DEF CallerIsDone, agentVars, AgentInv, Typed, SpendingIsBounded, RecordsAreOver, Closed
<1> QED
    BY <1>1, <1>2, <1>3, <1>4, <1>5, <1>6, <1>7 DEF AgentNext, AgentProceeds

LEMMA AgentInvariance == RunningAgents => []AgentInv
BY NoAgentRanIsSound, NextKeepsIInv, PTL DEF RunningAgents

-----------------------------------------------------------------------------
(* The variables keep their types: the repairs their bound, and what a run *)
(* has spent the cost of as many of the dearest calls as it may make.      *)
THEOREM AgentTypes == RunningAgents => []AgentTypeOK
<1>1. AgentInv => AgentTypeOK
  <2> SUFFICES ASSUME AgentInv PROVE AgentTypeOK
      OBVIOUS
  <2>1. spent \in AllCosts /\ used \in AllCosts
    <3>1. (MaxRepairs + 1) * Most \in Nat
        BY MostIsMost, BoundsAssumption
    <3> QED
        BY <3>1 DEF AgentInv, Typed, SpendingIsBounded, AllCosts, Most
  <2>2. \A a \in Agents : rows[a] \in Record \cup {NoRow}
    <3>1. \A row : Closed(row) => row \in Record
        BY DEF Closed
    <3>2. Begun \in Record
        BY DEF Begun, Record, Errors
    <3> QED
        BY <3>1, <3>2 DEF AgentInv, RecordsAreOver
  <2>3. rows \in [Agents -> Record \cup {NoRow}]
      BY <2>2 DEF AgentInv, Typed
  <2> QED
      BY <2>1, <2>3 DEF AgentInv, Typed, AgentTypeOK
<1> QED
    BY <1>1, AgentInvariance, PTL

(* CostBudgetGuard.reserve: no run is told of more than its budget by more *)
(* than one call, however dear the calls and however many repairs.         *)
THEOREM BudgetHolds == RunningAgents => []OverspendsByOneCall
<1>1. AgentInv => OverspendsByOneCall
  <2> SUFFICES ASSUME AgentInv PROVE OverspendsByOneCall
      OBVIOUS
  <2>1. step = "calling" => used <= Maximum
      BY DEF AgentInv, SpendingIsBounded
  <2>2. \A a \in Agents : rows[a] # NoRow => rows[a].cost <= Maximum + Most
      BY MostIsMost, BoundsAssumption DEF AgentInv, RecordsAreOver, Closed, Begun
  <2> QED
      BY <2>1, <2>2 DEF OverspendsByOneCall, Most
<1> QED
    BY <1>1, AgentInvariance, PTL

(* AgentRunner.run: what is committed tells how each run ended.            *)
THEOREM CommittedMeansOver == RunningAgents => []CommittedRunsAreOver
<1>1. AgentInv => CommittedRunsAreOver
    BY NoRowAssumption DEF AgentInv, Typed, RecordsAreOver, Closed, CommittedRunsAreOver
<1> QED
    BY <1>1, AgentInvariance, PTL
=============================================================================
