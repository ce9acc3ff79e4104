------------------------------ MODULE Approvals ------------------------------
(***************************************************************************)
(* The review of recommendations: deciding one, drafting its marketing and *)
(* the discovery run that (re)opens it.  Every HTTP request is one         *)
(* transaction at READ COMMITTED (dependencies.py: a session and a         *)
(* `session.begin()` around the handler), so a request is modelled as its  *)
(* statements, each a step of its own:                                     *)
(*                                                                         *)
(*   decide   SELECT recommendation; flush (UPDATE + 2 INSERTs); COMMIT    *)
(*   draft    SELECT recommendation; SELECT draft; flush (2 INSERTs); COMMIT *)
(*   discover upsert the scores; upsert each recommendation of the top N,  *)
(*            in rank order; COMMIT                                        *)
(*                                                                         *)
(* A SELECT sees what is committed and never waits.  A written row is      *)
(* locked until its transaction ends, and so is the unique key of an       *)
(* inserted draft.  The tables below hold committed rows; what a request   *)
(* has flushed takes effect at its commit and vanishes with its rollback,  *)
(* which any failure causes: an exception, a dropped client, a crash.      *)
(*                                                                         *)
(* One tenant is modelled: every statement filters on tenant_id, so a      *)
(* recommendation of another tenant is a row that is not there.  Rows      *)
(* carry the request that inserted them, in place of a random UUID.        *)
(***************************************************************************)
EXTENDS Naturals, Sequences, FiniteSets, Functions

CONSTANTS
    Recs,                  \* recommendations, one per (candidate, scoring version)
    Requests,              \* the requests that may arrive, each handled once
    TopN,                  \* top_n of a discovery run
    AllowBeforeApproval,   \* settings.allow_marketing_draft_before_approval
    NoRec                  \* the target of a request that has none yet

ASSUME TopNAssumption == TopN \in Nat \ {0}
ASSUME AllowAssumption == AllowBeforeApproval \in BOOLEAN
ASSUME NoRecAssumption == NoRec \notin Recs

VARIABLES
    status,      \* recommendations.status by recommendation, "none": no row
    approvals,   \* rows of approvals
    audit,       \* rows of audit_events
    drafts,      \* rows of marketing_drafts
    pc,          \* how far each request is
    target,      \* the recommendation a decide or draft request names
    choice,      \* the decision of a decide request
    scored,      \* the opportunity_scores rows a discovery run has upserted
    todo,        \* the recommendations it has yet to upsert, by rank
    rows         \* the recommendations rows a request has written, and locks

tables == <<status, approvals, audit, drafts>>
vars == <<status, approvals, audit, drafts, pc, target, choice, scored, todo, rows>>

Decisions == {"approved", "rejected", "deferred"}
Approval == [rec : Recs, status : Decisions, req : Requests]
AuditEvent == [rec : Recs, type : Decisions \cup {"draft"}, req : Requests]
DraftRow == [rec : Recs, req : Requests]

Active == {"deciding", "decided", "drafting", "composing", "drafted", "ranking"}
Ended == {"committed", "refused", "failed"}

TypeOK ==
    /\ status \in [Recs -> {"none", "pending"} \cup Decisions]
    /\ approvals \in SUBSET Approval
    /\ audit \in SUBSET AuditEvent
    /\ drafts \in SUBSET DraftRow
    /\ pc \in [Requests -> {"idle"} \cup Active \cup Ended]
    /\ target \in [Requests -> Recs \cup {NoRec}]
    /\ choice \in [Requests -> Decisions \cup {"none"}]
    /\ scored \in [Requests -> SUBSET Recs]
    /\ todo \in [Requests -> Seq(Recs)]
    /\ rows \in [Requests -> SUBSET Recs]

(* The database starts with the recommendations of an earlier discovery.   *)
Init ==
    /\ status \in [Recs -> {"none", "pending"}]
    /\ approvals = {} /\ audit = {} /\ drafts = {}
    /\ pc = [q \in Requests |-> "idle"]
    /\ target = [q \in Requests |-> NoRec]
    /\ choice = [q \in Requests |-> "none"]
    /\ scored = [q \in Requests |-> {}]
    /\ todo = [q \in Requests |-> << >>]
    /\ rows = [q \in Requests |-> {}]

-----------------------------------------------------------------------------
(* Locks: a row written by another live transaction cannot be written, and *)
(* an insert waits for another live insert of the same unique key.         *)
RowFree(q, r) == \A p \in Requests \ {q} : r \notin rows[p]
(* Mutant: the scores are written in no transaction of the run.            *)
ScoresNeverHeld(q, S) == TRUE
ScoresFree(q, S) == \A p \in Requests \ {q} : scored[p] \cap S = {}
(* Mutant: no unique constraint on the drafts.                             *)
DraftKeyNeverHeld(q, r) == TRUE
DraftKeyFree(q, r) == \A p \in Requests \ {q} : ~(pc[p] = "drafted" /\ target[p] = r)
HasDraft(r) == \E d \in drafts : d.rec = r

GoTo(q, label) == pc' = [pc EXCEPT ![q] = label]

(* COMMIT or ROLLBACK: the locks go with the transaction.                  *)
Finish(q, label) ==
    /\ GoTo(q, label)
    /\ rows' = [rows EXCEPT ![q] = {}]
    /\ scored' = [scored EXCEPT ![q] = {}]
    /\ todo' = [todo EXCEPT ![q] = << >>]
    /\ UNCHANGED <<target, choice>>

-----------------------------------------------------------------------------
(* ApprovalService.decide                                                  *)
(* Mutant: the status is the name of the action.                           *)
ReadPendingByAction(q, r, d) ==
    /\ pc[q] = "idle" /\ status[r] = "pending"
    /\ GoTo(q, "deciding")
    /\ target' = [target EXCEPT ![q] = r]
    /\ choice' = [choice EXCEPT ![q] = "approve"]
    /\ UNCHANGED <<tables, scored, todo, rows>>

ReadPending(q, r, d) ==
    /\ pc[q] = "idle" /\ status[r] = "pending"
    /\ GoTo(q, "deciding")
    /\ target' = [target EXCEPT ![q] = r]
    /\ choice' = [choice EXCEPT ![q] = d]
    /\ UNCHANGED <<tables, scored, todo, rows>>

RefuseDecision(q, r) ==
    /\ pc[q] = "idle" /\ status[r] # "pending"
    /\ Finish(q, "refused")
    /\ UNCHANGED tables

(* Mutant: the status is written in a transaction of its own.              *)
FlushDecisionAtOnce(q) ==
    /\ pc[q] = "deciding" /\ RowFree(q, target[q])
    /\ GoTo(q, "decided")
    /\ status' = [status EXCEPT ![target[q]] = choice[q]]
    /\ UNCHANGED <<approvals, audit, drafts, target, choice, scored, todo, rows>>

(* The UPDATE is by primary key: it waits for the row, it does not look at *)
(* the status again.                                                       *)
FlushDecision(q) ==
    /\ pc[q] = "deciding" /\ RowFree(q, target[q])
    /\ GoTo(q, "decided")
    /\ rows' = [rows EXCEPT ![q] = {target[q]}]
    /\ UNCHANGED <<tables, target, choice, scored, todo>>

(* Mutant: putting a decision off is not audited.                          *)
CommitDecisionUnlessDeferred(q) ==
    /\ pc[q] = "decided"
    /\ status' = [status EXCEPT ![target[q]] = choice[q]]
    /\ approvals' = approvals \cup {[rec |-> target[q], status |-> choice[q], req |-> q]}
    /\ audit' = audit \cup {[rec |-> target[q], type |-> d, req |-> q] : d \in {choice[q]} \ {"deferred"}}
    /\ UNCHANGED drafts
    /\ Finish(q, "committed")

CommitDecision(q) ==
    /\ pc[q] = "decided"
    /\ status' = [status EXCEPT ![target[q]] = choice[q]]
    /\ approvals' = approvals \cup {[rec |-> target[q], status |-> choice[q], req |-> q]}
    /\ audit' = audit \cup {[rec |-> target[q], type |-> choice[q], req |-> q]}
    /\ UNCHANGED drafts
    /\ Finish(q, "committed")

-----------------------------------------------------------------------------
(* ApprovalService.create_marketing_draft                                  *)
(* Mutant: any recommendation will do.                                     *)
MayDraftAny(r) == status[r] # "none"

MayDraft(r) == status[r] # "none" /\ (~AllowBeforeApproval => status[r] = "approved")

ReadForDraft(q, r) ==
    /\ pc[q] = "idle" /\ MayDraft(r)
    /\ GoTo(q, "drafting")
    /\ target' = [target EXCEPT ![q] = r]
    /\ UNCHANGED <<tables, choice, scored, todo, rows>>

RefuseDraft(q, r) ==
    /\ pc[q] = "idle" /\ ~MayDraft(r)
    /\ Finish(q, "refused")
    /\ UNCHANGED tables

ReturnExistingDraft(q) ==
    /\ pc[q] = "drafting" /\ HasDraft(target[q])
    /\ Finish(q, "committed")
    /\ UNCHANGED tables

ComposeDraft(q) ==
    /\ pc[q] = "drafting" /\ ~HasDraft(target[q])
    /\ GoTo(q, "composing")
    /\ UNCHANGED <<tables, target, choice, scored, todo, rows>>

FlushDraft(q) ==
    /\ pc[q] = "composing" /\ DraftKeyFree(q, target[q]) /\ ~HasDraft(target[q])
    /\ GoTo(q, "drafted")
    /\ UNCHANGED <<tables, target, choice, scored, todo, rows>>

(* The unique constraint: IntegrityError is no ValueError, the handler     *)
(* lets it through and the transaction is rolled back.                     *)
DraftConflict(q) ==
    /\ pc[q] = "composing" /\ DraftKeyFree(q, target[q]) /\ HasDraft(target[q])
    /\ Finish(q, "failed")
    /\ UNCHANGED tables

CommitDraft(q) ==
    /\ pc[q] = "drafted"
    /\ drafts' = drafts \cup {[rec |-> target[q], req |-> q]}
    /\ audit' = audit \cup {[rec |-> target[q], type |-> "draft", req |-> q]}
    /\ UNCHANGED <<status, approvals>>
    /\ Finish(q, "committed")

-----------------------------------------------------------------------------
(* DiscoveryWorkflow._persist_scores and _persist_recommendations, as far  *)
(* as recommendations go: all scores first, then the top N by rank.        *)
Tops(S) ==
    {s \in UNION {[1..n -> S] : n \in 0..TopN} :
        IsInjective(s) /\ (Len(s) = TopN \/ Range(s) = S)}

PersistScores(q, S, top) ==
    /\ pc[q] = "idle" /\ ScoresFree(q, S)
    /\ GoTo(q, "ranking")
    /\ scored' = [scored EXCEPT ![q] = S]
    /\ todo' = [todo EXCEPT ![q] = top]
    /\ UNCHANGED <<tables, target, choice, rows>>

UpsertRecommendation(q) ==
    /\ pc[q] = "ranking" /\ todo[q] # << >> /\ RowFree(q, Head(todo[q]))
    /\ rows' = [rows EXCEPT ![q] = @ \cup {Head(todo[q])}]
    /\ todo' = [todo EXCEPT ![q] = Tail(@)]
    /\ UNCHANGED <<tables, pc, target, choice, scored>>

(* The upsert's SET list names status: a decided row is pending again.     *)
CommitDiscovery(q) ==
    /\ pc[q] = "ranking" /\ todo[q] = << >>
    /\ status' = [r \in Recs |-> IF r \in rows[q] THEN "pending" ELSE status[r]]
    /\ UNCHANGED <<approvals, audit, drafts>>
    /\ Finish(q, "committed")

-----------------------------------------------------------------------------
Rollback(q) ==
    /\ pc[q] \in Active
    /\ Finish(q, "failed")
    /\ UNCHANGED tables

Arrive(q) ==
    \/ \E r \in Recs, d \in Decisions : ReadPending(q, r, d)
    \/ \E r \in Recs : RefuseDecision(q, r)
    \/ \E r \in Recs : ReadForDraft(q, r)
    \/ \E r \in Recs : RefuseDraft(q, r)
    \/ \E S \in SUBSET Recs : \E top \in Tops(S) : PersistScores(q, S, top)

Proceed(q) ==
    \/ FlushDecision(q) \/ CommitDecision(q)
    \/ ReturnExistingDraft(q) \/ ComposeDraft(q)
    \/ FlushDraft(q) \/ DraftConflict(q) \/ CommitDraft(q)
    \/ UpsertRecommendation(q) \/ CommitDiscovery(q)

(* Every request that will come has come and gone: nothing is left to do.  *)
Quiet ==
    /\ \A q \in Requests : pc[q] \in Ended
    /\ UNCHANGED vars

Next == (\E q \in Requests : Arrive(q) \/ Proceed(q) \/ Rollback(q)) \/ Quiet

Spec == Init /\ [][Next]_vars

(* The event loop resumes a handler whose statement has returned, and the  *)
(* database grants a lock that is free.  Nothing obliges a request to come *)
(* or to fail.                                                             *)
FairSpec == Spec /\ \A q \in Requests : WF_vars(Proceed(q))
-----------------------------------------------------------------------------
(* A recommendation that is not pending was decided, and an approvals row  *)
(* says so, even when several operators and a discovery run raced for it:  *)
(* decide writes the row, its approval and its event in one transaction.   *)
DecisionIsRecorded ==
    \A r \in Recs : status[r] \in Decisions =>
        \E a \in approvals : a.rec = r /\ a.status = status[r]

(* The audit trail tells exactly what happened: each approval and each     *)
(* draft has its event, each event its row, and no request has two.        *)
AuditTellsAll ==
    /\ \A a \in approvals : [rec |-> a.rec, type |-> a.status, req |-> a.req] \in audit
    /\ \A d \in drafts : [rec |-> d.rec, type |-> "draft", req |-> d.req] \in audit
    /\ \A e \in audit :
          IF e.type = "draft" THEN [rec |-> e.rec, req |-> e.req] \in drafts
          ELSE [rec |-> e.rec, status |-> e.type, req |-> e.req] \in approvals
    /\ \A e, f \in audit : e.req = f.req => e = f

(* A recommendation has at most one marketing draft, and only if it was    *)
(* approved, whatever has become of its status since the draft's request   *)
(* looked.                                                                 *)
DraftsAreSound ==
    \A d \in drafts :
        /\ \A f \in drafts : f.rec = d.rec => f = d
        /\ AllowBeforeApproval \/ \E a \in approvals : a.rec = d.rec /\ a.status = "approved"

(* The transactions together do what the ledger promises, step by step.    *)
Ledger == INSTANCE ReviewLedger WITH ledger <- audit
ImplementsLedger == Ledger!Spec

(* No request waits for ever.  Two discovery runs rank the same            *)
(* recommendations in different orders, but they meet at the scores first, *)
(* which both upsert before any recommendation.                            *)
EveryRequestEnds ==
    \A q \in Requests : pc[q] \in Active ~> pc[q] \in Ended

-----------------------------------------------------------------------------
(* What the documents say and the code does not do.                        *)

(* "Only pending recommendations can be decided": a decision is committed  *)
(* only over a pending row.                                                *)
OnlyPendingDecided ==
    [][\A q \in Requests : pc[q] = "decided" /\ pc'[q] = "committed"
            => status[target[q]] = "pending"]_vars
=============================================================================
