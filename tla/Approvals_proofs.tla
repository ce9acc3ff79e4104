-------------------------- MODULE Approvals_proofs --------------------------
(***************************************************************************)
(* Proofs about Approvals for any sets of recommendations and requests,    *)
(* any top N and either draft policy.                                      *)
(***************************************************************************)
EXTENDS Approvals, TLAPS

(* What a request may rely on between two of its statements, although      *)
(* others commit in the meantime: a recommendation, once there, stays; an  *)
(* approval, once given, stays on record; a flushed draft owns its key.    *)
RequestsAreSound ==
    \A q \in Requests :
        /\ pc[q] \in {"deciding", "decided", "drafting", "composing", "drafted"}
              => target[q] \in Recs
        /\ pc[q] \in {"deciding", "decided"}
              => choice[q] \in Decisions /\ status[target[q]] # "none"
        /\ pc[q] \in {"drafting", "composing", "drafted"}
              => AllowBeforeApproval \/ \E a \in approvals : a.rec = target[q] /\ a.status = "approved"
        /\ pc[q] = "drafted"
              => /\ ~HasDraft(target[q])
                 /\ \A p \in Requests : pc[p] = "drafted" /\ target[p] = target[q] => p = q

(* Only a committed request has entries in the trail.                      *)
WritersHaveCommitted == \A e \in audit : pc[e.req] = "committed"

IInv ==
    /\ TypeOK
    /\ DecisionIsRecorded
    /\ AuditTellsAll
    /\ DraftsAreSound
    /\ RequestsAreSound
    /\ WritersHaveCommitted

-----------------------------------------------------------------------------
(* A list of recommendations is a sequence of them.                        *)
LEMMA TopsAreSequences ==
    ASSUME NEW S \in SUBSET Recs, NEW top \in Tops(S)
    PROVE  top \in Seq(Recs)
<1>1. PICK n \in 0..TopN : top \in [1..n -> S]
    BY DEF Tops
<1>2. n \in Nat
    BY TopNAssumption
<1>3. top \in [1..n -> Recs]
    BY <1>1
<1> QED
    BY <1>2, <1>3

(* The variables of the requests, as opposed to the tables.                *)
RequestsOK ==
    /\ pc \in [Requests -> {"idle"} \cup Active \cup Ended]
    /\ target \in [Requests -> Recs \cup {NoRec}]
    /\ choice \in [Requests -> Decisions \cup {"none"}]
    /\ scored \in [Requests -> SUBSET Recs]
    /\ todo \in [Requests -> Seq(Recs)]
    /\ rows \in [Requests -> SUBSET Recs]

LEMMA FinishOK ==
    ASSUME RequestsOK, NEW q \in Requests, NEW label \in Ended, Finish(q, label)
    PROVE  RequestsOK'
BY DEF RequestsOK, Finish, GoTo

(* Every variable keeps its type.                                          *)
LEMMA TypeStep == IInv /\ [Next]_vars => TypeOK'
<1> SUFFICES ASSUME IInv, [Next]_vars PROVE TypeOK'
    OBVIOUS
<1>1. TypeOK /\ RequestsOK
    BY DEF IInv, TypeOK, RequestsOK
<1>2. RequestsOK' /\ UNCHANGED tables => TypeOK'
    BY <1>1 DEF TypeOK, RequestsOK, tables
<1>3. \A q \in Requests : \A label \in Ended : Finish(q, label) => RequestsOK'
    BY <1>1, FinishOK
<1>4. {"committed", "refused", "failed"} = Ended
    BY DEF Ended
<1>5. ASSUME NEW q \in Requests, Arrive(q)
      PROVE TypeOK'
  <2>1. ASSUME NEW r \in Recs, NEW d \in Decisions, ReadPending(q, r, d)
        PROVE TypeOK'
      BY <1>1, <1>2, <2>1 DEF ReadPending, RequestsOK, GoTo, Active, tables
  <2>2. ASSUME NEW r \in Recs, RefuseDecision(q, r) \/ RefuseDraft(q, r)
        PROVE TypeOK'
      BY <1>2, <1>3, <1>4, <2>2 DEF RefuseDecision, RefuseDraft
  <2>3. ASSUME NEW r \in Recs, ReadForDraft(q, r)
        PROVE TypeOK'
      BY <1>1, <1>2, <2>3 DEF ReadForDraft, RequestsOK, GoTo, Active, tables
  <2>4. ASSUME NEW S \in SUBSET Recs, NEW top \in Tops(S), PersistScores(q, S, top)
        PROVE TypeOK'
    <3>1. top \in Seq(Recs)
        BY TopsAreSequences
    <3> QED
        BY <1>1, <1>2, <2>4, <3>1 DEF PersistScores, RequestsOK, GoTo, Active, tables
  <2> QED
      BY <1>5, <2>1, <2>2, <2>3, <2>4 DEF Arrive
<1>6. ASSUME NEW q \in Requests, Proceed(q)
      PROVE TypeOK'
  <2>1. ASSUME FlushDecision(q)
        PROVE TypeOK'
    <3>1. target[q] \in Recs
        BY <2>1 DEF FlushDecision, IInv, RequestsAreSound
    <3> QED
        BY <1>1, <1>2, <2>1, <3>1 DEF FlushDecision, RequestsOK, GoTo, Active, tables
  <2>2. ASSUME ComposeDraft(q) \/ FlushDraft(q)
        PROVE TypeOK'
    <3>1. RequestsOK' /\ UNCHANGED tables
        BY <1>1, <2>2 DEF ComposeDraft, FlushDraft, RequestsOK, GoTo, Active, tables
    <3> QED
        BY <1>2, <3>1
  <2>3. ASSUME ReturnExistingDraft(q) \/ DraftConflict(q)
        PROVE TypeOK'
      BY <1>2, <1>3, <1>4, <2>3 DEF ReturnExistingDraft, DraftConflict
  <2>4. ASSUME UpsertRecommendation(q)
        PROVE TypeOK'
    <3>1. todo[q] \in Seq(Recs) /\ todo[q] # << >>
        BY <1>1, <2>4 DEF UpsertRecommendation, RequestsOK
    <3>2. Head(todo[q]) \in Recs /\ Tail(todo[q]) \in Seq(Recs)
        BY <3>1
    <3> QED
        BY <1>1, <1>2, <2>4, <3>2 DEF UpsertRecommendation, RequestsOK, tables
  <2>5. ASSUME CommitDecision(q)
        PROVE TypeOK'
    <3>1. target[q] \in Recs /\ choice[q] \in Decisions
        BY <2>5 DEF CommitDecision, IInv, RequestsAreSound
    <3>2. RequestsOK'
        BY <1>3, <1>4, <2>5 DEF CommitDecision
    <3> QED
        BY <1>1, <2>5, <3>1, <3>2
        DEF CommitDecision, TypeOK, RequestsOK, Approval, AuditEvent
  <2>6. ASSUME CommitDraft(q)
        PROVE TypeOK'
    <3>1. target[q] \in Recs
        BY <2>6 DEF CommitDraft, IInv, RequestsAreSound
    <3>2. RequestsOK'
        BY <1>3, <1>4, <2>6 DEF CommitDraft
    <3> QED
        BY <1>1, <2>6, <3>1, <3>2
        DEF CommitDraft, TypeOK, RequestsOK, DraftRow, AuditEvent
  <2>7. ASSUME CommitDiscovery(q)
        PROVE TypeOK'
    <3>1. RequestsOK'
        BY <1>3, <1>4, <2>7 DEF CommitDiscovery
    <3> QED
        BY <1>1, <2>7, <3>1 DEF CommitDiscovery, TypeOK, RequestsOK
  <2> QED
      BY <1>6, <2>1, <2>2, <2>3, <2>4, <2>5, <2>6, <2>7 DEF Proceed
<1>7. ASSUME NEW q \in Requests, Rollback(q)
      PROVE TypeOK'
    BY <1>2, <1>3, <1>4, <1>7 DEF Rollback
<1>8. CASE UNCHANGED vars
    BY <1>1, <1>8 DEF vars, TypeOK
<1> QED
    BY <1>5, <1>6, <1>7, <1>8 DEF Next, Quiet

-----------------------------------------------------------------------------
(* A statement that is not a commit shows nobody anything.                 *)
LEMMA OnlyCommitsChangeTables ==
    ASSUME [Next]_vars
    PROVE  \/ UNCHANGED tables
           \/ \E q \in Requests : CommitDecision(q) \/ CommitDraft(q) \/ CommitDiscovery(q)
<1>1. ASSUME NEW q \in Requests, Arrive(q)
      PROVE UNCHANGED tables
    BY <1>1 DEF Arrive, ReadPending, RefuseDecision, ReadForDraft, RefuseDraft, PersistScores
<1>2. ASSUME NEW q \in Requests, Rollback(q)
      PROVE UNCHANGED tables
    BY <1>2 DEF Rollback
<1>3. ASSUME NEW q \in Requests, Proceed(q)
      PROVE UNCHANGED tables \/ CommitDecision(q) \/ CommitDraft(q) \/ CommitDiscovery(q)
    BY <1>3 DEF Proceed, FlushDecision, ReturnExistingDraft, ComposeDraft, FlushDraft,
                DraftConflict, UpsertRecommendation
<1>4. UNCHANGED vars => UNCHANGED tables
    BY DEF vars, tables
<1> QED
    BY <1>1, <1>2, <1>3, <1>4 DEF Next, Quiet

(* A decision is committed on a recommendation that exists, by a request   *)
(* that has no entry yet; the same goes for a draft.                       *)
LEMMA CommitsAreSound ==
    ASSUME IInv, NEW q \in Requests, CommitDecision(q) \/ CommitDraft(q)
    PROVE  /\ target[q] \in Recs
           /\ \A e \in audit : e.req # q
           /\ CommitDecision(q) => choice[q] \in Decisions /\ status[target[q]] # "none"
<1>1. pc[q] \in {"decided", "drafted"} /\ (CommitDecision(q) => pc[q] = "decided")
    BY DEF CommitDecision, CommitDraft
<1> QED
    BY <1>1 DEF IInv, RequestsAreSound, WritersHaveCommitted

(* No commit takes an approval or a recommendation away.                   *)
LEMMA TablesGrow ==
    ASSUME IInv, [Next]_vars
    PROVE  /\ approvals \subseteq approvals'
           /\ \A r \in Recs : status[r] # "none" => status'[r] # "none"
<1>1. status \in [Recs -> {"none", "pending"} \cup Decisions]
    BY DEF IInv, TypeOK
<1>2. CASE UNCHANGED tables
    BY <1>2 DEF tables
<1>3. CASE \E q \in Requests : CommitDecision(q)
    BY <1>1, <1>3, CommitsAreSound DEF CommitDecision, Decisions
<1>4. CASE \E q \in Requests : CommitDraft(q)
    BY <1>4 DEF CommitDraft
<1>5. CASE \E q \in Requests : CommitDiscovery(q)
    BY <1>5 DEF CommitDiscovery
<1> QED
    BY OnlyCommitsChangeTables, <1>2, <1>3, <1>4, <1>5

LEMMA DecisionStep ==
    ASSUME IInv, [Next]_vars
    PROVE  DecisionIsRecorded'
<1> USE DEF DecisionIsRecorded
<1>1. DecisionIsRecorded /\ status \in [Recs -> {"none", "pending"} \cup Decisions]
    BY DEF IInv, TypeOK
<1>2. CASE UNCHANGED tables
    BY <1>1, <1>2 DEF tables
<1>3. ASSUME NEW q \in Requests, CommitDecision(q)
      PROVE  DecisionIsRecorded'
  <2>1. [rec |-> target[q], status |-> choice[q], req |-> q] \in approvals'
        /\ approvals \subseteq approvals'
      BY <1>3 DEF CommitDecision
  <2>2. ASSUME NEW r \in Recs
        PROVE  status'[r] = IF r = target[q] THEN choice[q] ELSE status[r]
      BY <1>1, <1>3, CommitsAreSound DEF CommitDecision
  <2> QED
      BY <1>1, <2>1, <2>2
<1>4. CASE \E q \in Requests : CommitDraft(q)
    BY <1>1, <1>4 DEF CommitDraft
<1>5. CASE \E q \in Requests : CommitDiscovery(q)
    BY <1>1, <1>5 DEF CommitDiscovery, Decisions
<1> QED
    BY OnlyCommitsChangeTables, <1>2, <1>3, <1>4, <1>5

(* A commit adds a row and its event, both its own.                        *)
LEMMA TrailStep ==
    ASSUME IInv, [Next]_vars
    PROVE  AuditTellsAll'
<1>1. AuditTellsAll /\ approvals \in SUBSET Approval /\ audit \in SUBSET AuditEvent
      /\ drafts \in SUBSET DraftRow
    BY DEF IInv, TypeOK
<1>2. CASE UNCHANGED tables
    BY <1>1, <1>2 DEF tables, AuditTellsAll
<1>3. ASSUME NEW q \in Requests, CommitDecision(q)
      PROVE  AuditTellsAll'
  <2> DEFINE a == [rec |-> target[q], status |-> choice[q], req |-> q]
             e == [rec |-> target[q], type |-> choice[q], req |-> q]
  <2>1. approvals' = approvals \cup {a} /\ audit' = audit \cup {e} /\ drafts' = drafts
      BY <1>3 DEF CommitDecision
  <2>2. choice[q] # "draft" /\ \A f \in audit : f.req # q
      BY <1>3, CommitsAreSound DEF Decisions
  <2>3. e.req = q /\ e.type = choice[q] /\ e.rec = target[q]
        /\ [rec |-> a.rec, type |-> a.status, req |-> a.req] = e
        /\ [rec |-> e.rec, status |-> e.type, req |-> e.req] = a
      OBVIOUS
  <2> HIDE DEF a, e
  <2> QED
      BY <1>1, <2>1, <2>2, <2>3 DEF AuditTellsAll
<1>4. ASSUME NEW q \in Requests, CommitDraft(q)
      PROVE  AuditTellsAll'
  <2> DEFINE d == [rec |-> target[q], req |-> q]
             e == [rec |-> target[q], type |-> "draft", req |-> q]
  <2>1. drafts' = drafts \cup {d} /\ audit' = audit \cup {e} /\ approvals' = approvals
      BY <1>4 DEF CommitDraft
  <2>2. \A f \in audit : f.req # q
      BY <1>4, CommitsAreSound
  <2>3. e.req = q /\ e.type = "draft"
        /\ [rec |-> d.rec, type |-> "draft", req |-> d.req] = e
        /\ [rec |-> e.rec, req |-> e.req] = d
      OBVIOUS
  <2> HIDE DEF d, e
  <2> QED
      BY <1>1, <2>1, <2>2, <2>3 DEF AuditTellsAll
<1>5. CASE \E q \in Requests : CommitDiscovery(q)
    BY <1>1, <1>5 DEF CommitDiscovery, AuditTellsAll
<1> QED
    BY OnlyCommitsChangeTables, <1>2, <1>3, <1>4, <1>5

LEMMA DraftsStep ==
    ASSUME IInv, [Next]_vars
    PROVE  DraftsAreSound'
<1>1. DraftsAreSound
    BY DEF IInv
<1>2. CASE UNCHANGED tables
    BY <1>1, <1>2 DEF tables, DraftsAreSound
<1>3. CASE \E q \in Requests : CommitDecision(q) \/ CommitDiscovery(q)
  <2>1. UNCHANGED drafts /\ approvals \subseteq approvals'
      BY <1>3 DEF CommitDecision, CommitDiscovery
  <2> QED
      BY <1>1, <2>1 DEF DraftsAreSound
<1>4. ASSUME NEW q \in Requests, CommitDraft(q)
      PROVE  DraftsAreSound'
  <2>1. pc[q] = "drafted"
      BY <1>4 DEF CommitDraft
  <2>2. /\ \A d \in drafts : d.rec # target[q]
        /\ AllowBeforeApproval \/ \E a \in approvals : a.rec = target[q] /\ a.status = "approved"
      BY <2>1 DEF IInv, RequestsAreSound, HasDraft
  <2>3. drafts' = drafts \cup {[rec |-> target[q], req |-> q]} /\ UNCHANGED approvals
      BY <1>4 DEF CommitDraft
  <2> QED
      BY <1>1, <2>2, <2>3 DEF DraftsAreSound
<1> QED
    BY OnlyCommitsChangeTables, <1>2, <1>3, <1>4

(* A step is some request's own, or changes nothing.                       *)
Step(p) == Arrive(p) \/ Proceed(p) \/ Rollback(p)

LEMMA OthersUntouched ==
    ASSUME TypeOK, NEW p \in Requests, Step(p), NEW q \in Requests, q # p
    PROVE  pc'[q] = pc[q] /\ target'[q] = target[q] /\ choice'[q] = choice[q]
<1> USE DEF TypeOK, GoTo, Finish
<1>1. CASE Arrive(p)
    BY <1>1 DEF Arrive, ReadPending, RefuseDecision, ReadForDraft, RefuseDraft, PersistScores
<1>2. CASE Proceed(p)
    BY <1>2 DEF Proceed, FlushDecision, CommitDecision, ReturnExistingDraft, ComposeDraft,
                FlushDraft, DraftConflict, CommitDraft, UpsertRecommendation, CommitDiscovery
<1>3. CASE Rollback(p)
    BY <1>3 DEF Rollback
<1> QED
    BY <1>1, <1>2, <1>3 DEF Step

LEMMA WritersStep ==
    ASSUME IInv, [Next]_vars
    PROVE  WritersHaveCommitted'
<1>1. TypeOK /\ WritersHaveCommitted /\ \A e \in audit : e.req \in Requests
    BY DEF IInv, TypeOK, AuditEvent
<1>2. CASE UNCHANGED vars
    BY <1>1, <1>2 DEF vars, WritersHaveCommitted
<1>3. ASSUME NEW p \in Requests, Step(p)
      PROVE  WritersHaveCommitted'
  <2>1. \A e \in audit : e.req = p => ~Step(p)
      BY <1>1 DEF WritersHaveCommitted, Step, Arrive, ReadPending, RefuseDecision, ReadForDraft,
                  RefuseDraft, PersistScores, Proceed, FlushDecision, CommitDecision,
                  ReturnExistingDraft, ComposeDraft, FlushDraft, DraftConflict, CommitDraft,
                  UpsertRecommendation, CommitDiscovery, Rollback, Active
  <2>2. \A e \in audit : pc'[e.req] = "committed"
      BY <1>1, <1>3, <2>1, OthersUntouched DEF WritersHaveCommitted
  <2>3. CASE CommitDecision(p)
    <3>1. pc'[p] = "committed"
        BY <1>1, <2>3 DEF CommitDecision, Finish, GoTo, TypeOK
    <3> QED
        BY <2>2, <2>3, <3>1 DEF CommitDecision, WritersHaveCommitted
  <2>4. CASE CommitDraft(p)
    <3>1. pc'[p] = "committed"
        BY <1>1, <2>4 DEF CommitDraft, Finish, GoTo, TypeOK
    <3> QED
        BY <2>2, <2>4, <3>1 DEF CommitDraft, WritersHaveCommitted
  <2>5. CASE ~CommitDecision(p) /\ ~CommitDraft(p)
    <3>1. UNCHANGED audit
        BY <1>3, <2>5 DEF Step, Arrive, ReadPending, RefuseDecision, ReadForDraft, RefuseDraft,
             PersistScores, Proceed, FlushDecision, ReturnExistingDraft, ComposeDraft,
             FlushDraft, DraftConflict, UpsertRecommendation, CommitDiscovery, Rollback, tables
    <3> QED
        BY <2>2, <3>1 DEF WritersHaveCommitted
  <2> QED
      BY <2>3, <2>4, <2>5
<1> QED
    BY <1>2, <1>3 DEF Next, Quiet, Step

(* The request that takes the step finds what it relies on.                *)
LEMMA OwnStep ==
    ASSUME IInv, [Next]_vars, NEW p \in Requests, Step(p)
    PROVE  /\ pc'[p] \in {"deciding", "decided", "drafting", "composing", "drafted"}
                => target'[p] \in Recs
           /\ pc'[p] \in {"deciding", "decided"}
                => choice'[p] \in Decisions /\ status'[target'[p]] # "none"
           /\ pc'[p] \in {"drafting", "composing", "drafted"}
                => AllowBeforeApproval
                   \/ \E a \in approvals' : a.rec = target'[p] /\ a.status = "approved"
           /\ pc'[p] = "drafted" => ~HasDraft(target[p])' /\ FlushDraft(p)
<1> USE DEF GoTo, Finish
<1>1. TypeOK /\ DecisionIsRecorded /\ RequestsAreSound
    BY DEF IInv
<1>2. CASE Arrive(p)
  <2>1. ASSUME NEW r \in Recs, NEW d \in Decisions, ReadPending(p, r, d)
        PROVE  pc'[p] = "deciding" /\ target'[p] = r /\ choice'[p] = d /\ status'[r] = "pending"
      BY <1>1, <2>1 DEF ReadPending, TypeOK, tables
  <2>2. ASSUME NEW r \in Recs, ReadForDraft(p, r)
        PROVE  /\ pc'[p] = "drafting" /\ target'[p] = r
               /\ AllowBeforeApproval
                  \/ \E a \in approvals' : a.rec = r /\ a.status = "approved"
      BY <1>1, <2>2 DEF ReadForDraft, MayDraft, TypeOK, tables, DecisionIsRecorded, Decisions
  <2>3. ASSUME NEW r \in Recs, RefuseDecision(p, r) \/ RefuseDraft(p, r)
        PROVE  pc'[p] = "refused"
      BY <1>1, <2>3 DEF RefuseDecision, RefuseDraft, TypeOK
  <2>4. ASSUME NEW S \in SUBSET Recs, NEW top \in Tops(S), PersistScores(p, S, top)
        PROVE  pc'[p] = "ranking"
      BY <1>1, <2>4 DEF PersistScores, TypeOK
  <2> QED
      BY <1>2, <2>1, <2>2, <2>3, <2>4 DEF Arrive
<1>3. CASE FlushDecision(p)
    BY <1>1, <1>3 DEF FlushDecision, RequestsAreSound, TypeOK, tables
<1>4. CASE ComposeDraft(p)
    BY <1>1, <1>4 DEF ComposeDraft, RequestsAreSound, TypeOK, tables
<1>5. CASE FlushDraft(p)
  <2>1. pc[p] = "composing" /\ pc'[p] = "drafted" /\ UNCHANGED <<target, approvals, drafts>>
      BY <1>1, <1>5 DEF FlushDraft, TypeOK, tables
  <2>2. ~HasDraft(target[p])'
      BY <1>5, <2>1 DEF FlushDraft, HasDraft
  <2> QED
      BY <1>1, <1>5, <2>1, <2>2 DEF RequestsAreSound
<1>6. CASE UpsertRecommendation(p)
    BY <1>6 DEF UpsertRecommendation
<1>7. CASE CommitDecision(p) \/ ReturnExistingDraft(p) \/ DraftConflict(p) \/ CommitDraft(p)
           \/ CommitDiscovery(p) \/ Rollback(p)
  <2>1. pc'[p] \in Ended
      BY <1>1, <1>7 DEF CommitDecision, ReturnExistingDraft, DraftConflict, CommitDraft,
                        CommitDiscovery, Rollback, TypeOK, Ended
  <2> QED
      BY <2>1 DEF Ended
<1> QED
    BY <1>2, <1>3, <1>4, <1>5, <1>6, <1>7 DEF Step, Proceed

LEMMA RequestsStep ==
    ASSUME IInv, [Next]_vars
    PROVE  RequestsAreSound'
<1>1. TypeOK /\ RequestsAreSound
    BY DEF IInv
<1>2. CASE UNCHANGED vars
    BY <1>1, <1>2 DEF vars, RequestsAreSound, HasDraft
<1>3. ASSUME NEW p \in Requests, Step(p)
      PROVE  RequestsAreSound'
  <2>1. ASSUME NEW q \in Requests, q # p, pc'[q] = "drafted"
        PROVE  /\ ~HasDraft(target[q])'
               /\ ~FlushDraft(p) \/ target'[p] # target'[q]
    <3>1. pc[q] = "drafted" /\ target'[q] = target[q] /\ ~HasDraft(target[q])
        BY <1>1, <1>3, <2>1, OthersUntouched DEF RequestsAreSound
    <3>2. CommitDraft(p) => target[p] # target[q]
        BY <1>1, <2>1, <3>1 DEF CommitDraft, RequestsAreSound
    <3>3. \A d \in drafts' : d \in drafts \/ (CommitDraft(p) /\ d.rec = target[p])
        BY <1>3 DEF Step, Arrive, ReadPending, RefuseDecision, ReadForDraft, RefuseDraft,
             PersistScores, Proceed, FlushDecision, CommitDecision, ReturnExistingDraft,
             ComposeDraft, FlushDraft, DraftConflict, CommitDraft, UpsertRecommendation,
             CommitDiscovery, Rollback, tables
    <3>4. FlushDraft(p) => target'[p] # target'[q]
        BY <2>1, <3>1 DEF FlushDraft, DraftKeyFree
    <3> QED
        BY <3>1, <3>2, <3>3, <3>4 DEF HasDraft
  <2>2. /\ approvals \subseteq approvals'
        /\ \A r \in Recs : status[r] # "none" => status'[r] # "none"
      BY TablesGrow
  <2>3. ASSUME NEW q \in Requests, q # p
        PROVE  /\ pc'[q] \in {"deciding", "decided", "drafting", "composing", "drafted"}
                    => target'[q] \in Recs
               /\ pc'[q] \in {"deciding", "decided"}
                    => choice'[q] \in Decisions /\ status'[target'[q]] # "none"
               /\ pc'[q] \in {"drafting", "composing", "drafted"}
                    => AllowBeforeApproval
                       \/ \E a \in approvals' : a.rec = target'[q] /\ a.status = "approved"
    <3>1. pc'[q] = pc[q] /\ target'[q] = target[q] /\ choice'[q] = choice[q]
        BY <1>1, <1>3, <2>3, OthersUntouched
    <3> QED
        BY <1>1, <2>2, <3>1 DEF RequestsAreSound
  <2>4. ASSUME NEW q \in Requests, NEW o \in Requests,
               pc'[q] = "drafted", pc'[o] = "drafted", target'[o] = target'[q]
        PROVE  o = q
    <3>1. CASE q # p /\ o # p
        BY <1>1, <1>3, <2>4, <3>1, OthersUntouched DEF RequestsAreSound
    <3>2. CASE q = p \/ o = p
        BY <1>3, <2>1, <2>4, <3>2, OwnStep
    <3> QED
        BY <3>1, <3>2
  <2>5. \A q \in Requests : pc'[q] = "drafted" => ~HasDraft(target[q])'
      BY <1>3, <2>1, OwnStep
  <2>6. /\ pc'[p] \in {"deciding", "decided", "drafting", "composing", "drafted"}
              => target'[p] \in Recs
        /\ pc'[p] \in {"deciding", "decided"}
              => choice'[p] \in Decisions /\ status'[target'[p]] # "none"
        /\ pc'[p] \in {"drafting", "composing", "drafted"}
              => AllowBeforeApproval
                 \/ \E a \in approvals' : a.rec = target'[p] /\ a.status = "approved"
      BY <1>3, OwnStep
  <2> QED
      BY <2>3, <2>4, <2>5, <2>6 DEF RequestsAreSound
<1> QED
    BY <1>2, <1>3 DEF Next, Quiet, Step

-----------------------------------------------------------------------------
(* The invariant holds of every reachable state.                           *)
THEOREM Invariance == Spec => []IInv
<1>1. Init => IInv
    BY DEF Init, IInv, TypeOK, DecisionIsRecorded, AuditTellsAll, DraftsAreSound,
           RequestsAreSound, WritersHaveCommitted, Decisions, Active, Ended
<1>2. IInv /\ [Next]_vars => IInv'
    BY TypeStep, DecisionStep, TrailStep, DraftsStep, RequestsStep, WritersStep DEF IInv
<1> QED
    BY <1>1, <1>2, PTL DEF Spec

(* Every variable has its type in every reachable state.                   *)
THEOREM TypeCorrect == Spec => []TypeOK
<1>1. IInv => TypeOK
    BY DEF IInv
<1> QED
    BY <1>1, Invariance, PTL

(* A decided status is always backed by its approval.                      *)
THEOREM DecisionsAreRecorded == Spec => []DecisionIsRecorded
<1>1. IInv => DecisionIsRecorded
    BY DEF IInv
<1> QED
    BY <1>1, Invariance, PTL

(* The audit trail and the tables always agree, entry for row.             *)
THEOREM TrailIsComplete == Spec => []AuditTellsAll
<1>1. IInv => AuditTellsAll
    BY DEF IInv
<1> QED
    BY <1>1, Invariance, PTL

(* A draft is always the only one of an approved recommendation.           *)
THEOREM DraftsStaySound == Spec => []DraftsAreSound
<1>1. IInv => DraftsAreSound
    BY DEF IInv
<1> QED
    BY <1>1, Invariance, PTL

-----------------------------------------------------------------------------
(* The committed tables evolve as ReviewLedger allows: each commit is one  *)
(* step of the ledger and every other statement is a stutter.              *)
THEOREM LedgerRefinement == Spec => ImplementsLedger
<1>1. Init => Ledger!Init
    BY DEF Init, Ledger!Init
<1>2. IInv /\ [Next]_vars => [Ledger!Next]_<<status, audit>>
  <2> SUFFICES ASSUME IInv, [Next]_vars
               PROVE  [Ledger!Next]_<<status, audit>>
      OBVIOUS
  <2>1. CASE UNCHANGED tables
      BY <2>1 DEF tables
  <2>2. ASSUME NEW q \in Requests, CommitDecision(q)
        PROVE  Ledger!Next
    <3>1. Ledger!Decide(q, target[q], choice[q])
        BY <2>2, CommitsAreSound DEF CommitDecision, Ledger!Decide
    <3> QED
        BY <2>2, <3>1, CommitsAreSound DEF Ledger!Next, Decisions, Ledger!Decisions
  <2>3. ASSUME NEW q \in Requests, CommitDraft(q)
        PROVE  Ledger!Next
    <3>1. pc[q] = "drafted" /\ target[q] \in Recs /\ \A e \in audit : e.req # q
        BY <2>3, CommitsAreSound DEF CommitDraft
    <3>2. ~Ledger!HasDraft(target[q])
        BY <3>1 DEF IInv, RequestsAreSound, AuditTellsAll, HasDraft, Ledger!HasDraft
    <3>3. AllowBeforeApproval \/ Ledger!WasApproved(target[q])
        BY <3>1 DEF IInv, RequestsAreSound, AuditTellsAll, Ledger!WasApproved
    <3>4. Ledger!Draft(q, target[q])
        BY <2>3, <3>1, <3>2, <3>3 DEF CommitDraft, Ledger!Draft
    <3> QED
        BY <3>1, <3>4 DEF Ledger!Next
  <2>4. ASSUME NEW q \in Requests, CommitDiscovery(q)
        PROVE  Ledger!Next
    <3>1. rows[q] \in SUBSET Recs
        BY DEF IInv, TypeOK
    <3>2. Ledger!Open(rows[q])
        BY <2>4 DEF CommitDiscovery, Ledger!Open
    <3> QED
        BY <3>1, <3>2 DEF Ledger!Next
  <2> QED
      BY OnlyCommitsChangeTables, <2>1, <2>2, <2>3, <2>4
<1> QED
    BY <1>1, <1>2, Invariance, PTL DEF Spec, ImplementsLedger, Ledger!Spec
=============================================================================
