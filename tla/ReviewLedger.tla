---------------------------- MODULE ReviewLedger ----------------------------
(***************************************************************************)
(* What the review of recommendations promises, with no transaction, lock  *)
(* or request in sight: a recommendation has a status, and the audit       *)
(* ledger is an ever-growing set of entries.  An operator's decision       *)
(* changes the status and adds its entry in one step; a discovery run puts *)
(* a set of recommendations (back) under review in one step; a marketing   *)
(* draft is added at most once per recommendation and, unless the          *)
(* deployment allows it, only for one that was approved at some time.      *)
(*                                                                         *)
(* Approvals.tla is shown to implement this module.                        *)
(***************************************************************************)
CONSTANTS
    Recs,                  \* recommendations, one per (candidate, scoring version)
    Requests,              \* HTTP requests; a request writes at most one entry
    AllowBeforeApproval    \* settings.allow_marketing_draft_before_approval

VARIABLES
    status,                \* recommendations.status, "none" when there is no row
    ledger                 \* audit_events

Decisions == {"approved", "rejected", "deferred"}
Entry == [rec : Recs, type : Decisions \cup {"draft"}, req : Requests]

WasApproved(r) == \E e \in ledger : e.rec = r /\ e.type = "approved"
HasDraft(r) == \E e \in ledger : e.rec = r /\ e.type = "draft"

Init ==
    /\ status \in [Recs -> {"none", "pending"}]
    /\ ledger = {}

(* A discovery run commits: its recommendations are pending (again).       *)
Open(S) ==
    /\ status' = [r \in Recs |-> IF r \in S THEN "pending" ELSE status[r]]
    /\ UNCHANGED ledger

(* The status and the ledger move together, whatever the decision.         *)
Decide(q, r, d) ==
    /\ status[r] # "none"
    /\ \A e \in ledger : e.req # q
    /\ status' = [status EXCEPT ![r] = d]
    /\ ledger' = ledger \cup {[rec |-> r, type |-> d, req |-> q]}

Draft(q, r) ==
    /\ ~HasDraft(r)
    /\ AllowBeforeApproval \/ WasApproved(r)
    /\ \A e \in ledger : e.req # q
    /\ ledger' = ledger \cup {[rec |-> r, type |-> "draft", req |-> q]}
    /\ UNCHANGED status

Next ==
    \/ \E S \in SUBSET Recs : Open(S)
    \/ \E q \in Requests, r \in Recs : Draft(q, r) \/ \E d \in Decisions : Decide(q, r, d)

Spec == Init /\ [][Next]_<<status, ledger>>
=============================================================================
