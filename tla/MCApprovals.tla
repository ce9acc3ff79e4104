---------------------------- MODULE MCApprovals ----------------------------
(* Bounds for TLC: every request id arrives at most once, as any kind of   *)
(* request, so their number bounds the history.  Three requests make the   *)
(* cases that matter: an approval followed by two drafts that race, two    *)
(* decisions and a discovery run, two discovery runs and a decision.       *)
EXTENDS Approvals
CONSTANTS r1, r2, q1, q2, q3

MCRecs == {r1, r2}
MCRequests == {q1, q2, q3}
=============================================================================
