---------------------------- MODULE MCRunRecords ----------------------------
(***************************************************************************)
(* Bounds for TLC.  The jobs row of discovery runs and the records of      *)
(* agents share nothing, so that the one stays where it starts while the   *)
(* other moves.                                                            *)
(*                                                                         *)
(* Discovery: three runs, one that creates the row and two that restart it *)
(* at the same time; two sources, of which one may fail without the other. *)
(*                                                                         *)
(* Agents: two runs of one caller, two repairs, calls that cost nothing,   *)
(* little or more than half the budget, so that it breaks at the second or *)
(* the third.                                                              *)
(***************************************************************************)
EXTENDS DiscoveryJob, AgentRuns
CONSTANTS a, b, c, s1, s2, a1, a2

MCRuns == {a, b, c}
MCSources == {s1, s2}
MCAgents == {a1, a2}
MCCosts == {0, 1, 2}

RecordsInit == Init /\ NoAgentRan

RecordsNext ==
    \/ NoAgentRan /\ Next /\ UNCHANGED agentVars
    \/ Init /\ AgentNext /\ UNCHANGED vars

(* The fairness is that of DiscoveryJob.                                   *)
RecordsSpec ==
    /\ RecordsInit /\ [][RecordsNext]_<<vars, agentVars>>
    /\ \A q \in Runs : WF_<<vars, agentVars>>(Proceed(q) /\ UNCHANGED agentVars)
=============================================================================
