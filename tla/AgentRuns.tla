------------------------------ MODULE AgentRuns ------------------------------
(***************************************************************************)
(* AgentRunner.run: an agent asks the language model for an output of its  *)
(* schema, asks again when it does not validate, a bounded number of       *)
(* times, and stops when the calls cost more than its budget.  Its record  *)
(* is added to the caller's session when it starts and written again when  *)
(* it ends; the specialist then checks what the output's facts cite.       *)
(* The agents of one caller run one after the other in its transaction,    *)
(* and the caller may catch what one raises.                               *)
(***************************************************************************)
EXTENDS Naturals, FiniteSetsExt

CONSTANTS
    Agents,      \* the runs the caller may start
    Costs,       \* what a call may cost
    Maximum,     \* maximum_cost_usd
    MaxRepairs,  \* max_repair_attempts
    NoRow

ASSUME CostsAssumption ==
    Costs \subseteq Nat /\ \E most \in Costs : \A cost \in Costs : cost <= most
ASSUME BoundsAssumption == Maximum \in Nat /\ MaxRepairs \in Nat

Errors == {"none", "schema", "budget", "provider"}
Record == [status : {"running", "succeeded", "failed"}, output : BOOLEAN, cost : Nat,
           error : Errors]
ASSUME NoRowAssumption == NoRow \notin Record /\ NoRow \notin Agents

VARIABLES
    active,      \* the run that is on its way, if one is
    step,        \* where it is
    spent,       \* CostBudgetGuard.spent_usd of it
    used,        \* its total_usage
    repairs,     \* its repair_attempts
    rows,        \* agent_runs as the session has written them
    txn          \* the caller's transaction

agentVars == <<active, step, spent, used, repairs, rows, txn>>

AllCosts == 0..((MaxRepairs + 1) * Max(Costs))

AgentTypeOK ==
    /\ active \in Agents \cup {NoRow}
    /\ step \in {"none", "calling", "checking", "raising"}
    /\ (step = "none") <=> (active = NoRow)
    /\ spent \in AllCosts /\ used \in AllCosts /\ repairs \in 0..MaxRepairs
    /\ rows \in [Agents -> Record \cup {NoRow}]
    /\ txn \in {"open", "committed", "rolledback"}

NoAgentRan ==
    /\ active = NoRow /\ step = "none"
    /\ spent = 0 /\ used = 0 /\ repairs = 0
    /\ rows = [a \in Agents |-> NoRow]
    /\ txn = "open"

-----------------------------------------------------------------------------
Start(a) ==
    /\ txn = "open" /\ active = NoRow /\ rows[a] = NoRow
    /\ active' = a /\ step' = "calling"
    /\ spent' = 0 /\ used' = 0 /\ repairs' = 0
    /\ rows' = [rows EXCEPT ![a] = [status |-> "running", output |-> FALSE, cost |-> 0,
                                    error |-> "none"]]
    /\ UNCHANGED txn

(* The handler of every exception: the record fails and is written again.  *)
(* Mutant: it is raised without a trace.                                   *)
FailUnrecorded(error, cost) ==
    /\ step' = "raising"
    /\ UNCHANGED rows

Fail(error, cost) ==
    /\ step' = "raising"
    /\ rows' = [rows EXCEPT ![active] = [status |-> "failed", output |-> FALSE, cost |-> cost,
                                         error |-> error]]

(* An output that does not validate.  Mutant: the last repair is followed  *)
(* by one more.                                                            *)
RepairOnceMore(cost) ==
    IF repairs > MaxRepairs
    THEN Fail("schema", cost) /\ UNCHANGED repairs
    ELSE repairs' = repairs + 1 /\ UNCHANGED <<step, rows>>

Repair(cost) ==
    IF repairs >= MaxRepairs
    THEN Fail("schema", cost) /\ UNCHANGED repairs
    ELSE repairs' = repairs + 1 /\ UNCHANGED <<step, rows>>

(* CostBudgetGuard.reserve; mutant: each call is held against the whole    *)
(* budget.                                                                 *)
ReservesAlone(cost) == cost <= Maximum

Reserves(cost) == spent + cost <= Maximum

-----------------------------------------------------------------------------
(* What a call comes to.  The usage of a response counts before the budget *)
(* is asked, and the budget is asked before the output is validated.       *)
RespondOverBudget ==
    \E cost \in Costs :
        /\ step = "calling" /\ ~Reserves(cost)
        /\ used' = used + cost
        /\ Fail("budget", used + cost)
        /\ UNCHANGED <<active, spent, repairs, txn>>

RespondInvalid ==
    \E cost \in Costs :
        /\ step = "calling" /\ Reserves(cost)
        /\ used' = used + cost /\ spent' = spent + cost
        /\ Repair(used + cost)
        /\ UNCHANGED <<active, txn>>

RespondValid ==
    \E cost \in Costs :
        /\ step = "calling" /\ Reserves(cost)
        /\ used' = used + cost /\ spent' = spent + cost
        /\ step' = "checking"
        /\ rows' = [rows EXCEPT ![active] = [status |-> "succeeded", output |-> TRUE,
                                             cost |-> used + cost, error |-> "none"]]
        /\ UNCHANGED <<active, repairs, txn>>

(* The client raises, having parsed nothing: whatever the call cost, the   *)
(* runner is not told.                                                     *)
RespondUnparsed ==
    /\ step = "calling"
    /\ Repair(used)
    /\ UNCHANGED <<active, spent, used, txn>>

CallFails ==
    /\ step = "calling"
    /\ Fail("provider", used)
    /\ UNCHANGED <<active, spent, used, repairs, txn>>

-----------------------------------------------------------------------------
(* The specialist: the facts cite what the agent was given, or they do not *)
(* and the exception leaves the record as it is.                           *)
Leave ==
    /\ active' = NoRow /\ step' = "none"
    /\ spent' = 0 /\ used' = 0 /\ repairs' = 0

Accept == step = "checking" /\ Leave /\ UNCHANGED <<rows, txn>>

Reject ==
    /\ step = "checking"
    /\ step' = "raising"
    /\ UNCHANGED <<active, spent, used, repairs, rows, txn>>

(* The caller catches the exception or lets it end the transaction; a      *)
(* cancelled call or a lost connection ends it as well.                    *)
Catch == step = "raising" /\ Leave /\ UNCHANGED <<rows, txn>>

CallerRollsBack ==
    /\ txn = "open"
    /\ txn' = "rolledback"
    /\ rows' = [a \in Agents |-> NoRow]
    /\ Leave

CallerCommits ==
    /\ txn = "open" /\ active = NoRow
    /\ txn' = "committed"
    /\ UNCHANGED <<active, step, spent, used, repairs, rows>>

-----------------------------------------------------------------------------
AgentProceeds ==
    \/ RespondOverBudget \/ RespondInvalid \/ RespondValid \/ RespondUnparsed \/ CallFails
    \/ Accept \/ Reject \/ Catch

CallerIsDone == txn # "open" /\ UNCHANGED agentVars

AgentNext == AgentProceeds \/ CallerRollsBack \/ CallerCommits \/ CallerIsDone \/ \E a \in Agents : Start(a)

RunningAgents == NoAgentRan /\ [][AgentNext]_agentVars

-----------------------------------------------------------------------------
(* A run spends more than its budget by no more than one call whose usage  *)
(* it was told, after which it makes no other.                             *)
OverspendsByOneCall ==
    /\ step = "calling" => used <= Maximum
    /\ \A a \in Agents : rows[a] # NoRow => rows[a].cost <= Maximum + Max(Costs)

(* What is committed tells how each run ended: none is still running, one  *)
(* that failed has an error and no output, one that succeeded has its      *)
(* output and kept to its budget, and one over it failed for that.         *)
CommittedRunsAreOver ==
    txn = "committed" =>
        \A a \in Agents : rows[a] # NoRow =>
            /\ rows[a].status \in {"succeeded", "failed"}
            /\ rows[a].status = "failed" <=> rows[a].error # "none"
            /\ rows[a].status = "succeeded" <=> rows[a].output
            /\ rows[a].status = "succeeded" => rows[a].cost <= Maximum
            /\ rows[a].error = "budget" <=> rows[a].cost > Maximum
=============================================================================
