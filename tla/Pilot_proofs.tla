---------------------------- MODULE Pilot_proofs ----------------------------
(***************************************************************************)
(* Proofs about Pilot for any tenants, keys, requests, jobs and            *)
(* recommendations.  The core of the first half is that a setter's row     *)
(* cannot be written by another between its own UPDATE and its commit, so  *)
(* that what it loaded is out of date only where the history variable      *)
(* moved says so.  The core of the second half is what each count a        *)
(* dashboard has read is worth by the time the next one is read: the rows  *)
(* it misses are the ones its history variable since has noted.            *)
(***************************************************************************)
EXTENDS Pilot, FiniteSetTheorems, TLAPS

(* The columns of a request that no step changes.                          *)
SessionsAreTyped ==
    /\ flags \in [Tenants -> [Keys -> BOOLEAN \cup {NoRow}]]
    /\ config \in [Tenants -> Onboardings \cup {NoRow}]
    /\ session \in [Calls -> [pc : {"absent", "idle", "loaded", "written"} \cup Ended,
                               loaded : BOOLEAN \cup {NoRow}, tenant : Tenants, key : STRING,
                               enabled : BOOLEAN]]

(* Onboarding commits a configuration and its flags together.              *)
FlagsComeTogether ==
    \A t \in Tenants, k \in Keys : flags[t][k] = NoRow <=> config[t] = NoRow

Busy(q) == At(q, "loaded") \/ At(q, "written")
Flag(q) == flags[session[q].tenant][session[q].key]

(* A setter under way has a flag, which is what it loaded unless another   *)
(* setter has committed since.                                             *)
LoadedIsStored ==
    \A q \in Setters : Busy(q) =>
        /\ session[q].key \in Keys
        /\ Flag(q) # NoRow
        /\ q \notin moved => Flag(q) = session[q].loaded

OneWriter ==
    \A p, q \in Setters : At(p, "written") /\ At(q, "written") /\ SameFlag(p, q) => p = q

IInv == SessionsAreTyped /\ FlagsComeTogether /\ LoadedIsStored /\ OneWriter

-----------------------------------------------------------------------------
LEMMA InitIsInductive == Init => IInv
<1> SUFFICES ASSUME Init PROVE IInv
    OBVIOUS
<1>1. PICK history \in Histories :
          session = [q \in Calls |->
              [pc |-> IF q \in history.come THEN "idle" ELSE "absent", loaded |-> NoRow,
               tenant |-> history.asked[q].tenant, key |-> history.asked[q].key,
               enabled |-> history.asked[q].enabled]]
    BY DEF Init
<1>2. history.asked \in [Calls -> [tenant : Tenants, key : STRING, enabled : BOOLEAN]]
    BY HistoriesAssumption
<1>3. \A q \in Calls : /\ history.asked[q].tenant \in Tenants
                        /\ history.asked[q].key \in STRING
                        /\ history.asked[q].enabled \in BOOLEAN
    BY <1>2
<1>4. SessionsAreTyped
  <2>1. flags \in [Tenants -> [Keys -> BOOLEAN \cup {NoRow}]]
        /\ config \in [Tenants -> Onboardings \cup {NoRow}]
      BY DEF Init
  <2> QED
      BY <1>1, <1>3, <2>1 DEF SessionsAreTyped, Ended
<1>5. FlagsComeTogether
    BY DEF Init, FlagsComeTogether
<1>6. \A q \in Setters : ~At(q, "loaded") /\ ~At(q, "written")
    BY <1>1 DEF At, Calls
<1> QED
    BY <1>4, <1>5, <1>6 DEF IInv, LoadedIsStored, OneWriter, Busy

(* A request that only goes on and is no setter under way afterwards.      *)
LEMMA GoingOnIsQuiet ==
    ASSUME IInv, NEW q \in Calls, NEW pc \in {"absent", "idle", "loaded", "written"} \cup Ended,
           Goes(q, pc), q \in Onboardings \/ pc \notin {"loaded", "written"},
           UNCHANGED <<settings, moved>>
    PROVE  IInv'
<1>1. UNCHANGED <<flags, config>>
    BY DEF settings
<1>2. SessionsAreTyped' /\ FlagsComeTogether'
    BY <1>1 DEF IInv, SessionsAreTyped, FlagsComeTogether, Goes
<1>3. \A p \in Setters : /\ session'[p].tenant = session[p].tenant
                         /\ session'[p].key = session[p].key
                         /\ session'[p].loaded = session[p].loaded
                         /\ session'[p].pc \in {"loaded", "written"} => session'[p].pc = session[p].pc
    BY CallsAssumption DEF IInv, SessionsAreTyped, Goes, Calls
<1>4. LoadedIsStored'
    BY <1>1, <1>3 DEF IInv, LoadedIsStored, Busy, At, Flag
<1>5. OneWriter'
    BY <1>3 DEF IInv, OneWriter, At, SameFlag
<1> QED
    BY <1>2, <1>4, <1>5 DEF IInv

LEMMA CommitOnboardingKeepsIInv ==
    ASSUME IInv, NEW q \in Onboardings, CommitOnboarding(q)
    PROVE  IInv'
<1> DEFINE t == session[q].tenant
<1>1. q \in Calls /\ t \in Tenants
    BY DEF Calls, IInv, SessionsAreTyped
<1>2. /\ config' = [config EXCEPT ![t] = q] /\ flags' = [flags EXCEPT ![t] = FlagsFilled(t)]
      /\ Goes(q, "done") /\ moved' = moved
    BY DEF CommitOnboarding
<1>3. /\ FlagsFilled(t) \in [Keys -> BOOLEAN \cup {NoRow}]
      /\ \A k \in Keys : FlagsFilled(t)[k] # NoRow
      /\ \A k \in Keys : flags[t][k] # NoRow => FlagsFilled(t)[k] = flags[t][k]
    BY <1>1, DefaultAssumption, NoRowAssumption DEF FlagsFilled, IInv, SessionsAreTyped
<1>4. SessionsAreTyped'
    BY <1>1, <1>2, <1>3 DEF IInv, SessionsAreTyped, Goes, Ended
<1>5. FlagsComeTogether'
    BY <1>1, <1>2, <1>3, NoRowAssumption DEF IInv, SessionsAreTyped, FlagsComeTogether
<1>6. \A u \in Tenants, k \in Keys : flags[u][k] # NoRow => flags'[u][k] = flags[u][k]
    BY <1>1, <1>2, <1>3 DEF IInv, SessionsAreTyped
<1>7. \A p \in Setters : p \in Calls /\ p # q /\ session'[p] = session[p]
                         /\ session[p].tenant \in Tenants
    BY <1>2, CallsAssumption DEF IInv, SessionsAreTyped, Goes, Calls
<1>8. LoadedIsStored'
    BY <1>2, <1>6, <1>7 DEF IInv, LoadedIsStored, Busy, At, Flag
<1>9. OneWriter'
    BY <1>7 DEF IInv, OneWriter, At, SameFlag
<1> QED
    BY <1>4, <1>5, <1>8, <1>9 DEF IInv

LEMMA LoadFlagKeepsIInv ==
    ASSUME IInv, NEW q \in Setters, LoadFlag(q)
    PROVE  IInv'
<1>1. /\ q \in Calls /\ Stored(q) # NoRow /\ UNCHANGED <<flags, config, moved>>
      /\ session' = [session EXCEPT ![q].pc = "loaded", ![q].loaded = Stored(q)]
    BY DEF LoadFlag, Calls, settings
<1>2. session[q].key \in Keys /\ Stored(q) = Flag(q)
    BY <1>1 DEF Stored, Flag
<1>3. Stored(q) \in BOOLEAN \cup {NoRow}
    BY <1>1, <1>2 DEF Flag, IInv, SessionsAreTyped
<1>4. SessionsAreTyped' /\ FlagsComeTogether'
    BY <1>1, <1>3 DEF IInv, SessionsAreTyped, FlagsComeTogether
<1>5. \A p \in Setters \ {q} : session'[p] = session[p]
    BY <1>1 DEF IInv, SessionsAreTyped, Calls
<1>6. /\ session'[q].pc = "loaded" /\ session'[q].loaded = Stored(q)
      /\ session'[q].tenant = session[q].tenant /\ session'[q].key = session[q].key
    BY <1>1 DEF IInv, SessionsAreTyped
<1>7. LoadedIsStored'
  <2>1. SUFFICES ASSUME NEW p \in Setters, Busy(p)'
                 PROVE  /\ session'[p].key \in Keys
                        /\ flags'[session'[p].tenant][session'[p].key] # NoRow
                        /\ p \notin moved' =>
                              flags'[session'[p].tenant][session'[p].key] = session'[p].loaded
      BY DEF LoadedIsStored, Flag
  <2>2. CASE p = q
      BY <1>1, <1>2, <1>6, <2>2 DEF Flag
  <2>3. CASE p # q
    <3>1. session'[p] = session[p] /\ Busy(p)
        BY <1>5, <2>1, <2>3 DEF Busy, At
    <3> QED
        BY <1>1, <3>1 DEF IInv, LoadedIsStored, Flag
  <2> QED
      BY <2>2, <2>3
<1>8. OneWriter'
    BY <1>5, <1>6 DEF IInv, OneWriter, At, SameFlag
<1> QED
    BY <1>4, <1>7, <1>8 DEF IInv

LEMMA WriteFlagKeepsIInv ==
    ASSUME IInv, NEW q \in Setters, WriteFlag(q)
    PROVE  IInv'
<1>1. /\ q \in Calls /\ At(q, "loaded") /\ UNCHANGED <<flags, config, moved>>
      /\ Goes(q, "written") /\ \A p \in Setters : SameFlag(p, q) => ~At(p, "written")
    BY DEF WriteFlag, Calls, settings
<1>2. SessionsAreTyped' /\ FlagsComeTogether'
    BY <1>1 DEF IInv, SessionsAreTyped, FlagsComeTogether, Goes
<1>3. \A p \in Setters \ {q} : session'[p] = session[p]
    BY <1>1 DEF IInv, SessionsAreTyped, Calls, Goes
<1>4. /\ session'[q].pc = "written" /\ session'[q].loaded = session[q].loaded
      /\ session'[q].tenant = session[q].tenant /\ session'[q].key = session[q].key
    BY <1>1 DEF IInv, SessionsAreTyped, Goes
<1>5. LoadedIsStored'
    BY <1>1, <1>3, <1>4 DEF IInv, LoadedIsStored, Busy, At, Flag
<1>6. OneWriter'
    BY <1>1, <1>3, <1>4 DEF IInv, OneWriter, At, SameFlag
<1> QED
    BY <1>2, <1>5, <1>6 DEF IInv

(* The commit of a setter: whoever had loaded the same flag is in moved    *)
(* from then on, and nobody else has written it.                           *)
LEMMA CommitFlagKeepsIInv ==
    ASSUME IInv, NEW q \in Setters, CommitFlag(q)
    PROVE  IInv'
<1> DEFINE t == session[q].tenant
           k == session[q].key
<1>1. /\ q \in Calls /\ At(q, "written") /\ Goes(q, "done") /\ config' = config
      /\ flags' = IF session[q].enabled = session[q].loaded THEN flags
                  ELSE [flags EXCEPT ![t][k] = session[q].enabled]
      /\ moved' = moved \cup {p \in Setters \ {q} : SameFlag(p, q) /\ At(p, "loaded")}
    BY DEF CommitFlag, Calls
<1>2. t \in Tenants /\ k \in Keys /\ flags[t][k] # NoRow /\ session[q].enabled \in BOOLEAN
    BY <1>1 DEF IInv, SessionsAreTyped, LoadedIsStored, Busy, Flag
<1>3. /\ flags' \in [Tenants -> [Keys -> BOOLEAN \cup {NoRow}]]
      /\ \A u \in Tenants, j \in Keys : u # t \/ j # k => flags'[u][j] = flags[u][j]
      /\ flags'[t][k] # NoRow
    BY <1>1, <1>2, NoRowAssumption DEF IInv, SessionsAreTyped
<1>4. SessionsAreTyped'
    BY <1>1, <1>3 DEF IInv, SessionsAreTyped, Goes, Ended
<1>5. FlagsComeTogether'
    BY <1>1, <1>2, <1>3 DEF IInv, FlagsComeTogether
<1>6. \A p \in Setters \ {q} : session'[p] = session[p] /\ session[p].tenant \in Tenants
    BY <1>1 DEF IInv, SessionsAreTyped, Calls, Goes
<1>7. session'[q].pc = "done"
    BY <1>1 DEF IInv, SessionsAreTyped, Goes
<1>8. LoadedIsStored'
  <2>1. SUFFICES ASSUME NEW p \in Setters, Busy(p)'
                 PROVE  /\ session'[p].key \in Keys
                        /\ flags'[session'[p].tenant][session'[p].key] # NoRow
                        /\ p \notin moved' =>
                              flags'[session'[p].tenant][session'[p].key] = session'[p].loaded
      BY DEF LoadedIsStored, Flag
  <2>2. p # q /\ session'[p] = session[p] /\ session[p].tenant \in Tenants /\ Busy(p)
      BY <2>1, <1>6, <1>7 DEF Busy, At
  <2>3. /\ session[p].key \in Keys /\ Flag(p) # NoRow
        /\ p \notin moved => Flag(p) = session[p].loaded
      BY <2>2 DEF IInv, LoadedIsStored
  <2>4. CASE SameFlag(p, q)
    <3>1. ~At(p, "written")
        BY <1>1, <2>2, <2>4 DEF IInv, OneWriter
    <3>2. p \in moved'
        BY <1>1, <2>2, <2>4, <3>1 DEF Busy
    <3> QED
        BY <1>3, <2>2, <2>3, <2>4, <3>2 DEF SameFlag
  <2>5. CASE ~SameFlag(p, q)
    <3>1. flags'[session[p].tenant][session[p].key] = Flag(p)
        BY <1>3, <2>2, <2>3, <2>5 DEF SameFlag, Flag
    <3> QED
        BY <1>1, <2>2, <2>3, <3>1
  <2> QED
      BY <2>4, <2>5
<1>9. OneWriter'
    BY <1>6, <1>7 DEF IInv, OneWriter, At, SameFlag
<1> QED
    BY <1>4, <1>5, <1>8, <1>9 DEF IInv

(* What happens beside the requests touches none of their rows.            *)
LEMMA ElsewhereKeepsIInv ==
    ASSUME IInv, UNCHANGED <<settings, session, moved>>
    PROVE  IInv'
BY DEF settings, IInv, SessionsAreTyped, FlagsComeTogether, LoadedIsStored, OneWriter, Busy, At,
       Flag, SameFlag

LEMMA NextKeepsIInv == IInv /\ [Next]_vars => IInv'
<1> SUFFICES ASSUME IInv, [Next]_vars PROVE IInv'
    OBVIOUS
<1>1. ASSUME NEW q \in Onboardings, Onboard(q) PROVE IInv'
    BY <1>1, GoingOnIsQuiet DEF Onboard, Calls
<1>2. ASSUME NEW q \in Setters, MissFlag(q) PROVE IInv'
    BY <1>2, GoingOnIsQuiet DEF MissFlag, Calls, Ended
<1>3. ASSUME NEW q \in Calls, Abort(q) PROVE IInv'
    BY <1>3, GoingOnIsQuiet DEF Abort, Ended
<1>4. ASSUME NEW j \in Jobs, CommitDiscovery(j) PROVE IInv'
    BY <1>4, ElsewhereKeepsIInv DEF CommitDiscovery, Note
<1>5. ASSUME NEW r \in Recs, CommitDecision(r) PROVE IInv'
    BY <1>5, ElsewhereKeepsIInv DEF CommitDecision, Note
<1>6. ASSUME NEW t \in Tenants, CommitAgentRun(t) \/ Feedback(t) PROVE IInv'
    BY <1>6, ElsewhereKeepsIInv DEF CommitAgentRun, Feedback, Note
<1>7. ASSUME NEW b \in Boards, Select(b) PROVE IInv'
    BY <1>7, ElsewhereKeepsIInv DEF Select
<1>8. CASE Over \/ UNCHANGED vars
    BY <1>8, ElsewhereKeepsIInv DEF Over, vars
<1> QED
    BY <1>1, <1>2, <1>3, <1>4, <1>5, <1>6, <1>7, <1>8, CommitOnboardingKeepsIInv,
       LoadFlagKeepsIInv, WriteFlagKeepsIInv, CommitFlagKeepsIInv DEF Next

LEMMA Inductive == Spec => []IInv
BY InitIsInductive, NextKeepsIInv, PTL DEF Spec

-----------------------------------------------------------------------------
(* The three parts of FlagsAreAsAsked.                                     *)
ReadyTogether == \A t \in Tenants : config[t] # NoRow <=> \A k \in Keys : flags[t][k] # NoRow

Obeyed ==
    \A q \in Setters : At(q, "written") /\ session'[q].pc = "done" =>
        \/ flags'[session[q].tenant][session[q].key] = session[q].enabled
        \/ q \in moved /\ session[q].loaded = session[q].enabled

OnlyAsAsked ==
    \A t \in Tenants, k \in Keys : flags'[t][k] # flags[t][k] =>
        \/ flags[t][k] = NoRow /\ flags'[t][k] = Default[k]
        \/ \E q \in Setters : /\ At(q, "written") /\ session'[q].pc = "done"
                              /\ session[q].tenant = t /\ session[q].key = k
                              /\ flags'[t][k] = session[q].enabled

LEMMA CommitFlagObeys ==
    ASSUME IInv, NEW q \in Setters, CommitFlag(q)
    PROVE  /\ \/ flags'[session[q].tenant][session[q].key] = session[q].enabled
              \/ q \in moved /\ session[q].loaded = session[q].enabled
           /\ session'[q].pc = "done" /\ At(q, "written")
           /\ \A p \in Setters \ {q} : session'[p] = session[p]
           /\ \A t \in Tenants, k \in Keys : flags'[t][k] # flags[t][k] =>
                 session[q].tenant = t /\ session[q].key = k
                 /\ flags'[t][k] = session[q].enabled
<1> DEFINE u == session[q].tenant
           j == session[q].key
<1>1. /\ q \in Calls /\ At(q, "written") /\ Goes(q, "done")
      /\ flags' = IF session[q].enabled = session[q].loaded THEN flags
                  ELSE [flags EXCEPT ![u][j] = session[q].enabled]
    BY DEF CommitFlag, Calls
<1>2. /\ u \in Tenants /\ j \in Keys
      /\ q \notin moved => flags[u][j] = session[q].loaded
    BY <1>1 DEF IInv, SessionsAreTyped, LoadedIsStored, Busy, Flag
<1>3. flags \in [Tenants -> [Keys -> BOOLEAN \cup {NoRow}]]
    BY DEF IInv, SessionsAreTyped
<1>4. /\ session'[q].pc = "done"
      /\ \A p \in Setters \ {q} : session'[p] = session[p]
    BY <1>1 DEF IInv, SessionsAreTyped, Calls, Goes
<1>5. CASE session[q].enabled = session[q].loaded
    BY <1>1, <1>2, <1>4, <1>5
<1>6. CASE session[q].enabled # session[q].loaded
  <2>1. flags' = [flags EXCEPT ![u][j] = session[q].enabled]
      BY <1>1, <1>6
  <2>2. flags'[u][j] = session[q].enabled
      BY <1>2, <1>3, <2>1
  <2>3. \A t \in Tenants, k \in Keys : t # u \/ k # j => flags'[t][k] = flags[t][k]
      BY <1>2, <1>3, <2>1
  <2> QED
      BY <1>1, <1>4, <2>2, <2>3
<1> QED
    BY <1>5, <1>6

(* A step that is no setter's commit completes no setter.                  *)
LEMMA OthersCompleteNobody ==
    ASSUME IInv, [Next]_vars, \A q \in Setters : ~CommitFlag(q)
    PROVE  \A q \in Setters : At(q, "written") => session'[q].pc # "done"
<1> SUFFICES ASSUME NEW s \in Setters, At(s, "written") PROVE session'[s].pc # "done"
    OBVIOUS
<1>1. s \in Calls /\ session[s].pc = "written" /\ s \notin Onboardings
    BY CallsAssumption DEF Calls, At
<1>2. session \in [Calls -> [pc : {"absent", "idle", "loaded", "written"} \cup Ended,
                             loaded : BOOLEAN \cup {NoRow}, tenant : Tenants, key : STRING,
                             enabled : BOOLEAN]]
    BY DEF IInv, SessionsAreTyped
<1>3. ASSUME NEW q \in Onboardings, Onboard(q) \/ CommitOnboarding(q)
      PROVE  session'[s].pc # "done"
    BY <1>1, <1>2, <1>3 DEF Onboard, CommitOnboarding, Goes
<1>4. ASSUME NEW q \in Setters, LoadFlag(q) PROVE session'[s].pc # "done"
    BY <1>1, <1>2, <1>4 DEF LoadFlag
<1>5. ASSUME NEW q \in Setters, MissFlag(q) \/ WriteFlag(q) PROVE session'[s].pc # "done"
    BY <1>1, <1>2, <1>5 DEF MissFlag, WriteFlag, Goes
<1>6. ASSUME NEW q \in Calls, Abort(q) PROVE session'[s].pc # "done"
    BY <1>1, <1>2, <1>6 DEF Abort, Goes
<1>7. CASE UNCHANGED session
    BY <1>1, <1>7
<1> QED
    BY <1>3, <1>4, <1>5, <1>6, <1>7
    DEF Next, CommitDiscovery, CommitDecision, CommitAgentRun, Feedback, Note, Select, Over, vars

(* Such a step changes a flag only where onboarding fills it in.           *)
LEMMA OthersOnlyFillIn ==
    ASSUME IInv, [Next]_vars, \A q \in Setters : ~CommitFlag(q)
    PROVE  \A t \in Tenants, k \in Keys : flags'[t][k] # flags[t][k] =>
               flags[t][k] = NoRow /\ flags'[t][k] = Default[k]
<1>1. ASSUME NEW q \in Onboardings, CommitOnboarding(q)
      PROVE  \A t \in Tenants, k \in Keys : flags'[t][k] # flags[t][k] =>
                 flags[t][k] = NoRow /\ flags'[t][k] = Default[k]
    BY <1>1 DEF CommitOnboarding, FlagsFilled, IInv, SessionsAreTyped
<1>2. CASE UNCHANGED flags
    BY <1>2
<1> QED
    BY <1>1, <1>2
    DEF Next, Onboard, LoadFlag, MissFlag, WriteFlag, Abort, CommitDiscovery, CommitDecision,
        CommitAgentRun, Feedback, Note, Select, Over, vars, settings

LEMMA StepsDoAsAsked == IInv /\ [Next]_vars => Obeyed /\ OnlyAsAsked
<1> SUFFICES ASSUME IInv, [Next]_vars PROVE Obeyed /\ OnlyAsAsked
    OBVIOUS
<1>1. CASE \E q \in Setters : CommitFlag(q)
  <2>1. PICK q \in Setters : CommitFlag(q)
      BY <1>1
  <2> QED
      BY <2>1, CommitFlagObeys DEF Obeyed, OnlyAsAsked, At
<1>2. CASE \A q \in Setters : ~CommitFlag(q)
    BY <1>2, OthersCompleteNobody, OthersOnlyFillIn DEF Obeyed, OnlyAsAsked
<1> QED
    BY <1>1, <1>2

LEMMA TogetherIsReady == IInv => ReadyTogether
BY DefaultAssumption DEF IInv, FlagsComeTogether, ReadyTogether

(* Onboarding again takes no operator's choice back, and of setters of one *)
(* flag only one that asked for what it had loaded is not obeyed.          *)
THEOREM FlagsFollowTheOperators == Spec => FlagsAreAsAsked
<1>1. Spec => []ReadyTogether
    BY Inductive, TogetherIsReady, PTL
<1>2. Spec => [][Obeyed /\ OnlyAsAsked]_vars
  <2>1. IInv /\ [Next]_vars => [Obeyed /\ OnlyAsAsked]_vars
      BY StepsDoAsAsked
  <2> QED
      BY <2>1, Inductive, PTL DEF Spec
<1>3. Spec => [][Obeyed]_vars /\ [][OnlyAsAsked]_vars
    BY <1>2, PTL
<1> QED
    BY <1>1, <1>3 DEF FlagsAreAsAsked, ReadyTogether, Obeyed, OnlyAsAsked

-----------------------------------------------------------------------------
(* The dashboard.  What the tables and a dashboard's readings hold.        *)
WorkIsTyped ==
    /\ jobs \in [Jobs -> JobStatus \cup {NoRow}] /\ recs \in [Recs -> RecStatus \cup {NoRow}]
    /\ paid \in [Tenants -> Nat] /\ ratings \in [Tenants -> Seq(Ratings)]
    /\ commits \in 0..MaxCommits /\ moved \subseteq Setters

BoardsAreTyped ==
    /\ board \in [Boards -> [at : 0..7, seen : Counts]]
    /\ since \in [Boards -> [jobs : Nat, recs : Nat, all : Nat]]

(* A setter never loads the flag of a tenant that has none.                *)
LoadedIsAFlag == \A q \in Setters : Busy(q) => session[q].loaded \in BOOLEAN

(* What a dashboard has read, against the rows there are by now: a count   *)
(* of all rows falls behind by the new rows noted for it, and so bounds    *)
(* the later count of some of them.                                        *)
JobsBounded(b) ==
    LET now == Committed(Owner[b]) IN
    /\ board[b].at = 2 => now.total <= board[b].seen.total + since[b].jobs
    /\ board[b].at > 2 => board[b].seen.succeeded <= board[b].seen.total + since[b].jobs

RecsBounded(b) ==
    LET now == Committed(Owner[b]) IN
    /\ board[b].at = 4 => now.recs <= board[b].seen.recs + since[b].recs
    /\ board[b].at > 4 => board[b].seen.approved <= board[b].seen.recs + since[b].recs

(* While its tenant commits nothing, what it has read is what there is.    *)
UpToDate(b) ==
    board[b].at \in 1..6 /\ since[b].all = 0 =>
        \A i \in 1..6 : i < board[b].at =>
            board[b].seen[Selects[i]] = Committed(Owner[b])[Selects[i]]

BoardsFollow == \A b \in Boards : JobsBounded(b) /\ RecsBounded(b) /\ UpToDate(b)

DInv == WorkIsTyped /\ BoardsAreTyped /\ LoadedIsAFlag /\ BoardsFollow

-----------------------------------------------------------------------------
Fields == {"total", "succeeded", "recs", "approved", "cost", "ratings"}

LEMMA SixSelects ==
    /\ Len(Selects) = 6 /\ 0..(Len(Selects) + 1) = 0..7
    /\ Selects[1] = "total" /\ Selects[2] = "succeeded" /\ Selects[3] = "recs"
    /\ Selects[4] = "approved" /\ Selects[5] = "cost" /\ Selects[6] = "ratings"
BY DEF Selects

(* Any rows of the tables are finitely many.                                *)
LEMMA RowsAreCounted ==
    /\ \A set \in SUBSET Jobs : IsFiniteSet(set) /\ Cardinality(set) \in Nat
    /\ \A set \in SUBSET Recs : IsFiniteSet(set) /\ Cardinality(set) \in Nat
<1>1. \A set \in SUBSET Jobs : IsFiniteSet(set)
    BY TablesAssumption, FS_Subset
<1>2. \A set \in SUBSET Recs : IsFiniteSet(set)
    BY TablesAssumption, FS_Subset
<1> QED
    BY <1>1, <1>2, FS_CardinalityType

LEMMA CommittedIsTyped ==
    ASSUME WorkIsTyped, NEW t \in Tenants
    PROVE  Committed(t) \in Counts
<1>1. /\ Cardinality({j \in Jobs : Owner[j] = t /\ jobs[j] # NoRow}) \in Nat
      /\ Cardinality({j \in Jobs : Owner[j] = t /\ jobs[j] = "succeeded"}) \in Nat
      /\ Cardinality({r \in Recs : Owner[r] = t /\ recs[r] # NoRow}) \in Nat
      /\ Cardinality({r \in Recs : Owner[r] = t /\ recs[r] = "approved"}) \in Nat
    BY RowsAreCounted
<1>2. paid[t] \in Nat /\ ratings[t] \in Seq(Ratings)
    BY DEF WorkIsTyped
<1> QED
    BY <1>1, <1>2 DEF Committed, Counts

(* The jobs that succeeded and the recommendations that were approved are  *)
(* rows that are there.                                                    *)
LEMMA SomeOfAll ==
    ASSUME NEW t
    PROVE  /\ Committed(t).succeeded <= Committed(t).total
           /\ Committed(t).approved <= Committed(t).recs
<1> DEFINE allJobs == {j \in Jobs : Owner[j] = t /\ jobs[j] # NoRow}
           someJobs == {j \in Jobs : Owner[j] = t /\ jobs[j] = "succeeded"}
           allRecs == {r \in Recs : Owner[r] = t /\ recs[r] # NoRow}
           someRecs == {r \in Recs : Owner[r] = t /\ recs[r] = "approved"}
<1>1. NoRow # "succeeded" /\ NoRow # "approved"
    BY NoRowAssumption DEF JobStatus, RecStatus
<1>2. /\ someJobs \subseteq allJobs /\ IsFiniteSet(allJobs)
      /\ someRecs \subseteq allRecs /\ IsFiniteSet(allRecs)
    BY <1>1, RowsAreCounted
<1>3. Cardinality(someJobs) <= Cardinality(allJobs) /\ Cardinality(someRecs) <= Cardinality(allRecs)
  <2> HIDE DEF someJobs, allJobs, someRecs, allRecs
  <2> QED
      BY <1>2, FS_Subset
<1> QED
    BY <1>3 DEF Committed

-----------------------------------------------------------------------------
LEMMA BoardsStart == Init => DInv
<1> SUFFICES ASSUME Init PROVE DInv
    OBVIOUS
<1>1. PICK history \in Histories :
          /\ session = [q \in Calls |->
                 [pc |-> IF q \in history.come THEN "idle" ELSE "absent", loaded |-> NoRow,
                  tenant |-> history.asked[q].tenant, key |-> history.asked[q].key,
                  enabled |-> history.asked[q].enabled]]
          /\ board = [b \in Boards |-> [at |-> IF b \in history.come THEN 1 ELSE 0, seen |-> Nothing]]
          /\ commits = history.commits
    BY DEF Init
<1>2. commits \in 0..MaxCommits
    BY <1>1, HistoriesAssumption
<1>3. WorkIsTyped
    BY <1>2 DEF Init, WorkIsTyped
<1>4. Nothing \in Counts
    BY DEF Nothing, Counts
<1>5. BoardsAreTyped
    BY <1>1, <1>4 DEF Init, BoardsAreTyped
<1>6. LoadedIsAFlag
    BY <1>1 DEF LoadedIsAFlag, Busy, At, Calls
<1>7. \A b \in Boards : board[b].at \in {0, 1}
    BY <1>1
<1>8. BoardsFollow
    BY <1>7 DEF BoardsFollow, JobsBounded, RecsBounded, UpToDate
<1> QED
    BY <1>3, <1>5, <1>6, <1>8 DEF DInv

(* Requests that onboard or set a flag touch nothing a dashboard counts.   *)
LEMMA SettingsAreNotCounted ==
    ASSUME DInv, Elsewhere, moved' \subseteq Setters, LoadedIsAFlag'
    PROVE  DInv'
<1>1. UNCHANGED <<jobs, recs, paid, ratings, commits, board, since>>
    BY DEF Elsewhere, work
<1>2. WorkIsTyped' /\ BoardsAreTyped'
    BY <1>1 DEF DInv, WorkIsTyped, BoardsAreTyped
<1>3. \A t : Committed(t)' = Committed(t)
    BY <1>1 DEF Committed
<1>4. BoardsFollow'
    BY <1>1, <1>3 DEF DInv, BoardsFollow, JobsBounded, RecsBounded, UpToDate
<1> QED
    BY <1>2, <1>4 DEF DInv

LEMMA SettersKeepDInv ==
    ASSUME IInv, DInv,
           NEW q \in Calls,
           \/ q \in Onboardings /\ (Onboard(q) \/ CommitOnboarding(q))
           \/ q \in Setters /\ (LoadFlag(q) \/ MissFlag(q) \/ WriteFlag(q) \/ CommitFlag(q))
           \/ Abort(q)
    PROVE  DInv'
<1>1. Elsewhere
    BY DEF Onboard, CommitOnboarding, LoadFlag, MissFlag, WriteFlag, CommitFlag, Abort
<1>2. moved \subseteq Setters
    BY DEF DInv, WorkIsTyped
<1>3. moved' \subseteq Setters
    BY <1>2 DEF Onboard, CommitOnboarding, LoadFlag, MissFlag, WriteFlag, CommitFlag, Abort
<1>4. session \in [Calls -> [pc : {"absent", "idle", "loaded", "written"} \cup Ended,
                             loaded : BOOLEAN \cup {NoRow}, tenant : Tenants, key : STRING,
                             enabled : BOOLEAN]]
    BY DEF IInv, SessionsAreTyped
<1>5. \A s \in Setters : s \in Calls /\ s \notin Onboardings
    BY CallsAssumption DEF Calls
<1>6. CASE q \in Setters /\ LoadFlag(q)
  <2>1. session' = [session EXCEPT ![q].pc = "loaded", ![q].loaded = Stored(q)]
        /\ Stored(q) # NoRow
      BY <1>6 DEF LoadFlag
  <2>2. Stored(q) \in BOOLEAN
    <3>1. session[q].key \in Keys /\ session[q].tenant \in Tenants
        BY <1>4, <2>1 DEF Stored
    <3> QED
        BY <2>1, <3>1 DEF Stored, IInv, SessionsAreTyped
  <2>3. session'[q].loaded = Stored(q) /\ \A s \in Setters \ {q} : session'[s] = session[s]
      BY <1>4, <1>5, <2>1
  <2> QED
      BY <1>1, <1>3, <2>2, <2>3, SettingsAreNotCounted DEF DInv, LoadedIsAFlag, Busy, At
<1>7. CASE ~(q \in Setters /\ LoadFlag(q))
  <2>1. PICK pc \in {"written", "done", "missing", "aborted"} :
            Goes(q, pc) /\ (pc = "written" /\ q \in Setters => At(q, "loaded"))
      BY <1>5, <1>7 DEF Onboard, CommitOnboarding, MissFlag, WriteFlag, CommitFlag, Abort
  <2>2. \A s \in Setters : session'[s].loaded = session[s].loaded
                           /\ (Busy(s)' => Busy(s))
      BY <1>4, <1>5, <2>1 DEF Goes, Busy, At
  <2> QED
      BY <1>1, <1>3, <2>2, SettingsAreNotCounted DEF DInv, LoadedIsAFlag
<1> QED
    BY <1>6, <1>7

-----------------------------------------------------------------------------
(* A commit of one tenant: the rows its dashboards do not expect are       *)
(* noted, other tenants' counts stay.                                      *)
LEMMA CommitsAreNoted ==
    ASSUME DInv, NEW t \in Tenants, NEW n \in Nat, NEW m \in Nat, Note(t, n, m), WorkIsTyped',
           \A u \in Tenants \ {t} : Committed(u)' = Committed(u),
           Committed(t)'.total <= Committed(t).total + n,
           Committed(t)'.recs <= Committed(t).recs + m
    PROVE  DInv'
<1>1. /\ UNCHANGED <<session, board>>
      /\ since' = [b \in Boards |->
             IF Owner[b] = t /\ board[b].at \in 2..6
             THEN [jobs |-> since[b].jobs + n, recs |-> since[b].recs + m, all |-> since[b].all + 1]
             ELSE since[b]]
    BY SixSelects DEF Note
<1>2. \A b \in Boards :
          /\ board[b].at \in 0..7 /\ board[b].seen \in Counts /\ Owner[b] \in Tenants
          /\ since[b].jobs \in Nat /\ since[b].recs \in Nat /\ since[b].all \in Nat
    BY OwnerAssumption DEF DInv, BoardsAreTyped
<1>3. BoardsAreTyped'
    BY <1>1, <1>2 DEF DInv, BoardsAreTyped
<1>4. LoadedIsAFlag'
    BY <1>1 DEF DInv, LoadedIsAFlag, Busy, At
<1>5. \A u \in Tenants : Committed(u) \in Counts /\ Committed(u)' \in Counts
  <2>1. \A u \in Tenants : Committed(u) \in Counts
      BY CommittedIsTyped DEF DInv
  <2>2. \A u \in Tenants : paid'[u] \in Nat /\ ratings'[u] \in Seq(Ratings)
      BY DEF WorkIsTyped
  <2>3. \A u \in Tenants :
            /\ Cardinality({j \in Jobs : Owner[j] = u /\ jobs'[j] # NoRow}) \in Nat
            /\ Cardinality({j \in Jobs : Owner[j] = u /\ jobs'[j] = "succeeded"}) \in Nat
            /\ Cardinality({r \in Recs : Owner[r] = u /\ recs'[r] # NoRow}) \in Nat
            /\ Cardinality({r \in Recs : Owner[r] = u /\ recs'[r] = "approved"}) \in Nat
      BY RowsAreCounted
  <2>4. \A u \in Tenants : Committed(u)' \in Counts
      BY <2>2, <2>3 DEF Committed, Counts
  <2> QED
      BY <2>1, <2>4
<1>6. SUFFICES ASSUME NEW b \in Boards
               PROVE  JobsBounded(b)' /\ RecsBounded(b)' /\ UpToDate(b)'
    BY <1>3, <1>4 DEF DInv, BoardsFollow
<1>7. JobsBounded(b) /\ RecsBounded(b) /\ UpToDate(b)
    BY DEF DInv, BoardsFollow
<1>8. CASE Owner[b] = t
  <2>1. /\ Committed(t).total \in Nat /\ Committed(t)'.total \in Nat
        /\ Committed(t).recs \in Nat /\ Committed(t)'.recs \in Nat
      BY <1>5 DEF Counts
  <2>2. /\ board[b].seen.total \in Nat /\ board[b].seen.succeeded \in Nat
        /\ board[b].seen.recs \in Nat /\ board[b].seen.approved \in Nat
      BY <1>2 DEF Counts
  <2>3. /\ board[b].at \in 2..6 => /\ since'[b].jobs = since[b].jobs + n
                                   /\ since'[b].recs = since[b].recs + m
                                   /\ since'[b].all = since[b].all + 1
        /\ board[b].at \notin 2..6 => since'[b] = since[b]
      BY <1>1, <1>8
  <2>4. JobsBounded(b)'
      BY <1>1, <1>2, <1>7, <1>8, <2>1, <2>2, <2>3 DEF JobsBounded
  <2>5. RecsBounded(b)'
      BY <1>1, <1>2, <1>7, <1>8, <2>1, <2>2, <2>3 DEF RecsBounded
  <2>6. UpToDate(b)'
    <3>1. CASE board[b].at \in 2..6
        BY <1>1, <1>2, <2>3, <3>1 DEF UpToDate
    <3>2. CASE board[b].at \notin 2..6
        BY <1>1, <1>2, <3>2 DEF UpToDate
    <3> QED
        BY <3>1, <3>2
  <2> QED
      BY <2>4, <2>5, <2>6
<1>9. CASE Owner[b] # t
  <2>1. since'[b] = since[b] /\ board'[b] = board[b] /\ Committed(Owner[b])' = Committed(Owner[b])
      BY <1>1, <1>2, <1>9
  <2> QED
      BY <1>7, <2>1 DEF JobsBounded, RecsBounded, UpToDate
<1> QED
    BY <1>8, <1>9

LEMMA DiscoveryKeepsDInv ==
    ASSUME DInv, NEW j \in Jobs, CommitDiscovery(j)
    PROVE  DInv'
<1> DEFINE t == Owner[j]
           n == IF jobs[j] = NoRow THEN 1 ELSE 0
<1>1. PICK status \in JobStatus, opened \in SUBSET {r \in Recs : Owner[r] = t} :
          /\ jobs' = [jobs EXCEPT ![j] = status]
          /\ recs' = [r \in Recs |-> IF r \in opened THEN "pending" ELSE recs[r]]
          /\ Note(t, n, Cardinality({r \in opened : recs[r] = NoRow}))
          /\ UNCHANGED <<paid, ratings>>
    BY DEF CommitDiscovery
<1> DEFINE new == {r \in opened : recs[r] = NoRow}
           m == Cardinality(new)
<1>2. /\ jobs \in [Jobs -> JobStatus \cup {NoRow}] /\ recs \in [Recs -> RecStatus \cup {NoRow}]
      /\ \A k \in Jobs : jobs'[k] = IF k = j THEN status ELSE jobs[k]
      /\ NoRow # status /\ NoRow # "pending" /\ t \in Tenants
    BY <1>1, NoRowAssumption, OwnerAssumption DEF DInv, WorkIsTyped, RecStatus
<1>3. new \subseteq Recs /\ m \in Nat /\ n \in Nat
    BY RowsAreCounted
<1>4. WorkIsTyped'
  <2>1. jobs' \in [Jobs -> JobStatus \cup {NoRow}] /\ recs' \in [Recs -> RecStatus \cup {NoRow}]
      BY <1>1, <1>2 DEF RecStatus
  <2>2. commits' \in 0..MaxCommits /\ moved' = moved
      BY <1>1, NumbersAssumption DEF Note, DInv, WorkIsTyped
  <2> QED
      BY <1>1, <2>1, <2>2 DEF DInv, WorkIsTyped
<1>5. \A u \in Tenants \ {t} : Committed(u)' = Committed(u)
  <2> SUFFICES ASSUME NEW u \in Tenants, u # t PROVE Committed(u)' = Committed(u)
      OBVIOUS
  <2>1. \A k \in Jobs : Owner[k] = u => jobs'[k] = jobs[k]
      BY <1>2
  <2>2. \A r \in Recs : Owner[r] = u => recs'[r] = recs[r]
      BY <1>1
  <2>3. /\ {k \in Jobs : Owner[k] = u /\ jobs'[k] # NoRow} = {k \in Jobs : Owner[k] = u /\ jobs[k] # NoRow}
        /\ {k \in Jobs : Owner[k] = u /\ jobs'[k] = "succeeded"}
              = {k \in Jobs : Owner[k] = u /\ jobs[k] = "succeeded"}
      BY <2>1
  <2>4. /\ {r \in Recs : Owner[r] = u /\ recs'[r] # NoRow} = {r \in Recs : Owner[r] = u /\ recs[r] # NoRow}
        /\ {r \in Recs : Owner[r] = u /\ recs'[r] = "approved"}
              = {r \in Recs : Owner[r] = u /\ recs[r] = "approved"}
      BY <2>2
  <2> QED
      BY <1>1, <2>3, <2>4 DEF Committed
<1>6. Committed(t)'.total <= Committed(t).total + n
  <2> DEFINE before == {k \in Jobs : Owner[k] = t /\ jobs[k] # NoRow}
             after == {k \in Jobs : Owner[k] = t /\ jobs'[k] # NoRow}
  <2>1. after = before \cup {j} /\ (jobs[j] # NoRow => after = before)
      BY <1>2
  <2>2. IsFiniteSet(before) /\ Cardinality(before) \in Nat
      BY RowsAreCounted
  <2>3. Cardinality(after) <= Cardinality(before) + n
    <3>1. CASE jobs[j] # NoRow
        BY <2>1, <2>2, <3>1
    <3>2. CASE jobs[j] = NoRow
      <4>1. n = 1 /\ j \notin before
          BY <3>2
      <4> HIDE DEF before, after, n
      <4>2. Cardinality(before \cup {j}) = Cardinality(before) + 1
          BY <2>2, <4>1, FS_AddElement
      <4> QED
          BY <2>1, <2>2, <4>1, <4>2
    <3> QED
        BY <3>1, <3>2
  <2> QED
      BY <2>3 DEF Committed
<1>7. Committed(t)'.recs <= Committed(t).recs + m
  <2> DEFINE before == {r \in Recs : Owner[r] = t /\ recs[r] # NoRow}
             after == {r \in Recs : Owner[r] = t /\ recs'[r] # NoRow}
  <2>1. after = before \cup new
      BY <1>1, <1>2
  <2>2. /\ IsFiniteSet(before) /\ Cardinality(before) \in Nat
        /\ IsFiniteSet(new) /\ Cardinality(new) \in Nat /\ before \cap new = {}
      BY <1>3, RowsAreCounted
  <2>3. Cardinality(after) <= Cardinality(before) + Cardinality(new)
    <3> HIDE DEF before, after, new
    <3>1. Cardinality(before \cup new) =
              Cardinality(before) + Cardinality(new) - Cardinality(before \cap new)
        BY <2>2, FS_Union
    <3>2. Cardinality(before \cap new) = 0
        BY <2>2, FS_EmptySet
    <3> QED
        BY <2>1, <2>2, <3>1, <3>2
  <2> QED
      BY <2>3 DEF Committed
<1> HIDE DEF n, m
<1>8. Note(t, n, m)
    BY <1>1 DEF n, m
<1> QED
    BY <1>2, <1>3, <1>4, <1>5, <1>6, <1>7, <1>8, CommitsAreNoted

LEMMA DecisionKeepsDInv ==
    ASSUME DInv, NEW r \in Recs, CommitDecision(r)
    PROVE  DInv'
<1> DEFINE t == Owner[r]
<1>1. PICK status \in RecStatus \ {"pending"} : recs' = [recs EXCEPT ![r] = status]
    BY DEF CommitDecision
<1>2. recs[r] = "pending" /\ Note(t, 0, 0) /\ UNCHANGED <<jobs, paid, ratings>>
    BY DEF CommitDecision
<1>3. /\ recs \in [Recs -> RecStatus \cup {NoRow}] /\ t \in Tenants
      /\ NoRow # status /\ NoRow # "pending"
      /\ \A k \in Recs : recs'[k] = IF k = r THEN status ELSE recs[k]
    BY <1>1, NoRowAssumption, OwnerAssumption DEF DInv, WorkIsTyped, RecStatus
<1>4. WorkIsTyped'
  <2>1. recs' \in [Recs -> RecStatus \cup {NoRow}]
      BY <1>1, <1>3
  <2>2. commits' \in 0..MaxCommits /\ moved' = moved
      BY <1>2, NumbersAssumption DEF Note, DInv, WorkIsTyped
  <2> QED
      BY <1>2, <2>1, <2>2 DEF DInv, WorkIsTyped
<1>5. \A u : {k \in Recs : Owner[k] = u /\ recs'[k] # NoRow}
                 = {k \in Recs : Owner[k] = u /\ recs[k] # NoRow}
    BY <1>2, <1>3
<1>6. \A u \in Tenants \ {t} : {k \in Recs : Owner[k] = u /\ recs'[k] = "approved"}
                                   = {k \in Recs : Owner[k] = u /\ recs[k] = "approved"}
    BY <1>3
<1>7. \A u \in Tenants \ {t} : Committed(u)' = Committed(u)
    BY <1>2, <1>5, <1>6 DEF Committed
<1>8. Committed(t)'.total = Committed(t).total /\ Committed(t)'.recs = Committed(t).recs
    BY <1>2, <1>5 DEF Committed
<1>9. Committed(t).total \in Nat /\ Committed(t).recs \in Nat
    BY <1>3, CommittedIsTyped DEF DInv, Counts
<1>10. Committed(t)'.total <= Committed(t).total + 0 /\ Committed(t)'.recs <= Committed(t).recs + 0
    BY <1>8, <1>9
<1> QED
    BY <1>2, <1>3, <1>4, <1>7, <1>10, CommitsAreNoted

LEMMA SpendingKeepsDInv ==
    ASSUME DInv, NEW t \in Tenants, CommitAgentRun(t) \/ Feedback(t)
    PROVE  DInv'
<1>1. Note(t, 0, 0) /\ UNCHANGED <<jobs, recs>>
    BY DEF CommitAgentRun, Feedback
<1>2. paid \in [Tenants -> Nat] /\ ratings \in [Tenants -> Seq(Ratings)]
    BY DEF DInv, WorkIsTyped
<1>3. /\ paid' \in [Tenants -> Nat] /\ ratings' \in [Tenants -> Seq(Ratings)]
      /\ \A u \in Tenants \ {t} : paid'[u] = paid[u] /\ ratings'[u] = ratings[u]
  <2>1. CASE CommitAgentRun(t)
    <3>1. PICK cost \in Costs : paid' = [paid EXCEPT ![t] = @ + cost]
        BY <2>1 DEF CommitAgentRun
    <3>2. cost \in Nat /\ ratings' = ratings
        BY <2>1, NumbersAssumption DEF CommitAgentRun
    <3> QED
        BY <1>2, <3>1, <3>2
  <2>2. CASE Feedback(t)
    <3>1. PICK rating \in Ratings : ratings' = [ratings EXCEPT ![t] = Append(@, rating)]
        BY <2>2 DEF Feedback
    <3>2. Append(ratings[t], rating) \in Seq(Ratings) /\ paid' = paid
        BY <1>2, <2>2 DEF Feedback
    <3> QED
        BY <1>2, <3>1, <3>2
  <2> QED
      BY <2>1, <2>2
<1>4. WorkIsTyped'
  <2>1. commits' \in 0..MaxCommits /\ moved' = moved
      BY <1>1, NumbersAssumption DEF Note, DInv, WorkIsTyped
  <2> QED
      BY <1>1, <1>3, <2>1 DEF DInv, WorkIsTyped
<1>5. \A u \in Tenants \ {t} : Committed(u)' = Committed(u)
    BY <1>1, <1>3 DEF Committed
<1>6. Committed(t)'.total = Committed(t).total /\ Committed(t)'.recs = Committed(t).recs
    BY <1>1 DEF Committed
<1>7. Committed(t).total \in Nat /\ Committed(t).recs \in Nat
    BY CommittedIsTyped DEF DInv, Counts
<1>8. Committed(t)'.total <= Committed(t).total + 0 /\ Committed(t)'.recs <= Committed(t).recs + 0
    BY <1>6, <1>7
<1> QED
    BY <1>1, <1>4, <1>5, <1>8, CommitsAreNoted

-----------------------------------------------------------------------------
(* A SELECT takes one count from what is committed and keeps the others.   *)
LEMMA ReadingOneField ==
    ASSUME NEW seen \in Counts, NEW now \in Counts, NEW f \in Fields,
           NEW read, read = [seen EXCEPT ![f] = now[f]]
    PROVE  read \in Counts /\ read[f] = now[f] /\ \A g \in Fields \ {f} : read[g] = seen[g]
<1>1. CASE f = "total"
    BY <1>1 DEF Counts, Fields
<1>2. CASE f = "succeeded"
    BY <1>2 DEF Counts, Fields
<1>3. CASE f = "recs"
    BY <1>3 DEF Counts, Fields
<1>4. CASE f = "approved"
    BY <1>4 DEF Counts, Fields
<1>5. CASE f = "cost"
    BY <1>5 DEF Counts, Fields
<1>6. CASE f = "ratings"
    BY <1>6 DEF Counts, Fields
<1> QED
    BY <1>1, <1>2, <1>3, <1>4, <1>5, <1>6 DEF Fields

LEMMA ReadingMovesOn ==
    ASSUME NEW row \in [at : 0..7, seen : Counts], row.at # 7, NEW now \in Counts, NEW f \in Fields,
           NEW next, next = [row EXCEPT !.at = @ + 1, !.seen[f] = now[f]]
    PROVE  next \in [at : 0..7, seen : Counts]
<1> DEFINE read == [row.seen EXCEPT ![f] = now[f]]
<1>1. read \in Counts /\ row.at + 1 \in 0..7
    BY ReadingOneField
<1>2. next = [row EXCEPT !.at = @ + 1, !.seen = read]
    OBVIOUS
<1> HIDE DEF read
<1> QED
    BY <1>1, <1>2

LEMMA SelectReads ==
    ASSUME DInv, NEW b \in Boards, Select(b)
    PROVE  LET now == Committed(Owner[b])
               k   == board[b].at
           IN /\ k \in 1..6 /\ board'[b].at = k + 1
              /\ board'[b].seen \in Counts
              /\ board'[b].seen[Selects[k]] = now[Selects[k]]
              /\ \A i \in 1..6 : i # k => board'[b].seen[Selects[i]] = board[b].seen[Selects[i]]
              /\ \A c \in Boards \ {b} : board'[c] = board[c]
              /\ UNCHANGED <<settings, work, session, moved, since>>
<1> DEFINE now == Committed(Owner[b])
           k == board[b].at
           f == Selects[k]
           seen == board[b].seen
<1>1. /\ k \in 1..6 /\ UNCHANGED <<settings, work, session, moved, since>>
      /\ board' = [board EXCEPT ![b].at = @ + 1, ![b].seen[f] = now[f]]
    BY SixSelects DEF Select
<1>2. board \in [Boards -> [at : 0..7, seen : Counts]] /\ seen \in Counts
    BY DEF DInv, BoardsAreTyped
<1>3. now \in Counts
    BY OwnerAssumption, CommittedIsTyped DEF DInv
<1>4. \A i \in 1..6 : Selects[i] \in Fields /\ (i # k => Selects[i] # f)
    BY <1>1, SixSelects DEF Fields
<1>5. f \in Fields
    BY <1>1, <1>4
<1>6. /\ board'[b].at = k + 1 /\ board'[b].seen = [seen EXCEPT ![f] = now[f]]
      /\ \A c \in Boards \ {b} : board'[c] = board[c]
  <2> HIDE DEF now, f
  <2> QED
      BY <1>1, <1>2
<1>7. /\ board'[b].seen \in Counts /\ board'[b].seen[f] = now[f]
      /\ \A g \in Fields \ {f} : board'[b].seen[g] = seen[g]
  <2> HIDE DEF now, f, seen
  <2> QED
      BY <1>2, <1>3, <1>5, <1>6, ReadingOneField
<1>8. \A i \in 1..6 : i # k => board'[b].seen[Selects[i]] = seen[Selects[i]]
    BY <1>4, <1>7
<1> HIDE DEF now, f
<1> QED
    BY <1>1, <1>6, <1>7, <1>8 DEF now, f

LEMMA SelectKeepsDInv ==
    ASSUME DInv, NEW b \in Boards, Select(b)
    PROVE  DInv'
<1> DEFINE now == Committed(Owner[b])
           k == board[b].at
           read == board'[b].seen
           seen == board[b].seen
<1>1. /\ k \in 1..6 /\ board'[b].at = k + 1
      /\ read \in Counts
      /\ read[Selects[k]] = now[Selects[k]]
      /\ \A i \in 1..6 : i # k => read[Selects[i]] = seen[Selects[i]]
      /\ \A c \in Boards \ {b} : board'[c] = board[c]
    BY SelectReads
<1>2. UNCHANGED <<jobs, recs, paid, ratings, commits, session, moved, since>>
    BY DEF Select, work
<1>3. /\ board \in [Boards -> [at : 0..7, seen : Counts]]
      /\ since \in [Boards -> [jobs : Nat, recs : Nat, all : Nat]]
      /\ now \in Counts /\ seen \in Counts
    BY OwnerAssumption, CommittedIsTyped DEF DInv, BoardsAreTyped
<1>4. WorkIsTyped' /\ LoadedIsAFlag'
    BY <1>2 DEF DInv, WorkIsTyped, LoadedIsAFlag, Busy, At
<1>5. BoardsAreTyped'
  <2>1. \A c \in Boards : board'[c] \in [at : 0..7, seen : Counts]
    <3>1. board'[b] = [board[b] EXCEPT !.at = @ + 1, !.seen[Selects[k]] = now[Selects[k]]]
      <4> HIDE DEF now
      <4> QED
          BY <1>3 DEF Select, now
    <3>2. board[b] \in [at : 0..7, seen : Counts] /\ board[b].at # 7
        BY <1>1, <1>3
    <3>3. Selects[k] \in Fields
        BY <1>1, SixSelects DEF Fields
    <3>4. board'[b] \in [at : 0..7, seen : Counts]
      <4> HIDE DEF now, k
      <4> QED
          BY <1>3, <3>1, <3>2, <3>3, ReadingMovesOn
    <3> QED
        BY <1>1, <1>3, <3>4
  <2>2. board' = [c \in Boards |-> board'[c]]
      BY <1>3 DEF Select
  <2> QED
      BY <1>2, <1>3, <2>1, <2>2 DEF BoardsAreTyped
<1>6. \A u : Committed(u)' = Committed(u)
    BY <1>2 DEF Committed
<1>7. ASSUME NEW c \in Boards \ {b} PROVE JobsBounded(c)' /\ RecsBounded(c)' /\ UpToDate(c)'
  <2>1. JobsBounded(c) /\ RecsBounded(c) /\ UpToDate(c)
      BY DEF DInv, BoardsFollow
  <2> QED
      BY <1>1, <1>2, <1>6, <2>1 DEF JobsBounded, RecsBounded, UpToDate
<1>8. JobsBounded(b) /\ RecsBounded(b) /\ UpToDate(b)
    BY DEF DInv, BoardsFollow
<1>9. /\ now.total \in Nat /\ now.succeeded \in Nat /\ now.recs \in Nat /\ now.approved \in Nat
      /\ seen.total \in Nat /\ seen.succeeded \in Nat /\ seen.recs \in Nat /\ seen.approved \in Nat
      /\ since[b].jobs \in Nat /\ since[b].recs \in Nat
    BY <1>3 DEF Counts
<1>10. now.succeeded <= now.total /\ now.approved <= now.recs
    BY SomeOfAll
<1>11. /\ read.total = IF k = 1 THEN now.total ELSE seen.total
       /\ read.succeeded = IF k = 2 THEN now.succeeded ELSE seen.succeeded
       /\ read.recs = IF k = 3 THEN now.recs ELSE seen.recs
       /\ read.approved = IF k = 4 THEN now.approved ELSE seen.approved
  <2>1. \A i \in 1..6 : read[Selects[i]] = IF k = i THEN now[Selects[i]] ELSE seen[Selects[i]]
      BY <1>1
  <2>2. 1 \in 1..6 /\ 2 \in 1..6 /\ 3 \in 1..6 /\ 4 \in 1..6
      OBVIOUS
  <2> HIDE DEF read, now, seen, k
  <2> QED
      BY <2>1, <2>2, SixSelects
<1>12. JobsBounded(b)'
  <2>1. /\ k + 1 = 2 => now.total <= read.total + since[b].jobs
        /\ k + 1 > 2 => read.succeeded <= read.total + since[b].jobs
    <3>1. /\ k = 2 => now.total <= seen.total + since[b].jobs
          /\ k > 2 => seen.succeeded <= seen.total + since[b].jobs
        BY <1>8 DEF JobsBounded
    <3> HIDE DEF read, now, seen, k
    <3> QED
        BY <1>1, <1>9, <1>10, <1>11, <3>1
  <2> QED
      BY <1>1, <1>2, <1>6, <2>1 DEF JobsBounded
<1>13. RecsBounded(b)'
  <2>1. /\ k + 1 = 4 => now.recs <= read.recs + since[b].recs
        /\ k + 1 > 4 => read.approved <= read.recs + since[b].recs
    <3>1. /\ k = 4 => now.recs <= seen.recs + since[b].recs
          /\ k > 4 => seen.approved <= seen.recs + since[b].recs
        BY <1>8 DEF RecsBounded
    <3> HIDE DEF read, now, seen, k
    <3> QED
        BY <1>1, <1>9, <1>10, <1>11, <3>1
  <2> QED
      BY <1>1, <1>2, <1>6, <2>1 DEF RecsBounded
<1>14. UpToDate(b)'
  <2>1. SUFFICES ASSUME since[b].all = 0, NEW i \in 1..6, i < k + 1
                 PROVE  read[Selects[i]] = now[Selects[i]]
      BY <1>1, <1>2, <1>6 DEF UpToDate
  <2>2. CASE i = k
      BY <1>1, <2>2
  <2>3. CASE i # k
    <3>1. seen[Selects[i]] = now[Selects[i]]
        BY <1>1, <1>8, <2>1, <2>3 DEF UpToDate
    <3> QED
        BY <1>1, <2>3, <3>1
  <2> QED
      BY <2>2, <2>3
<1>15. BoardsFollow'
    BY <1>7, <1>12, <1>13, <1>14 DEF BoardsFollow
<1> QED
    BY <1>4, <1>5, <1>15 DEF DInv

LEMMA NextKeepsDInv == IInv /\ DInv /\ [Next]_vars => DInv'
<1> SUFFICES ASSUME IInv, DInv, [Next]_vars PROVE DInv'
    OBVIOUS
<1>1. CASE \/ \E q \in Onboardings : Onboard(q) \/ CommitOnboarding(q)
           \/ \E q \in Setters : LoadFlag(q) \/ MissFlag(q) \/ WriteFlag(q) \/ CommitFlag(q)
           \/ \E q \in Calls : Abort(q)
    BY <1>1, SettersKeepDInv DEF Calls
<1>2. CASE Over \/ UNCHANGED vars
  <2>1. Elsewhere /\ UNCHANGED <<session, moved>>
      BY <1>2 DEF Over, vars, Elsewhere
  <2>2. LoadedIsAFlag' /\ moved' \subseteq Setters
      BY <2>1 DEF DInv, WorkIsTyped, LoadedIsAFlag, Busy, At
  <2> QED
      BY <2>1, <2>2, SettingsAreNotCounted
<1> QED
    BY <1>1, <1>2, DiscoveryKeepsDInv, DecisionKeepsDInv, SpendingKeepsDInv, SelectKeepsDInv DEF Next

LEMMA DashboardInductive == Spec => [](IInv /\ DInv)
BY InitIsInductive, NextKeepsIInv, BoardsStart, NextKeepsDInv, PTL DEF Spec

(* Every request, table row and reading stays of its type: a setter that   *)
(* is under way has loaded a flag, never the absence of one.               *)
THEOREM PilotTypes == Spec => []TypeOK
<1>1. IInv /\ DInv => TypeOK
  <2> SUFFICES ASSUME IInv, DInv PROVE TypeOK
      OBVIOUS
  <2>1. \A q \in Calls :
            /\ session[q].pc \in {"absent", "idle", "loaded", "written"} \cup Ended
            /\ q \in Setters /\ session[q].pc \in {"loaded", "written"} =>
                  session[q].loaded \in BOOLEAN
      BY DEF IInv, SessionsAreTyped, DInv, LoadedIsAFlag, Busy, At
  <2> QED
      BY <2>1, SixSelects
      DEF TypeOK, IInv, SessionsAreTyped, DInv, WorkIsTyped, BoardsAreTyped
<1> QED
    BY <1>1, DashboardInductive, PTL

-----------------------------------------------------------------------------
(* The two parts of DashboardErrsByOverlap.                                *)
RatesAreBounded ==
    \A b \in Boards : board[b].at > Len(Selects) =>
        /\ board[b].seen.succeeded <= board[b].seen.total + since[b].jobs
        /\ board[b].seen.approved <= board[b].seen.recs + since[b].recs

ExactWhenAlone ==
    \A b \in Boards : board'[b].at > Len(Selects) /\ board'[b] # board[b] /\ since[b].all = 0 =>
        LET seen == board'[b].seen
            mine == Of(Owner[b], jobs)
            shown == Of(Owner[b], recs)
        IN /\ seen.total = Cardinality(mine) /\ seen.recs = Cardinality(shown)
           /\ seen.succeeded = Cardinality({j \in mine : jobs[j] = "succeeded"})
           /\ seen.approved = Cardinality({r \in shown : recs[r] = "approved"})
           /\ seen.cost = paid[Owner[b]] /\ seen.ratings = ratings[Owner[b]]

LEMMA BoundedAtTheEnd == DInv => RatesAreBounded
<1> SUFFICES ASSUME DInv, NEW b \in Boards, board[b].at > 6
             PROVE  /\ board[b].seen.succeeded <= board[b].seen.total + since[b].jobs
                    /\ board[b].seen.approved <= board[b].seen.recs + since[b].recs
    BY SixSelects DEF RatesAreBounded
<1>1. board[b].at \in 0..7
    BY DEF DInv, BoardsAreTyped
<1> QED
    BY <1>1 DEF DInv, BoardsFollow, JobsBounded, RecsBounded

(* What Committed counts is what the property says a tenant has.           *)
LEMMA CommittedIsOfTheTenant ==
    ASSUME DInv, NEW t
    PROVE  /\ Committed(t).total = Cardinality(Of(t, jobs))
           /\ Committed(t).recs = Cardinality(Of(t, recs))
           /\ Committed(t).succeeded = Cardinality({j \in Of(t, jobs) : jobs[j] = "succeeded"})
           /\ Committed(t).approved = Cardinality({r \in Of(t, recs) : recs[r] = "approved"})
           /\ Committed(t).cost = paid[t] /\ Committed(t).ratings = ratings[t]
<1>1. /\ DOMAIN jobs = Jobs /\ DOMAIN recs = Recs
      /\ NoRow # "succeeded" /\ NoRow # "approved"
    BY NoRowAssumption DEF DInv, WorkIsTyped, JobStatus, RecStatus
<1>2. /\ Of(t, jobs) = {j \in Jobs : Owner[j] = t /\ jobs[j] # NoRow}
      /\ Of(t, recs) = {r \in Recs : Owner[r] = t /\ recs[r] # NoRow}
    BY <1>1 DEF Of
<1>3. /\ {j \in Of(t, jobs) : jobs[j] = "succeeded"}
            = {j \in Jobs : Owner[j] = t /\ jobs[j] = "succeeded"}
      /\ {r \in Of(t, recs) : recs[r] = "approved"}
            = {r \in Recs : Owner[r] = t /\ recs[r] = "approved"}
    BY <1>1, <1>2
<1> QED
    BY <1>2, <1>3 DEF Committed

(* Only a SELECT of its own changes what a dashboard has read.             *)
LEMMA OnlySelectsRead ==
    ASSUME DInv, [Next]_vars, NEW b \in Boards, board'[b] # board[b]
    PROVE  Select(b)
<1>1. PICK c \in Boards : Select(c)
    BY DEF Next, Onboard, CommitOnboarding, LoadFlag, MissFlag, WriteFlag, CommitFlag, Abort,
           Elsewhere, CommitDiscovery, CommitDecision, CommitAgentRun, Feedback, Note, Over, vars
<1>2. b # c => board'[b] = board[b]
    BY <1>1, SelectReads
<1> QED
    BY <1>1, <1>2

LEMMA LastSelectIsExact == DInv /\ [Next]_vars => ExactWhenAlone
<1> SUFFICES ASSUME DInv, [Next]_vars, NEW b \in Boards,
                    board'[b].at > 6, board'[b] # board[b], since[b].all = 0
             PROVE  LET seen == board'[b].seen
                        mine == Of(Owner[b], jobs)
                        shown == Of(Owner[b], recs)
                    IN /\ seen.total = Cardinality(mine) /\ seen.recs = Cardinality(shown)
                       /\ seen.succeeded = Cardinality({j \in mine : jobs[j] = "succeeded"})
                       /\ seen.approved = Cardinality({r \in shown : recs[r] = "approved"})
                       /\ seen.cost = paid[Owner[b]] /\ seen.ratings = ratings[Owner[b]]
    BY SixSelects DEF ExactWhenAlone
<1> DEFINE now == Committed(Owner[b])
           read == board'[b].seen
<1>1. Select(b)
    BY OnlySelectsRead
<1>2. /\ board[b].at \in 1..6 /\ board'[b].at = board[b].at + 1
      /\ read[Selects[board[b].at]] = now[Selects[board[b].at]]
      /\ \A i \in 1..6 : i # board[b].at => read[Selects[i]] = board[b].seen[Selects[i]]
    BY <1>1, SelectReads
<1>3. board[b].at = 6
    BY <1>2
<1>4. \A i \in 1..5 : board[b].seen[Selects[i]] = now[Selects[i]]
    BY <1>3 DEF DInv, BoardsFollow, UpToDate
<1>5. \A i \in 1..6 : read[Selects[i]] = now[Selects[i]]
    BY <1>2, <1>3, <1>4
<1>6. /\ read.total = now.total /\ read.succeeded = now.succeeded
      /\ read.recs = now.recs /\ read.approved = now.approved
      /\ read.cost = now.cost /\ read.ratings = now.ratings
  <2>1. 1 \in 1..6 /\ 2 \in 1..6 /\ 3 \in 1..6 /\ 4 \in 1..6 /\ 5 \in 1..6 /\ 6 \in 1..6
      OBVIOUS
  <2> HIDE DEF read, now
  <2> QED
      BY <1>5, <2>1, SixSelects
<1> HIDE DEF now
<1> QED
    BY <1>6, CommittedIsOfTheTenant DEF now

(* Whatever is committed between its SELECTs, a dashboard's rates are too  *)
(* high by no more than the rows its tenant added meanwhile, and with no   *)
(* commit of its tenant in between it shows exactly what there is.         *)
THEOREM OverlapBoundsTheError == Spec => DashboardErrsByOverlap
<1>1. Spec => []RatesAreBounded
    BY DashboardInductive, BoundedAtTheEnd, PTL
<1>2. Spec => [][ExactWhenAlone]_vars
  <2>1. DInv /\ [Next]_vars => [ExactWhenAlone]_vars
      BY LastSelectIsExact
  <2> QED
      BY <2>1, DashboardInductive, PTL DEF Spec
<1> QED
    BY <1>1, <1>2 DEF DashboardErrsByOverlap, RatesAreBounded, ExactWhenAlone
=============================================================================
