----------------------- MODULE GuardedRequests_proofs -----------------------
(***************************************************************************)
(* What the services of hardening.py keep, put together as in              *)
(* GuardedRequests, for any requests, keys, bodies, limits and numbers of  *)
(* attempts: one request of a key is carried out for good and the late     *)
(* ones are answered from its record, and the rate limiter keeps its       *)
(* limit. (That every request is answered needs fairness and is not proved *)
(* here.)                                                                  *)
(***************************************************************************)
EXTENDS GuardedRequests, TLAPS, FiniteSetTheorems, SequenceTheorems

SessionsAreTyped ==
    /\ session \in [Requests -> Session]
    /\ records \in [Keys -> Record \cup {NoRow}]
    /\ outbox \subseteq Requests

(* What a request has done when it is where it is.                         *)
OnItsWay(r) ==
    /\ session[r].pc \in {"idle", "resolving"} => session[r].attempts = 0
    /\ session[r].pc = "lettered" => session[r].attempts = MaxAttempts
    /\ session[r].pc \in {"saving", "saved"} =>
          session[r].response = r /\ r \in effects /\ session[r].attempts > 0

(* The unique key: who has inserted its record is alone, and none is       *)
(* committed yet.                                                          *)
SaversAreAlone ==
    \A r \in Requests : session[r].pc = "saved" =>
        /\ records[session[r].key] = NoRow
        /\ \A q \in Requests : session[q].pc = "saved" /\ session[q].key = session[r].key => q = r

(* Events and records are of the same requests.                            *)
EventsHaveRecords ==
    /\ \A e \in outbox : records[session[e].key] # NoRow
    /\ \A k \in Keys : records[k] # NoRow =>
          LET e == records[k].response
          IN e \in outbox /\ session[e].key = k /\ session[e].body = records[k].body

IInv ==
    /\ SessionsAreTyped
    /\ \A r \in Requests : OnItsWay(r)
    /\ SaversAreAlone
    /\ EventsHaveRecords

-----------------------------------------------------------------------------
LEMMA InitIsInductive == Init => IInv
<1> SUFFICES ASSUME Init PROVE IInv
    OBVIOUS
<1>1. PICK sent \in Sent :
          session = [r \in Requests |-> [pc |-> "idle", key |-> sent[r].key, body |-> sent[r].body,
                                         attempts |-> 0, response |-> NoRow,
                                         repeat |-> FALSE]]
    BY DEF Init
<1>2. \A r \in Requests : sent[r].key \in Keys /\ sent[r].body \in Bodies
    BY SentAssumption
<1>3. 0 \in 0..MaxAttempts
    BY LimitsAssumption
<1>4. SessionsAreTyped
    BY <1>1, <1>2, <1>3 DEF Init, SessionsAreTyped, Session
<1> QED
    BY <1>1, <1>4 DEF Init, IInv, OnItsWay, SaversAreAlone, EventsHaveRecords

(* A request moves, commits nothing and does not insert its record.        *)
LEMMA MovingKeepsIInv ==
    ASSUME IInv, NEW r \in Requests, NEW s \in Session,
           session' = [session EXCEPT ![r] = s],
           s.key = session[r].key, s.body = session[r].body, s.pc # "saved",
           OnItsWay(r)', effects \subseteq effects', UNCHANGED <<records, outbox>>
    PROVE  IInv'
<1>1. \A q \in Requests : session'[q] = IF q = r THEN s ELSE session[q]
    BY DEF IInv, SessionsAreTyped
<1>2. SessionsAreTyped'
    BY DEF IInv, SessionsAreTyped
<1>3. \A q \in Requests : OnItsWay(q)'
    BY <1>1 DEF IInv, OnItsWay
<1>4. SaversAreAlone'
    BY <1>1 DEF IInv, SaversAreAlone
<1>5. EventsHaveRecords'
    BY <1>1 DEF IInv, SessionsAreTyped, EventsHaveRecords
<1> QED
    BY <1>2, <1>3, <1>4, <1>5 DEF IInv

LEMMA GoingKeepsIInv ==
    ASSUME IInv, NEW r \in Requests, NEW pc \in {"resolving", "working", "lettered"} \cup Answered,
           Goes(r, pc), pc = "resolving" => session[r].attempts = 0,
           pc = "lettered" => session[r].attempts = MaxAttempts,
           UNCHANGED <<records, outbox, effects>>
    PROVE  IInv'
<1> DEFINE s == [session[r] EXCEPT !.pc = pc]
<1>1. /\ s \in Session /\ s.key = session[r].key /\ s.body = session[r].body /\ s.pc = pc
      /\ s.attempts = session[r].attempts
    BY DEF IInv, SessionsAreTyped, Session
<1>2. session' = [session EXCEPT ![r] = s]
    BY DEF Goes
<1>3. s.pc \notin {"idle", "saving", "saved"}
    BY <1>1 DEF Answered
<1>4. session'[r] = s
    BY <1>2 DEF IInv, SessionsAreTyped
<1> HIDE DEF s
<1>5. OnItsWay(r)'
    BY <1>1, <1>3, <1>4 DEF OnItsWay
<1> QED
    BY <1>1, <1>2, <1>3, <1>5, MovingKeepsIInv

LEMMA AttemptKeepsIInv ==
    ASSUME IInv, NEW r \in Requests, Succeed(r) \/ RaiseAttempt(r)
    PROVE  IInv'
<1>1. /\ session[r] \in Session /\ session[r].pc = "working"
      /\ session[r].attempts + 1 \in 0..MaxAttempts /\ session[r].attempts + 1 > 0
      /\ UNCHANGED <<records, outbox>> /\ effects \subseteq effects'
    BY LimitsAssumption
    DEF IInv, SessionsAreTyped, Session, Succeed, RaiseAttempt, store
<1>2. CASE Succeed(r)
  <2> DEFINE s == [session[r] EXCEPT !.pc = "saving", !.attempts = @ + 1, !.response = r]
  <2>1. /\ s \in Session /\ s.key = session[r].key /\ s.body = session[r].body
        /\ s.pc = "saving" /\ s.response = r /\ s.attempts > 0
      BY <1>1 DEF Session
  <2>2. session' = [session EXCEPT ![r] = s] /\ r \in effects'
      BY <1>2 DEF Succeed
  <2>3. session'[r] = s
      BY <2>2 DEF IInv, SessionsAreTyped
  <2> HIDE DEF s
  <2>4. OnItsWay(r)'
      BY <2>1, <2>2, <2>3 DEF OnItsWay
  <2> QED
      BY <1>1, <2>1, <2>2, <2>4, MovingKeepsIInv
<1>3. CASE RaiseAttempt(r)
  <2> DEFINE s == [session[r] EXCEPT !.attempts = @ + 1]
  <2>1. /\ s \in Session /\ s.key = session[r].key /\ s.body = session[r].body
        /\ s.pc = "working"
      BY <1>1 DEF Session
  <2>2. session' = [session EXCEPT ![r] = s]
      BY <1>3 DEF RaiseAttempt
  <2>3. session'[r] = s
      BY <2>2 DEF IInv, SessionsAreTyped
  <2> HIDE DEF s
  <2>4. OnItsWay(r)'
      BY <2>1, <2>3 DEF OnItsWay
  <2> QED
      BY <1>1, <2>1, <2>2, <2>4, MovingKeepsIInv
<1> QED
    BY <1>2, <1>3

LEMMA ReplayKeepsIInv ==
    ASSUME IInv, NEW r \in Requests, ResolveSeen(r)
    PROVE  IInv'
<1> DEFINE s == [session[r] EXCEPT !.pc = "replayed", !.response = Resolved(r).response]
<1>1. session[r] \in Session /\ Resolved(r) \in Record
    BY DEF IInv, SessionsAreTyped, Session, ResolveSeen, Resolved
<1>2. /\ s \in Session /\ s.key = session[r].key /\ s.body = session[r].body
      /\ s.pc = "replayed"
    BY <1>1 DEF Session, Record, Answered
<1>3. session' = [session EXCEPT ![r] = s] /\ UNCHANGED <<records, outbox, effects>>
    BY DEF ResolveSeen, store
<1>4. session'[r] = s
    BY <1>3 DEF IInv, SessionsAreTyped
<1> HIDE DEF s
<1>5. OnItsWay(r)'
    BY <1>2, <1>4 DEF OnItsWay
<1> QED
    BY <1>2, <1>3, <1>5, MovingKeepsIInv

LEMMA SaveKeepsIInv ==
    ASSUME IInv, NEW r \in Requests, Save(r)
    PROVE  IInv'
<1>1. /\ session[r].pc = "saving" /\ Goes(r, "saved") /\ records[session[r].key] = NoRow
      /\ \A q \in Requests \ {r} : session[q].pc = "saved" => session[q].key # session[r].key
      /\ UNCHANGED <<records, outbox, effects>>
    BY DEF Save, KeyFree, Unique, store
<1>2. /\ session' \in [Requests -> Session]
      /\ \A q \in Requests \ {r} : session'[q] = session[q]
      /\ session'[r].pc = "saved" /\ session'[r].key = session[r].key
      /\ session'[r].body = session[r].body /\ session'[r].attempts = session[r].attempts
      /\ session'[r].response = session[r].response
    BY <1>1 DEF IInv, SessionsAreTyped, Session, Goes
<1>3. SessionsAreTyped'
    BY <1>1, <1>2 DEF IInv, SessionsAreTyped
<1>4. \A q \in Requests : OnItsWay(q)'
    BY <1>1, <1>2 DEF IInv, OnItsWay
<1>5. SaversAreAlone'
    BY <1>1, <1>2 DEF IInv, SaversAreAlone
<1>6. EventsHaveRecords'
  <2>1. \A q \in Requests : session'[q].key = session[q].key /\ session'[q].body = session[q].body
      BY <1>2
  <2> QED
      BY <1>1, <2>1 DEF IInv, SessionsAreTyped, EventsHaveRecords
<1> QED
    BY <1>3, <1>4, <1>5, <1>6 DEF IInv

(* The commit of an answer: its record comes with its event.               *)
LEMMA AnswerKeepsIInv ==
    ASSUME IInv, NEW r \in Requests, Commit(r), session[r].pc = "saved"
    PROVE  IInv'
<1> DEFINE k == session[r].key
           row == [body |-> session[r].body, response |-> r]
<1>1. /\ records' = [records EXCEPT ![k] = row] /\ outbox' = outbox \cup {r}
      /\ Goes(r, "done") /\ UNCHANGED effects
    BY DEF Commit
<1>2. k \in Keys /\ row \in Record /\ row # NoRow /\ records[k] = NoRow
    BY NoRowAssumption DEF IInv, SessionsAreTyped, SaversAreAlone, Session, Record
<1>3. /\ session' \in [Requests -> Session]
      /\ \A q \in Requests \ {r} : session'[q] = session[q]
      /\ session'[r].pc = "done" /\ session'[r].key = k /\ session'[r].body = session[r].body
    BY <1>1 DEF IInv, SessionsAreTyped, Session, Goes, Answered
<1>4. /\ records' \in [Keys -> Record \cup {NoRow}] /\ records'[k] = row
      /\ \A j \in Keys \ {k} : records'[j] = records[j]
    BY <1>1, <1>2 DEF IInv, SessionsAreTyped
<1>5. SessionsAreTyped'
    BY <1>1, <1>3, <1>4 DEF IInv, SessionsAreTyped
<1>6. \A q \in Requests : OnItsWay(q)'
    BY <1>1, <1>3 DEF IInv, OnItsWay
<1>7. SaversAreAlone'
  <2>1. SUFFICES ASSUME NEW p \in Requests, session'[p].pc = "saved"
                 PROVE  /\ records'[session'[p].key] = NoRow
                        /\ \A q \in Requests :
                              session'[q].pc = "saved" /\ session'[q].key = session'[p].key => q = p
      BY DEF SaversAreAlone
  <2>2. p # r /\ session'[p] = session[p] /\ session[p].key \in Keys
      BY <1>3, <2>1 DEF IInv, SessionsAreTyped, Session
  <2>3. session[p].key # k
      BY <2>1, <2>2 DEF IInv, SaversAreAlone
  <2> QED
      BY <1>3, <1>4, <2>1, <2>2, <2>3 DEF IInv, SaversAreAlone
<1>8. EventsHaveRecords'
  <2>1. \A q \in Requests : /\ session'[q].key = session[q].key /\ session'[q].key \in Keys
                            /\ session'[q].body = session[q].body
      BY <1>3 DEF IInv, SessionsAreTyped, Session
  <2>2. \A e \in outbox' : records'[session'[e].key] # NoRow
      BY <1>1, <1>2, <1>4, <2>1 DEF IInv, SessionsAreTyped, EventsHaveRecords
  <2>3. \A j \in Keys : records'[j] # NoRow =>
            /\ records'[j].response \in outbox'
            /\ session'[records'[j].response].key = j
            /\ session'[records'[j].response].body = records'[j].body
    <3>1. SUFFICES ASSUME NEW j \in Keys, records'[j] # NoRow
                   PROVE  /\ records'[j].response \in outbox'
                          /\ session'[records'[j].response].key = j
                          /\ session'[records'[j].response].body = records'[j].body
        OBVIOUS
    <3>2. CASE j = k
        BY <1>1, <1>3, <1>4, <3>2
    <3>3. CASE j # k
      <4>1. records'[j] = records[j] /\ records[j] # NoRow
          BY <1>4, <3>1, <3>3
      <4>2. /\ records[j].response \in outbox /\ records[j].response \in Requests
            /\ session[records[j].response].key = j
            /\ session[records[j].response].body = records[j].body
          BY <4>1 DEF IInv, SessionsAreTyped, EventsHaveRecords
      <4> QED
          BY <1>1, <2>1, <4>1, <4>2
    <3> QED
        BY <3>2, <3>3
  <2> QED
      BY <2>2, <2>3 DEF EventsHaveRecords
<1> QED
    BY <1>5, <1>6, <1>7, <1>8 DEF IInv

LEMMA NextKeepsIInv == IInv /\ [Next]_vars => IInv'
<1> SUFFICES ASSUME IInv, [Next]_vars PROVE IInv'
    OBVIOUS
<1>1. CASE Tick \/ Quiet \/ UNCHANGED vars
    BY <1>1
    DEF Tick, Quiet, vars, store, IInv, SessionsAreTyped, OnItsWay, SaversAreAlone, EventsHaveRecords
<1>2. ASSUME NEW r \in Requests, Admit(r) PROVE IInv'
  <2> DEFINE s == [session[r] EXCEPT !.pc = "resolving",
                                     !.repeat = records[session[r].key] # NoRow]
  <2>1. /\ session[r] \in Session /\ session[r].attempts = 0
        /\ UNCHANGED <<records, outbox, effects>>
      BY <1>2 DEF Admit, store, IInv, SessionsAreTyped, OnItsWay
  <2>2. /\ s \in Session /\ s.key = session[r].key /\ s.body = session[r].body
        /\ s.pc = "resolving" /\ s.attempts = 0
      BY <2>1 DEF Session
  <2>3. session' = [session EXCEPT ![r] = s]
      BY <1>2 DEF Admit
  <2>4. session'[r] = s
      BY <2>3 DEF IInv, SessionsAreTyped
  <2> HIDE DEF s
  <2>5. OnItsWay(r)'
      BY <2>2, <2>4 DEF OnItsWay
  <2> QED
      BY <2>1, <2>2, <2>3, <2>5, MovingKeepsIInv
<1>3. ASSUME NEW r \in Requests, Refuse(r) PROVE IInv'
  <2>1. Goes(r, "limited") /\ UNCHANGED <<records, outbox, effects>>
      BY <1>3 DEF Refuse, store
  <2> QED
      BY <2>1, GoingKeepsIInv DEF Answered
<1>4. ASSUME NEW r \in Requests, ResolveNew(r) PROVE IInv'
  <2>1. Goes(r, "working") /\ UNCHANGED <<records, outbox, effects>>
      BY <1>4 DEF ResolveNew, store
  <2> QED
      BY <2>1, GoingKeepsIInv
<1>5. ASSUME NEW r \in Requests, ResolveReused(r) \/ SaveConflicts(r) \/ Abort(r) PROVE IInv'
  <2>1. PICK pc \in {"conflict", "failed", "aborted"} :
            Goes(r, pc) /\ UNCHANGED <<records, outbox, effects>>
      BY <1>5 DEF ResolveReused, SaveConflicts, Abort, store
  <2> QED
      BY <2>1, GoingKeepsIInv DEF Answered
<1>6. ASSUME NEW r \in Requests, Letter(r) PROVE IInv'
  <2>1. /\ Goes(r, "lettered") /\ session[r].attempts = MaxAttempts
        /\ UNCHANGED <<records, outbox, effects>>
      BY <1>6 DEF Letter, store
  <2> QED
      BY <2>1, GoingKeepsIInv
<1>7. ASSUME NEW r \in Requests, Commit(r) PROVE IInv'
  <2>1. CASE session[r].pc = "saved"
      BY <1>7, <2>1, AnswerKeepsIInv
  <2>2. CASE session[r].pc # "saved"
    <3>1. Goes(r, "dead") /\ UNCHANGED <<records, outbox, effects>>
        BY <1>7, <2>2 DEF Commit
    <3> QED
        BY <3>1, GoingKeepsIInv DEF Answered
  <2> QED
      BY <2>1, <2>2
<1> QED
    BY <1>1, <1>2, <1>3, <1>4, <1>5, <1>6, <1>7, AttemptKeepsIInv, ReplayKeepsIInv, SaveKeepsIInv
    DEF Next, Proceed

LEMMA Inductive == Spec => []IInv
BY InitIsInductive, NextKeepsIInv, PTL DEF Spec

-----------------------------------------------------------------------------
(* One request is carried out: what OneIsCarriedOut says, with what it     *)
(* needs to be kept by every step.                                         *)
Fits(r) ==
    /\ session[r].pc = "idle" => r \notin effects \cup letters
    /\ session[r].pc = "replayed" =>
          /\ Resolved(r) # NoRow
          /\ Resolved(r) = [body |-> session[r].body, response |-> session[r].response]
    /\ session[r].pc = "conflict" => Resolved(r) # NoRow /\ Resolved(r).body # session[r].body
    /\ session[r].repeat =>
          /\ r \notin effects \cup letters /\ Resolved(r) # NoRow
          /\ session[r].pc \in {"resolving", "replayed", "conflict", "aborted"}

IsCarriedOut(r) ==
    r \in effects /\ Resolved(r) = [body |-> session[r].body, response |-> r]

CarriedInv ==
    /\ \A r \in outbox : IsCarriedOut(r)
    /\ \A r \in Requests : Fits(r)

(* A step of r leaves the others, what r asks and the kept records alone.  *)
MovesOnly(r) ==
    /\ \A q \in Requests \ {r} :
          /\ session'[q] = session[q]
          /\ q \in effects' <=> q \in effects
          /\ q \in letters' <=> q \in letters
          /\ q \in outbox' <=> q \in outbox
    /\ session'[r].key = session[r].key /\ session'[r].body = session[r].body
    /\ effects \subseteq effects' /\ outbox' \subseteq Requests
    /\ \A k \in Keys : records[k] # NoRow => records'[k] = records[k]

LEMMA StepMovesOne ==
    ASSUME IInv, NEW r \in Requests, Admit(r) \/ Refuse(r) \/ Proceed(r) \/ Abort(r)
    PROVE  MovesOnly(r)
<1>1. session \in [Requests -> Session] /\ records \in [Keys -> Record \cup {NoRow}]
      /\ outbox \subseteq Requests
    BY DEF IInv, SessionsAreTyped
<1>2. ASSUME NEW pc, Goes(r, pc)
      PROVE  /\ \A q \in Requests \ {r} : session'[q] = session[q]
             /\ session'[r].key = session[r].key /\ session'[r].body = session[r].body
    BY <1>1, <1>2 DEF Goes, Session
<1>3. CASE Admit(r)
    BY <1>1, <1>3 DEF Admit, Session, store, MovesOnly
<1>4. CASE Refuse(r)
    BY <1>1, <1>2, <1>4 DEF Refuse, store, MovesOnly
<1>5. CASE ResolveSeen(r)
    BY <1>1, <1>5 DEF ResolveSeen, Session, store, MovesOnly
<1>6. CASE Succeed(r) \/ RaiseAttempt(r)
    BY <1>1, <1>6 DEF Succeed, RaiseAttempt, Session, store, MovesOnly
<1>7. CASE Commit(r)
  <2>1. /\ \A q \in Requests \ {r} : session'[q] = session[q]
        /\ session'[r].key = session[r].key /\ session'[r].body = session[r].body
      BY <1>2, <1>7 DEF Commit
  <2>2. effects' = effects /\ outbox' \subseteq Requests
        /\ \A q \in Requests \ {r} : /\ q \in letters' <=> q \in letters
                                     /\ q \in outbox' <=> q \in outbox
      BY <1>1, <1>7 DEF Commit
  <2>3. \A k \in Keys : records[k] # NoRow => records'[k] = records[k]
    <3>1. CASE session[r].pc = "saved"
      <4>1. /\ records[session[r].key] = NoRow
            /\ records' = [records EXCEPT ![session[r].key] =
                              [body |-> session[r].body, response |-> r]]
          BY <1>7, <3>1 DEF Commit, IInv, SaversAreAlone
      <4> QED
          BY <1>1, <4>1
    <3>2. CASE session[r].pc # "saved"
        BY <1>7, <3>2 DEF Commit
    <3> QED
        BY <3>1, <3>2
  <2> QED
      BY <2>1, <2>2, <2>3 DEF MovesOnly
<1>8. CASE ResolveNew(r) \/ ResolveReused(r) \/ Letter(r) \/ Save(r) \/ SaveConflicts(r) \/ Abort(r)
  <2>1. PICK pc \in {"working", "conflict", "lettered", "saved", "failed", "aborted"} :
            Goes(r, pc) /\ UNCHANGED <<store, effects>>
      BY <1>8 DEF ResolveNew, ResolveReused, Letter, Save, SaveConflicts, Abort
  <2> QED
      BY <1>1, <1>2, <2>1 DEF store, MovesOnly
<1> QED
    BY <1>3, <1>4, <1>5, <1>6, <1>7, <1>8 DEF Proceed

LEMMA OthersStayFit ==
    ASSUME IInv, NEW r \in Requests, MovesOnly(r), NEW q \in Requests \ {r}, Fits(q)
    PROVE  Fits(q)'
<1>1. session[q].key \in Keys /\ session'[q] = session[q]
      /\ (q \in effects' <=> q \in effects) /\ (q \in letters' <=> q \in letters)
    BY DEF IInv, SessionsAreTyped, Session, MovesOnly
<1>2. Resolved(q) # NoRow => Resolved(q)' = Resolved(q)
    BY <1>1 DEF MovesOnly, Resolved
<1> QED
    BY <1>1, <1>2 DEF Fits

LEMMA EventsStayCarriedOut ==
    ASSUME IInv, NEW r \in Requests, MovesOnly(r), NEW q \in outbox, IsCarriedOut(q)
    PROVE  IsCarriedOut(q)'
<1>1. q \in Requests /\ session[q].key \in Keys
      /\ session'[q].key = session[q].key /\ session'[q].body = session[q].body
    BY DEF IInv, SessionsAreTyped, Session, MovesOnly
<1>2. Resolved(q) # NoRow
    BY DEF IInv, EventsHaveRecords, Resolved
<1>3. Resolved(q)' = Resolved(q)
    BY <1>1, <1>2 DEF MovesOnly, Resolved
<1> QED
    BY <1>1, <1>3 DEF IsCarriedOut, MovesOnly

(* Where the step of r leaves r.                                           *)
LEMMA MoverFits ==
    ASSUME IInv, NEW r \in Requests, Fits(r),
           Admit(r) \/ Refuse(r) \/ Proceed(r) \/ Abort(r)
    PROVE  Fits(r)'
<1>1. session \in [Requests -> Session] /\ records \in [Keys -> Record \cup {NoRow}]
    BY DEF IInv, SessionsAreTyped
<1>2. ASSUME NEW pc, Goes(r, pc)
      PROVE  /\ session'[r].pc = pc /\ session'[r].key = session[r].key
             /\ session'[r].body = session[r].body /\ session'[r].repeat = session[r].repeat
    BY <1>1, <1>2 DEF Goes, Session
<1>3. CASE Admit(r)
  <2>1. session'[r] = [session[r] EXCEPT !.pc = "resolving",
                                         !.repeat = records[session[r].key] # NoRow]
        /\ session[r] \in Session /\ session[r].pc = "idle"
        /\ UNCHANGED <<records, letters, effects>>
      BY <1>1, <1>3 DEF Admit, store
  <2>2. /\ session'[r].pc = "resolving" /\ session'[r].key = session[r].key
        /\ session'[r].repeat = (records[session[r].key] # NoRow)
      BY <2>1 DEF Session
  <2> QED
      BY <2>1, <2>2 DEF Fits, Resolved
<1>4. CASE Refuse(r)
  <2>1. Goes(r, "limited") /\ session[r].pc = "idle" /\ UNCHANGED <<records, letters, effects>>
      BY <1>4 DEF Refuse, store
  <2> QED
      BY <1>2, <2>1 DEF Fits
<1>5. CASE ResolveNew(r)
  <2>1. Goes(r, "working") /\ Resolved(r) = NoRow
      BY <1>5 DEF ResolveNew
  <2> QED
      BY <1>2, <2>1 DEF Fits
<1>6. CASE ResolveSeen(r)
  <2>1. session'[r] = [session[r] EXCEPT !.pc = "replayed", !.response = Resolved(r).response]
        /\ session[r] \in Session /\ session[r].pc = "resolving"
        /\ Resolved(r) # NoRow /\ Resolved(r).body = session[r].body
        /\ UNCHANGED <<records, letters, effects>>
      BY <1>1, <1>6 DEF ResolveSeen, SameRequest, store
  <2>2. /\ session'[r].pc = "replayed" /\ session'[r].key = session[r].key
        /\ session'[r].body = session[r].body /\ session'[r].response = Resolved(r).response
        /\ session'[r].repeat = session[r].repeat
      BY <2>1 DEF Session
  <2>3. Resolved(r) \in Record
      BY <1>1, <2>1 DEF Session, Resolved
  <2>4. Resolved(r) = [body |-> Resolved(r).body, response |-> Resolved(r).response]
      BY <2>3 DEF Record
  <2>5. Resolved(r)' = Resolved(r)
      BY <2>1, <2>2 DEF Resolved
  <2> QED
      BY <2>1, <2>2, <2>4, <2>5 DEF Fits
<1>7. CASE ResolveReused(r)
  <2>1. Goes(r, "conflict") /\ session[r].pc = "resolving" /\ Resolved(r) # NoRow
        /\ Resolved(r).body # session[r].body /\ UNCHANGED <<records, letters, effects>>
      BY <1>7 DEF ResolveReused, SameRequest, store
  <2>2. /\ session'[r].pc = "conflict" /\ session'[r].key = session[r].key
        /\ session'[r].body = session[r].body /\ session'[r].repeat = session[r].repeat
      BY <1>2, <2>1
  <2>3. Resolved(r)' = Resolved(r)
      BY <2>1, <2>2 DEF Resolved
  <2> QED
      BY <2>1, <2>2, <2>3 DEF Fits
<1>8. CASE Abort(r)
  <2>1. Goes(r, "aborted") /\ UNCHANGED <<records, letters, effects>>
      BY <1>8 DEF Abort, store
  <2> QED
      BY <1>2, <2>1 DEF Fits, Resolved
<1>9. CASE Succeed(r) \/ RaiseAttempt(r) \/ Letter(r) \/ Save(r) \/ SaveConflicts(r) \/ Commit(r)
  <2>1. session[r].pc \in {"working", "saving", "saved", "lettered"}
      BY <1>9 DEF Succeed, RaiseAttempt, Letter, Save, SaveConflicts, Commit
  <2>2. ~session[r].repeat
      BY <2>1 DEF Fits
  <2>3. /\ session'[r].pc \in {"working", "saving", "saved", "lettered", "failed", "done", "dead"}
        /\ session'[r].repeat = session[r].repeat
    <3>1. CASE Succeed(r) \/ RaiseAttempt(r)
        BY <1>1, <3>1 DEF Succeed, RaiseAttempt, Session
    <3>2. CASE ~(Succeed(r) \/ RaiseAttempt(r))
      <4>1. PICK pc \in {"lettered", "saved", "failed", "done", "dead"} : Goes(r, pc)
          BY <1>9, <3>2 DEF Letter, Save, SaveConflicts, Commit
      <4> QED
          BY <1>2, <4>1
    <3> QED
        BY <3>1, <3>2
  <2> QED
      BY <2>2, <2>3 DEF Fits
<1> QED
    BY <1>3, <1>4, <1>5, <1>6, <1>7, <1>8, <1>9 DEF Proceed

(* A step of r puts at most r itself into the outbox, with its record.     *)
LEMMA MoverIsCarriedOut ==
    ASSUME IInv, NEW r \in Requests, r \in outbox',  r \notin outbox,
           Admit(r) \/ Refuse(r) \/ Proceed(r) \/ Abort(r)
    PROVE  IsCarriedOut(r)'
<1>1. Commit(r) /\ session[r].pc = "saved"
    BY DEF Proceed, Admit, Refuse, ResolveNew, ResolveSeen, ResolveReused, Succeed, RaiseAttempt,
           Letter, Save, SaveConflicts, Commit, Abort, store
<1>2. /\ records' = [records EXCEPT ![session[r].key] = [body |-> session[r].body, response |-> r]]
      /\ Goes(r, "done") /\ effects' = effects
    BY <1>1 DEF Commit
<1>3. r \in effects
    BY <1>1 DEF IInv, OnItsWay
<1>4. session'[r].key = session[r].key /\ session'[r].body = session[r].body
      /\ session[r].key \in Keys
    BY <1>2 DEF Goes, IInv, SessionsAreTyped, Session
<1>5. records'[session[r].key] = [body |-> session[r].body, response |-> r]
    BY <1>2, <1>4 DEF IInv, SessionsAreTyped
<1> QED
    BY <1>2, <1>3, <1>4, <1>5 DEF IsCarriedOut, Resolved

LEMMA InitIsCarried == Init => CarriedInv
<1> SUFFICES ASSUME Init PROVE CarriedInv
    OBVIOUS
<1>1. \A r \in Requests : session[r].pc = "idle" /\ session[r].repeat = FALSE
    BY DEF Init
<1> QED
    BY <1>1 DEF Init, CarriedInv, Fits

LEMMA NextKeepsCarried == IInv /\ CarriedInv /\ [Next]_vars => CarriedInv'
<1> SUFFICES ASSUME IInv, CarriedInv, [Next]_vars PROVE CarriedInv'
    OBVIOUS
<1>1. CASE Tick \/ Quiet \/ UNCHANGED vars
    BY <1>1 DEF Tick, Quiet, vars, store, CarriedInv, Fits, IsCarriedOut, Resolved
<1>2. ASSUME NEW r \in Requests, Admit(r) \/ Refuse(r) \/ Proceed(r) \/ Abort(r)
      PROVE  CarriedInv'
  <2>1. MovesOnly(r)
      BY <1>2, StepMovesOne
  <2>2. \A q \in Requests : Fits(q)'
    <3>1. TAKE q \in Requests
    <3>2. CASE q = r
        BY <1>2, <3>2, MoverFits DEF CarriedInv
    <3>3. CASE q # r
        BY <2>1, <3>3, OthersStayFit DEF CarriedInv
    <3> QED
        BY <3>2, <3>3
  <2>3. \A q \in outbox' : IsCarriedOut(q)'
    <3>1. TAKE q \in outbox'
    <3>2. CASE q \in outbox
        BY <2>1, <3>2, EventsStayCarriedOut DEF CarriedInv
    <3>3. CASE q \notin outbox
      <4>1. q = r
          BY <2>1, <3>3 DEF MovesOnly
      <4> QED
          BY <1>2, <3>3, <4>1, MoverIsCarriedOut
    <3> QED
        BY <3>2, <3>3
  <2> QED
      BY <2>2, <2>3 DEF CarriedInv
<1> QED
    BY <1>1, <1>2 DEF Next

LEMMA CarriedIsEnough == IInv /\ CarriedInv => OneIsCarriedOut
BY DEF IInv, EventsHaveRecords, CarriedInv, Fits, IsCarriedOut, OneIsCarriedOut

(* Whatever the limiter, the transactions, the retries, the unique key and *)
(* the aborts do, one request of a key is carried out for good, and what   *)
(* is replayed, refused or comes late is told apart by its record.         *)
THEOREM OneIsCarriedOutForAll == Spec => []OneIsCarriedOut
<1>1. IInv /\ CarriedInv /\ [Next]_vars => CarriedInv'
    BY NextKeepsCarried
<1>2. Init => CarriedInv
    BY InitIsCarried
<1>3. IInv /\ CarriedInv => OneIsCarriedOut
    BY CarriedIsEnough
<1> QED
    BY <1>1, <1>2, <1>3, Inductive, PTL DEF Spec

-----------------------------------------------------------------------------
(* The rate limiter keeps its limit: however the requests and the clock    *)
(* go, no window holds more admissions than the limit, and a request is    *)
(* refused only when its window holds as many.                             *)

(* A set of numbers has a least one: 0..x is least under inclusion for it. *)
LEMMA NumbersHaveALeast ==
    ASSUME NEW S, S \subseteq Nat, S # {}
    PROVE  Min(S) \in S /\ \A y \in S : Min(S) <= y
<1> DEFINE T == {0..x : x \in S}
<1>1. T \subseteq FiniteSubsetsOf(Nat) /\ T # {}
  <2>1. \A x \in S : 0..x \in SUBSET Nat /\ IsFiniteSet(0..x)
      BY FS_Interval
  <2> QED
      BY <2>1 DEF FiniteSubsetsOf
<1>2. PICK X \in T : \A Y \in T : ~(<<Y, X>> \in StrictSubsetOrdering(Nat))
  <2>1. IsWellFoundedOn(StrictSubsetOrdering(Nat), FiniteSubsetsOf(Nat))
      BY FS_StrictSubsetOrderingWellFounded
  <2> HIDE DEF T
  <2> QED
      BY <1>1, <2>1, WFMin
<1>3. PICK x \in S : X = 0..x
    OBVIOUS
<1>4. ASSUME NEW y \in S, ~(x <= y) PROVE FALSE
  <2>1. 0..y \in T /\ 0..y \in SUBSET Nat /\ X \in SUBSET Nat
      BY <1>3
  <2>2. 0..y \subseteq X /\ x \in X /\ x \notin 0..y
      BY <1>3, <1>4
  <2>3. <<0..y, X>> \in StrictSubsetOrdering(Nat)
      BY <2>1, <2>2 DEF StrictSubsetOrdering
  <2> QED
      BY <1>2, <2>1, <2>3
<1> QED
    BY <1>4 DEF Min

-----------------------------------------------------------------------------
(* What allow drops is the run of forgotten admissions the deque begins    *)
(* with.                                                                   *)
LEMMA RememberedIsASuffix ==
    ASSUME TypeOK
    PROVE  \E d \in 0..Len(window) :
              /\ Remembered \in Seq(0..MaxClock) /\ Len(Remembered) = Len(window) - d
              /\ \A i \in 1..Len(Remembered) : Remembered[i] = window[d + i]
              /\ \A i \in 1..d : Forgotten(window[i])
              /\ Len(Remembered) > 0 => ~Forgotten(Remembered[1])
<1> DEFINE I == {i \in 1..Len(window) : ~Forgotten(window[i])}
           n == Len(window)
<1>1. Kept = IF I # {} THEN Min(I) ELSE 0
    BY DEF Kept, SelectInSeq
<1>2. window \in Seq(0..MaxClock) /\ n \in Nat
    BY DEF TypeOK
<1>3. I # {} => Min(I) \in I /\ \A y \in I : Min(I) <= y
  <2>1. I \subseteq Nat
      BY <1>2
  <2> HIDE DEF I
  <2> QED
      BY <2>1, NumbersHaveALeast
<1>4. CASE I = {}
  <2>1. Kept = 0
      BY <1>1, <1>4
  <2>2. Remembered = << >>
      BY <2>1 DEF Remembered
  <2>3. \A i \in 1..n : Forgotten(window[i])
      BY <1>4
  <2> QED
      BY <1>2, <2>2, <2>3
<1>5. CASE I # {}
  <2> DEFINE d == Kept - 1
  <2>1. Kept \in 1..n /\ ~Forgotten(window[Kept]) /\ \A i \in 1..d : i \notin I
    <3>1. Kept \in I /\ \A y \in I : Kept <= y
        BY <1>1, <1>3, <1>5
    <3>2. Kept \in 1..n /\ ~Forgotten(window[Kept])
        BY <3>1
    <3>3. \A i \in 1..d : ~(Kept <= i)
        BY <1>2, <3>2
    <3> QED
        BY <3>1, <3>2, <3>3
  <2>2. \A i \in 1..d : Forgotten(window[i])
      BY <1>2, <2>1
  <2> HIDE DEF Kept, I
  <2>3. Remembered = SubSeq(window, Kept, n)
      BY <2>1 DEF Remembered
  <2>4. Kept \in Int /\ n \in Int /\ Kept <= n /\ \A i \in Kept..n : window[i] \in 0..MaxClock
    <3>1. \A i \in 1..n : window[i] \in 0..MaxClock
        BY <1>2, ElementOfSeq
    <3> QED
        BY <1>2, <2>1, <3>1
  <2>5. /\ Remembered \in Seq(0..MaxClock) /\ Len(Remembered) = n - Kept + 1
        /\ \A i \in 1..n - Kept + 1 : Remembered[i] = window[Kept + i - 1]
      BY <2>3, <2>4, SubSeqProperties
  <2>6. d \in 0..n /\ Len(Remembered) = n - d
      BY <1>2, <2>1, <2>5
  <2>7. \A i \in 1..Len(Remembered) : Remembered[i] = window[d + i]
    <3>1. \A i \in 1..n - Kept + 1 : Kept + i - 1 = d + i
        BY <2>4
    <3> QED
        BY <2>5, <3>1
  <2>8. Len(Remembered) > 0 => ~Forgotten(Remembered[1])
    <3>1. Remembered[1] = window[Kept]
        BY <2>4, <2>5
    <3> QED
        BY <2>1, <3>1
  <2> QED
      BY <2>2, <2>5, <2>6, <2>7, <2>8
<1> QED
    BY <1>4, <1>5

LEMMA NextKeepsTypes == TypeOK /\ IInv' /\ [Next]_vars => TypeOK'
<1> SUFFICES ASSUME TypeOK, IInv', [Next]_vars PROVE TypeOK'
    OBVIOUS
<1>1. /\ session' \in [Requests -> Session] /\ records' \in [Keys -> Record \cup {NoRow}]
      /\ outbox' \subseteq Requests
    BY DEF IInv, SessionsAreTyped
<1>2. /\ clock' \in 0..MaxClock
      /\ window' \in Seq(0..MaxClock) /\ Len(window') <= Limit
      /\ admissions' \in Seq(0..MaxClock)
  <2>1. CASE Tick
      BY <2>1, LimitsAssumption DEF Tick, TypeOK
  <2>2. ASSUME NEW r \in Requests, Admit(r)
        PROVE  /\ clock' \in 0..MaxClock
               /\ window' \in Seq(0..MaxClock) /\ Len(window') <= Limit
               /\ admissions' \in Seq(0..MaxClock)
    <3>1. Remembered \in Seq(0..MaxClock) /\ clock \in 0..MaxClock
        BY RememberedIsASuffix DEF TypeOK
    <3>2. /\ window' = Append(Remembered, clock) /\ Len(Remembered) < Limit
          /\ admissions' = Append(admissions, clock) /\ clock' = clock
        BY <2>2 DEF Admit
    <3> HIDE DEF Remembered
    <3> QED
        BY <3>1, <3>2, LimitsAssumption DEF TypeOK
  <2>3. ASSUME NEW r \in Requests, Refuse(r)
        PROVE  /\ clock' \in 0..MaxClock
               /\ window' \in Seq(0..MaxClock) /\ Len(window') <= Limit
               /\ admissions' \in Seq(0..MaxClock)
    <3>1. /\ Remembered \in Seq(0..MaxClock) /\ Len(Remembered) <= Len(window)
        BY RememberedIsASuffix
    <3>2. window' = Remembered /\ UNCHANGED <<clock, admissions>>
        BY <2>3 DEF Refuse
    <3> HIDE DEF Remembered
    <3> QED
        BY <3>1, <3>2, LimitsAssumption DEF TypeOK
  <2>4. ASSUME NEW r \in Requests, Proceed(r) \/ Abort(r)
        PROVE  UNCHANGED <<clock, window, admissions>>
      BY <2>4
      DEF Proceed, ResolveNew, ResolveSeen, ResolveReused, Succeed, RaiseAttempt, Letter,
          Save, SaveConflicts, Commit, Abort
  <2>5. CASE Quiet \/ UNCHANGED vars
      BY <2>5 DEF Quiet, vars, TypeOK
  <2> QED
      BY <2>1, <2>2, <2>3, <2>4, <2>5 DEF Next, TypeOK
<1>3. letters' \subseteq Requests /\ effects' \subseteq Requests
    BY DEF TypeOK, Next, vars, store, Tick, Quiet, Admit, Refuse, Proceed, ResolveNew, ResolveSeen,
           ResolveReused, Succeed, RaiseAttempt, Letter, Save, SaveConflicts, Commit, Abort
<1> QED
    BY <1>1, <1>2, <1>3 DEF TypeOK

(* TypeOK: the deque holds at most the limit, no request makes more        *)
(* attempts than it may, and every table keeps its type.                   *)
THEOREM TypesAreKept == Spec => []TypeOK
<1>1. Init => TypeOK
  <2> SUFFICES ASSUME Init PROVE TypeOK
      OBVIOUS
  <2>1. SessionsAreTyped
      BY InitIsInductive DEF IInv
  <2> QED
      BY <2>1, LimitsAssumption DEF Init, TypeOK, SessionsAreTyped
<1> QED
    BY <1>1, NextKeepsTypes, Inductive, PTL DEF Spec

-----------------------------------------------------------------------------
(* The deque is what is left of the history when a beginning of it that    *)
(* has left every window to come is dropped; and the bound itself.         *)
Gone == Len(admissions) - Len(window)

Recalls ==
    /\ Gone \in Nat
    /\ \A i \in 1..Len(window) : window[i] = admissions[Gone + i]
    /\ \A i \in 1..Gone : Forgotten(admissions[i])

InOrder ==
    /\ \A i, j \in 1..Len(admissions) : i <= j => admissions[i] <= admissions[j]
    /\ \A i \in 1..Len(admissions) : admissions[i] <= clock

Bounded == \A t \in 0..MaxClock : Cardinality(WithinWindow(t)) <= Limit

LimiterInv == Recalls /\ InOrder /\ Bounded

LEMMA AdmissionsAreTimes ==
    ASSUME TypeOK
    PROVE  /\ Len(admissions) \in Nat /\ Len(window) \in Nat /\ clock \in Nat
           /\ Limit \in Nat /\ Window \in Nat /\ MaxClock \in Nat
           /\ \A i \in 1..Len(admissions) : admissions[i] \in Nat
<1>1. \A i \in 1..Len(admissions) : admissions[i] \in 0..MaxClock
    BY ElementOfSeq DEF TypeOK
<1> QED
    BY <1>1, LimitsAssumption DEF TypeOK

(* What allow remembers is what is still in the window of this moment.     *)
LEMMA RememberedIsTheWindow ==
    ASSUME TypeOK, Recalls, InOrder
    PROVE  \E g \in 0..Len(admissions) :
              /\ Len(Remembered) = Len(admissions) - g
              /\ \A i \in 1..Len(Remembered) : Remembered[i] = admissions[g + i]
              /\ \A i \in 1..g : Forgotten(admissions[i])
              /\ \A i \in (g + 1)..Len(admissions) : ~Forgotten(admissions[i])
<1>1. PICK d \in 0..Len(window) :
          /\ Remembered \in Seq(0..MaxClock) /\ Len(Remembered) = Len(window) - d
          /\ \A i \in 1..Len(Remembered) : Remembered[i] = window[d + i]
          /\ \A i \in 1..d : Forgotten(window[i])
          /\ Len(Remembered) > 0 => ~Forgotten(Remembered[1])
    BY RememberedIsASuffix
<1> HIDE DEF Remembered
<1> DEFINE g == Gone + d
           m == Len(admissions)
<1>2. /\ m \in Nat /\ Len(window) \in Nat /\ Gone \in Nat /\ Gone = m - Len(window)
      /\ clock \in Nat /\ Window \in Nat /\ \A i \in 1..m : admissions[i] \in Nat
    BY AdmissionsAreTimes DEF Recalls, Gone
<1>3. g \in 0..m /\ Len(Remembered) = m - g
    BY <1>1, <1>2
<1>4. ASSUME NEW i \in 1..Len(Remembered) PROVE Remembered[i] = admissions[g + i]
  <2>1. d + i \in 1..Len(window) /\ Gone + (d + i) = g + i
      BY <1>1, <1>2
  <2> QED
      BY <1>1, <2>1 DEF Recalls
<1>5. ASSUME NEW i \in 1..g PROVE Forgotten(admissions[i])
  <2>1. CASE i <= Gone
      BY <1>2, <2>1 DEF Recalls
  <2>2. CASE ~(i <= Gone)
    <3>1. i - Gone \in 1..d /\ i - Gone \in 1..Len(window) /\ Gone + (i - Gone) = i
        BY <1>1, <1>2, <2>2
    <3> QED
        BY <1>1, <3>1 DEF Recalls
  <2> QED
      BY <2>1, <2>2
<1>6. ASSUME NEW i \in (g + 1)..m PROVE ~Forgotten(admissions[i])
  <2>1. 1 \in 1..Len(Remembered) /\ g + 1 \in 1..m /\ i \in 1..m /\ g + 1 <= i
      BY <1>2, <1>3
  <2>2. ~Forgotten(admissions[g + 1])
      BY <1>1, <1>4, <2>1
  <2>3. admissions[g + 1] <= admissions[i]
      BY <2>1 DEF InOrder
  <2>4. admissions[g + 1] \in Nat /\ admissions[i] \in Nat
      BY <1>2, <2>1
  <2> HIDE DEF g, m
  <2> QED
      BY <1>2, <2>2, <2>3, <2>4 DEF Forgotten
<1> QED
    BY <1>3, <1>4, <1>5, <1>6

LEMMA RefuseKeepsLimiter ==
    ASSUME TypeOK, LimiterInv, NEW r \in Requests, Refuse(r)
    PROVE  LimiterInv' /\ Cardinality(WithinWindow(clock)) >= Limit
<1> DEFINE m == Len(admissions)
<1>1. PICK g \in 0..m :
          /\ Len(Remembered) = m - g
          /\ \A i \in 1..Len(Remembered) : Remembered[i] = admissions[g + i]
          /\ \A i \in 1..g : Forgotten(admissions[i])
          /\ \A i \in (g + 1)..m : ~Forgotten(admissions[i])
    BY RememberedIsTheWindow DEF LimiterInv
<1>2. window' = Remembered /\ UNCHANGED <<clock, admissions>> /\ Len(Remembered) >= Limit
    BY DEF Refuse
<1> HIDE DEF Remembered
<1>3. /\ m \in Nat /\ clock \in Nat /\ Window \in Nat /\ Limit \in Nat
      /\ \A i \in 1..m : admissions[i] \in Nat
    BY AdmissionsAreTimes
<1>4. Gone' = g
    BY <1>1, <1>2, <1>3 DEF Gone
<1>5. Recalls'
  <2>1. Gone' \in Nat
      BY <1>4
  <2>2. \A i \in 1..Len(window') : window'[i] = admissions'[Gone' + i]
      BY <1>1, <1>2, <1>4
  <2>3. \A i \in 1..Gone' : Forgotten(admissions[i])'
      BY <1>1, <1>2, <1>4 DEF Forgotten
  <2> QED
      BY <2>1, <2>2, <2>3 DEF Recalls
<1>6. InOrder' /\ Bounded'
    BY <1>2 DEF LimiterInv, InOrder, Bounded, WithinWindow
<1>7. Cardinality(WithinWindow(clock)) >= Limit
  <2>1. /\ IsFiniteSet(1..m) /\ WithinWindow(clock) \in SUBSET (1..m)
        /\ (g + 1)..m \in SUBSET WithinWindow(clock)
    <3>1. DOMAIN admissions = 1..m
        BY DEF TypeOK
    <3>2. \A i \in (g + 1)..m : i \in 1..m /\ admissions[i] <= clock
        BY <1>3 DEF LimiterInv, InOrder
    <3>3. \A i \in (g + 1)..m : clock < admissions[i] + Window
        BY <1>1, <1>3, <3>2 DEF Forgotten
    <3>4. (g + 1)..m \in SUBSET WithinWindow(clock)
        BY <3>1, <3>2, <3>3 DEF WithinWindow
    <3>5. WithinWindow(clock) \in SUBSET (1..m)
        BY <3>1 DEF WithinWindow
    <3>6. IsFiniteSet(1..m)
        BY <1>3, FS_Interval
    <3> QED
        BY <3>4, <3>5, <3>6
  <2>2. IsFiniteSet(WithinWindow(clock)) /\ Cardinality(WithinWindow(clock)) \in Nat
      BY <2>1, FS_Subset, FS_CardinalityType
  <2>3. Cardinality((g + 1)..m) <= Cardinality(WithinWindow(clock))
      BY <2>1, <2>2, FS_Subset
  <2>4. Cardinality((g + 1)..m) = m - g
    <3>1. g + 1 \in Int /\ m \in Int
        BY <1>3
    <3>2. Cardinality((g + 1)..m) = IF g + 1 > m THEN 0 ELSE m - (g + 1) + 1
        BY <3>1, FS_Interval
    <3> QED
        BY <1>1, <1>3, <3>2
  <2> QED
      BY <1>1, <1>2, <1>3, <2>2, <2>3, <2>4
<1> QED
    BY <1>5, <1>6, <1>7 DEF LimiterInv

(* An admission is the last of the history, and the windows it is in begin *)
(* after everything that allow has forgotten.                              *)
LEMMA AdmitKeepsLimiter ==
    ASSUME TypeOK, LimiterInv, NEW r \in Requests, Admit(r)
    PROVE  LimiterInv'
<1> DEFINE m == Len(admissions)
<1>1. PICK g \in 0..m :
          /\ Len(Remembered) = m - g
          /\ \A i \in 1..Len(Remembered) : Remembered[i] = admissions[g + i]
          /\ \A i \in 1..g : Forgotten(admissions[i])
          /\ \A i \in (g + 1)..m : ~Forgotten(admissions[i])
    BY RememberedIsTheWindow DEF LimiterInv
<1>2. /\ window' = Append(Remembered, clock) /\ admissions' = Append(admissions, clock)
      /\ clock' = clock /\ Len(Remembered) < Limit
    BY DEF Admit
<1>3. Remembered \in Seq(0..MaxClock)
    BY RememberedIsASuffix
<1> HIDE DEF Remembered
<1>4. /\ m \in Nat /\ clock \in Nat /\ Window \in Nat /\ Limit \in Nat
      /\ \A i \in 1..m : admissions[i] \in Nat
    BY AdmissionsAreTimes
<1>5. /\ Len(admissions') = m + 1 /\ admissions'[m + 1] = clock
      /\ \A i \in 1..m : admissions'[i] = admissions[i]
      /\ DOMAIN admissions' = 1..(m + 1)
    BY <1>2, AppendProperties DEF TypeOK
<1>6. /\ Len(window') = m - g + 1 /\ window'[m - g + 1] = clock
      /\ \A i \in 1..m - g : window'[i] = Remembered[i]
    BY <1>1, <1>2, <1>3, AppendProperties DEF TypeOK
<1> HIDE DEF m
<1>7. Recalls'
  <2>1. Gone' = g
      BY <1>1, <1>4, <1>5, <1>6 DEF Gone
  <2>2. ASSUME NEW i \in 1..Len(window') PROVE window'[i] = admissions'[g + i]
    <3>1. CASE i = m - g + 1
        BY <1>4, <1>5, <1>6, <3>1
    <3>2. CASE i # m - g + 1
      <4>1. i \in 1..m - g /\ g + i \in 1..m
          BY <1>4, <1>6, <3>2
      <4> QED
          BY <1>1, <1>5, <1>6, <4>1
    <3> QED
        BY <3>1, <3>2
  <2>3. \A i \in 1..g : Forgotten(admissions[i])'
    <3>1. \A i \in 1..g : i \in 1..m
        BY <1>4
    <3> QED
        BY <1>1, <1>2, <1>5, <3>1 DEF Forgotten
  <2>4. g \in Nat
      BY <1>4
  <2> QED
      BY <2>1, <2>2, <2>3, <2>4 DEF Recalls
<1>8. InOrder'
  <2>1. \A i \in 1..m : admissions[i] <= clock
      BY DEF LimiterInv, InOrder, m
  <2>2. ASSUME NEW i \in 1..(m + 1) PROVE admissions'[i] <= clock
    <3>1. i \in 1..m \/ i = m + 1
        BY <1>4
    <3> QED
        BY <1>4, <1>5, <2>1, <3>1
  <2>3. ASSUME NEW i \in 1..(m + 1), NEW j \in 1..(m + 1), i <= j
        PROVE  admissions'[i] <= admissions'[j]
    <3>1. CASE j = m + 1
        BY <1>5, <2>2, <3>1
    <3>2. CASE j # m + 1
      <4>1. i \in 1..m /\ j \in 1..m
          BY <1>4, <2>3, <3>2
      <4> QED
          BY <1>5, <2>3, <4>1 DEF LimiterInv, InOrder, m
    <3> QED
        BY <3>1, <3>2
  <2> QED
      BY <1>2, <1>5, <2>2, <2>3 DEF InOrder
<1>9. ASSUME NEW t \in 0..MaxClock PROVE Cardinality(WithinWindow(t)') <= Limit
  <2> DEFINE new == {i \in 1..(m + 1) : admissions'[i] <= t /\ t < admissions'[i] + Window}
  <2>1. WithinWindow(t)' = new
      BY <1>5 DEF WithinWindow
  <2>2. t \in Nat
      BY AdmissionsAreTimes
  <2>3. CASE t < clock
    <3>1. m + 1 \notin new
        BY <1>4, <1>5, <2>2, <2>3
    <3>2. new = {i \in 1..m : admissions'[i] <= t /\ t < admissions'[i] + Window}
      <4>1. \A i \in 1..(m + 1) : i \in 1..m \/ i = m + 1
          BY <1>4
      <4>2. 1..m \subseteq 1..(m + 1)
          BY <1>4
      <4> QED
          BY <3>1, <4>1, <4>2
    <3>3. new = WithinWindow(t)
      <4>1. DOMAIN admissions = 1..m
          BY DEF TypeOK, m
      <4> HIDE DEF new
      <4> QED
          BY <1>5, <3>2, <4>1 DEF WithinWindow
    <3> QED
        BY <2>1, <3>3 DEF LimiterInv, Bounded
  <2>4. CASE clock <= t
    <3>1. \A i \in 1..g : i \notin new
      <4>1. ASSUME NEW i \in 1..g PROVE admissions'[i] + Window <= t
        <5>1. i \in 1..m /\ admissions[i] + Window <= clock
            BY <1>1, <1>4 DEF Forgotten
        <5>2. admissions'[i] = admissions[i] /\ admissions[i] \in Nat
            BY <1>4, <1>5, <5>1
        <5> QED
            BY <1>4, <2>2, <2>4, <5>1, <5>2
      <4>2. \A i \in 1..g : admissions'[i] \in Nat
          BY <1>4, <1>5
      <4> QED
          BY <1>4, <2>2, <4>1, <4>2
    <3>2. new \in SUBSET ((g + 1)..(m + 1))
      <4>1. \A i \in 1..(m + 1) : i \in 1..g \/ i \in (g + 1)..(m + 1)
          BY <1>4
      <4> QED
          BY <3>1, <4>1
    <3> HIDE DEF new
    <3>3. IsFiniteSet((g + 1)..(m + 1)) /\ Cardinality((g + 1)..(m + 1)) = m + 1 - g
      <4> DEFINE a == g + 1
                 b == m + 1
      <4>1. a \in Int /\ b \in Int /\ ~(a > b) /\ b - a + 1 = m + 1 - g
          BY <1>4
      <4> HIDE DEF a, b
      <4>2. IsFiniteSet(a..b) /\ Cardinality(a..b) = IF a > b THEN 0 ELSE b - a + 1
          BY <4>1, FS_Interval
      <4>3. IsFiniteSet(a..b) /\ Cardinality(a..b) = m + 1 - g
          BY <4>1, <4>2
      <4> QED
          BY <4>3 DEF a, b
    <3>4. IsFiniteSet(new) /\ Cardinality(new) <= m + 1 - g
        BY <3>2, <3>3, FS_Subset
    <3>5. Cardinality(new) \in Nat /\ m + 1 - g <= Limit
        BY <1>1, <1>2, <1>4, <3>4, FS_CardinalityType
    <3>6. Cardinality(new) <= Limit
        BY <1>4, <3>4, <3>5
    <3> QED
        BY <2>1, <3>6
  <2> QED
      BY <1>4, <2>2, <2>3, <2>4
<1> QED
    BY <1>7, <1>8, <1>9 DEF LimiterInv, Bounded

LEMMA TickKeepsLimiter ==
    ASSUME TypeOK, LimiterInv, Tick
    PROVE  LimiterInv'
<1>1. clock' = clock + 1 /\ UNCHANGED <<window, admissions>>
    BY DEF Tick
<1>2. /\ Len(admissions) \in Nat /\ Len(window) \in Nat /\ clock \in Nat /\ Window \in Nat
      /\ \A i \in 1..Len(admissions) : admissions[i] \in Nat
    BY AdmissionsAreTimes
<1>3. Recalls'
  <2>1. Gone' = Gone /\ Gone \in Nat /\ \A i \in 1..Gone : i \in 1..Len(admissions)
      BY <1>1, <1>2 DEF Gone, LimiterInv, Recalls
  <2>2. \A i \in 1..Gone : Forgotten(admissions[i])'
    <3>1. ASSUME NEW i \in 1..Gone PROVE admissions[i] + Window <= clock + 1
      <4>1. admissions[i] \in Nat /\ admissions[i] + Window <= clock
          BY <1>2, <2>1 DEF LimiterInv, Recalls, Forgotten
      <4> QED
          BY <1>2, <4>1
    <3> QED
        BY <1>1, <3>1 DEF Forgotten
  <2> QED
      BY <1>1, <2>1, <2>2 DEF LimiterInv, Recalls
<1>4. InOrder'
  <2>1. \A i \in 1..Len(admissions) : admissions[i] <= clock + 1
      BY <1>2 DEF LimiterInv, InOrder
  <2> QED
      BY <1>1, <2>1 DEF LimiterInv, InOrder
<1>5. Bounded'
    BY <1>1 DEF LimiterInv, Bounded, WithinWindow
<1> QED
    BY <1>3, <1>4, <1>5 DEF LimiterInv

LEMMA RestKeepsLimiter ==
    ASSUME LimiterInv, UNCHANGED <<clock, window, admissions>>
    PROVE  LimiterInv'
BY DEF LimiterInv, Recalls, Gone, InOrder, Bounded, WithinWindow, Forgotten

LEMMA NextKeepsLimiter == TypeOK /\ LimiterInv /\ [Next]_vars => LimiterInv'
<1> SUFFICES ASSUME TypeOK, LimiterInv, [Next]_vars PROVE LimiterInv'
    OBVIOUS
<1>1. CASE Tick
    BY <1>1, TickKeepsLimiter
<1>2. ASSUME NEW r \in Requests, Admit(r) \/ Refuse(r) PROVE LimiterInv'
    BY <1>2, AdmitKeepsLimiter, RefuseKeepsLimiter
<1>3. ASSUME NEW r \in Requests, Proceed(r) \/ Abort(r) PROVE LimiterInv'
  <2>1. UNCHANGED <<clock, window, admissions>>
      BY <1>3
      DEF Proceed, ResolveNew, ResolveSeen, ResolveReused, Succeed, RaiseAttempt, Letter,
          Save, SaveConflicts, Commit, Abort
  <2> QED
      BY <2>1, RestKeepsLimiter
<1>4. CASE Quiet \/ UNCHANGED vars
  <2>1. UNCHANGED <<clock, window, admissions>>
      BY <1>4 DEF Quiet, vars
  <2> QED
      BY <2>1, RestKeepsLimiter
<1> QED
    BY <1>1, <1>2, <1>3, <1>4 DEF Next

LEMMA InitKeepsLimiter == Init => LimiterInv
<1> SUFFICES ASSUME Init PROVE LimiterInv
    OBVIOUS
<1>1. window = << >> /\ admissions = << >>
    BY DEF Init
<1>2. Recalls /\ InOrder
    BY <1>1 DEF Recalls, Gone, InOrder
<1>3. Bounded
  <2>1. \A t \in 0..MaxClock : WithinWindow(t) = {}
      BY <1>1 DEF WithinWindow
  <2> QED
      BY <2>1, FS_EmptySet, LimitsAssumption DEF Bounded
<1> QED
    BY <1>2, <1>3 DEF LimiterInv

-----------------------------------------------------------------------------
(* Whoever is refused was refused by allow.                                *)
LEMMA OnlyRefuseRefuses ==
    ASSUME IInv, [Next]_vars, NEW r \in Requests,
           session[r].pc = "idle", session'[r].pc = "limited"
    PROVE  Refuse(r)
<1>1. session \in [Requests -> Session]
    BY DEF IInv, SessionsAreTyped
<1>2. PICK q \in Requests : Admit(q) \/ Refuse(q) \/ Proceed(q) \/ Abort(q)
  <2>1. session' # session
      OBVIOUS
  <2> QED
      BY <2>1 DEF Next, Tick, Quiet, vars
<1>3. q = r
  <2>1. CASE Admit(q) \/ Refuse(q)
      BY <1>1, <2>1 DEF Admit, Refuse, Goes
  <2>2. CASE Proceed(q)
      BY <1>1, <2>2
      DEF Proceed, ResolveNew, ResolveSeen, ResolveReused, Succeed, RaiseAttempt, Letter,
          Save, SaveConflicts, Commit, Goes
  <2>3. CASE Abort(q)
      BY <1>1, <2>3 DEF Abort, Goes
  <2> QED
      BY <1>2, <2>1, <2>2, <2>3
<1>4. ~Proceed(r) /\ ~Abort(r)
    BY DEF Proceed, ResolveNew, ResolveSeen, ResolveReused, Succeed, RaiseAttempt, Letter,
           Save, SaveConflicts, Commit, Abort, Live
<1>5. ~Admit(r)
    BY <1>1 DEF Admit, Goes, Session
<1> QED
    BY <1>2, <1>3, <1>4, <1>5

(* LimitIsKept: for any limit and window, no window holds more admissions  *)
(* than the limit, and a request is refused only when its own holds as     *)
(* many.                                                                   *)
THEOREM LimitIsKeptForAll == Spec => LimitIsKept
<1> DEFINE Refused == \A r \in Requests : session[r].pc = "idle" /\ session'[r].pc = "limited" =>
                          Cardinality(WithinWindow(clock)) >= Limit
           InLimit == \A t \in 0..MaxClock : Cardinality(WithinWindow(t)) <= Limit
<1>1. TypeOK /\ LimiterInv /\ IInv /\ [Next]_vars => Refused
    BY OnlyRefuseRefuses, RefuseKeepsLimiter
<1>2. LimiterInv => InLimit
    BY DEF LimiterInv, Bounded
<1>3. Spec => [][Refused]_vars
  <2>1. TypeOK /\ LimiterInv /\ IInv /\ [Next]_vars => [Refused]_vars
      BY <1>1
  <2> HIDE DEF Refused
  <2> QED
      BY <2>1, TypesAreKept, Inductive, InitKeepsLimiter, NextKeepsLimiter, PTL DEF Spec
<1>4. Spec => []InLimit
  <2> HIDE DEF InLimit
  <2> QED
      BY <1>2, TypesAreKept, InitKeepsLimiter, NextKeepsLimiter, PTL DEF Spec
<1> QED
    BY <1>3, <1>4 DEF LimitIsKept
=============================================================================
