-------------------------- MODULE GuardedRequests --------------------------
(***************************************************************************)
(* The services of hardening.py around a route that changes something      *)
(* outside: the tenant's rate limiter, the idempotency record that answers *)
(* a request seen before, the bounded retries with a dead letter when all  *)
(* of them failed, and the outbox event.                                   *)
(*                                                                         *)
(* No route uses the services yet, and the tests call each by itself.  How *)
(* they are put together is this module's own: in the order of what the    *)
(* specification asks of a route that changes something outside (section   *)
(* 35), in one READ COMMITTED transaction.  What the operation did outside *)
(* is not undone by a rollback.                                            *)
(***************************************************************************)
EXTENDS Naturals, Sequences, FiniteSets, SequencesExt

CONSTANTS
    Requests,    \* the requests of one tenant to one route
    Keys,        \* idempotency keys
    Bodies,      \* request bodies, told apart by their hash
    Sent,        \* the keys and bodies the requests may come with
    Limit, Window,           \* TenantRateLimiter
    MaxAttempts,             \* retry_or_dead_letter
    MaxClock,                \* bound of the model
    NoRow

ASSUME LimitsAssumption ==
    /\ Limit \in Nat \ {0} /\ Window \in Nat \ {0}
    /\ MaxAttempts \in Nat \ {0} /\ MaxClock \in Nat

ASSUME SentAssumption == Sent \subseteq [Requests -> [key : Keys, body : Bodies]]

Record == [body : Bodies, response : Requests]
ASSUME NoRowAssumption == NoRow \notin Record

VARIABLES
    clock,
    window,      \* the limiter's deque of admission times, in the process
    admissions,  \* history: every admission time
    records,     \* the committed idempotency_records, by key
    outbox,      \* requests whose outbox event is committed
    letters,     \* requests whose dead letter is committed
    effects,     \* requests whose operation took effect outside, for good
    session

vars == <<clock, window, admissions, records, outbox, letters, effects, session>>
store == <<records, outbox, letters>>

Answered == {"limited", "conflict", "replayed", "done", "dead", "failed", "aborted"}
Session == [pc : {"idle", "resolving", "working", "saving", "saved", "lettered"} \cup Answered,
            key : Keys, body : Bodies, attempts : 0..MaxAttempts,
            response : Requests \cup {NoRow},
            repeat : BOOLEAN]   \* history: it came when the record of its key was there

TypeOK ==
    /\ clock \in 0..MaxClock
    /\ window \in Seq(0..MaxClock) /\ Len(window) <= Limit
    /\ admissions \in Seq(0..MaxClock)
    /\ records \in [Keys -> Record \cup {NoRow}]
    /\ outbox \subseteq Requests /\ letters \subseteq Requests
    /\ effects \subseteq Requests
    /\ session \in [Requests -> Session]

Init ==
    /\ clock = 0
    /\ window = << >> /\ admissions = << >>
    /\ records = [k \in Keys |-> NoRow]
    /\ outbox = {} /\ letters = {}
    /\ effects = {}
    /\ \E sent \in Sent :
         session = [r \in Requests |-> [pc |-> "idle", key |-> sent[r].key, body |-> sent[r].body,
                                        attempts |-> 0, response |-> NoRow,
                                        repeat |-> FALSE]]

Live(r) == session[r].pc \in {"resolving", "working", "saving", "saved", "lettered"}
Goes(r, pc) == session' = [session EXCEPT ![r].pc = pc]

Tick ==
    /\ clock < MaxClock
    /\ clock' = clock + 1
    /\ UNCHANGED <<window, admissions, store, effects, session>>

-----------------------------------------------------------------------------
(* TenantRateLimiter.allow.  Mutant: an admission is kept a tick too long.  *)
ForgottenLate(at) == at + Window < clock

Forgotten(at) == at + Window <= clock

Kept == SelectInSeq(window, LAMBDA at : ~Forgotten(at))
Remembered == IF Kept = 0 THEN << >> ELSE SubSeq(window, Kept, Len(window))

Admit(r) ==
    /\ session[r].pc = "idle" /\ Len(Remembered) < Limit
    /\ window' = Append(Remembered, clock)
    /\ admissions' = Append(admissions, clock)
    /\ session' = [session EXCEPT ![r].pc = "resolving",
                                  ![r].repeat = records[session[r].key] # NoRow]
    /\ UNCHANGED <<clock, store, effects>>

Refuse(r) ==
    /\ session[r].pc = "idle" /\ Len(Remembered) >= Limit
    /\ window' = Remembered
    /\ Goes(r, "limited")
    /\ UNCHANGED <<clock, admissions, store, effects>>

-----------------------------------------------------------------------------
(* IdempotencyService.resolve; mutant: the hash is not looked at.          *)
Resolved(r) == records[session[r].key]
SameKey(r) == TRUE

SameRequest(r) == Resolved(r).body = session[r].body

ResolveNew(r) ==
    /\ session[r].pc = "resolving" /\ Resolved(r) = NoRow
    /\ Goes(r, "working")
    /\ UNCHANGED <<clock, window, admissions, store, effects>>

ResolveSeen(r) ==
    /\ session[r].pc = "resolving" /\ Resolved(r) # NoRow /\ SameRequest(r)
    /\ session' = [session EXCEPT ![r].pc = "replayed", ![r].response = Resolved(r).response]
    /\ UNCHANGED <<clock, window, admissions, store, effects>>

ResolveReused(r) ==
    /\ session[r].pc = "resolving" /\ Resolved(r) # NoRow /\ ~SameRequest(r)
    /\ Goes(r, "conflict")
    /\ UNCHANGED <<clock, window, admissions, store, effects>>

-----------------------------------------------------------------------------
(* retry_or_dead_letter: an attempt that raises may have taken effect, and *)
(* whatever it raised is tried again, a permanent error too.               *)
(* Mutant: attempts are not limited.                                       *)
Succeed(r) ==
    /\ session[r].pc = "working" /\ session[r].attempts < MaxAttempts
    /\ effects' = effects \cup {r}
    /\ session' = [session EXCEPT ![r].pc = "saving", ![r].attempts = @ + 1, ![r].response = r]
    /\ UNCHANGED <<clock, window, admissions, store>>

RaiseUncounted(r) ==
    /\ session[r].pc = "working"
    /\ \E took \in {{}, {r}} : effects' = effects \cup took
    /\ session' = [session EXCEPT ![r].attempts = @ + 1]
    /\ UNCHANGED <<clock, window, admissions, store>>

RaiseAttempt(r) ==
    /\ session[r].pc = "working" /\ session[r].attempts < MaxAttempts
    /\ \E took \in {{}, {r}} : effects' = effects \cup took
    /\ session' = [session EXCEPT ![r].attempts = @ + 1]
    /\ UNCHANGED <<clock, window, admissions, store>>

Letter(r) ==
    /\ session[r].pc = "working" /\ session[r].attempts = MaxAttempts
    /\ Goes(r, "lettered")
    /\ UNCHANGED <<clock, window, admissions, store, effects>>

-----------------------------------------------------------------------------
(* OutboxService.append and IdempotencyService.save: the insert waits for  *)
(* another of the same key that is not committed.                          *)
(* Mutant: an insert also waits for one that has committed.                *)
KeyNeverFree(r) ==
    \A q \in Requests \ {r} : session[q].pc \in {"saved", "done"} => session[q].key # session[r].key

KeyFree(r) == \A q \in Requests \ {r} : session[q].pc = "saved" => session[q].key # session[r].key

(* Mutant: no unique constraint.                                           *)
NotUnique(r) == TRUE

Unique(r) == records[session[r].key] = NoRow

Save(r) ==
    /\ session[r].pc = "saving" /\ KeyFree(r) /\ Unique(r)
    /\ Goes(r, "saved")
    /\ UNCHANGED <<clock, window, admissions, store, effects>>

SaveConflicts(r) ==
    /\ session[r].pc = "saving" /\ KeyFree(r) /\ ~Unique(r)
    /\ Goes(r, "failed")
    /\ UNCHANGED <<clock, window, admissions, store, effects>>

Commit(r) ==
    /\ session[r].pc \in {"saved", "lettered"}
    /\ IF session[r].pc = "saved"
       THEN /\ records' = [records EXCEPT ![session[r].key] =
                              [body |-> session[r].body, response |-> r]]
            /\ outbox' = outbox \cup {r}
            /\ UNCHANGED letters
            /\ Goes(r, "done")
       ELSE /\ letters' = letters \cup {r}
            /\ UNCHANGED <<records, outbox>>
            /\ Goes(r, "dead")
    /\ UNCHANGED <<clock, window, admissions, effects>>

(* The client goes away, the connection breaks, a crash.                   *)
Abort(r) ==
    /\ Live(r)
    /\ Goes(r, "aborted")
    /\ UNCHANGED <<clock, window, admissions, store, effects>>

-----------------------------------------------------------------------------
Proceed(r) ==
    \/ ResolveNew(r) \/ ResolveSeen(r) \/ ResolveReused(r)
    \/ Succeed(r) \/ RaiseAttempt(r) \/ Letter(r)
    \/ Save(r) \/ SaveConflicts(r) \/ Commit(r)

Quiet ==
    /\ clock = MaxClock /\ \A r \in Requests : session[r].pc \in Answered
    /\ UNCHANGED vars

Next == Tick \/ Quiet \/ \E r \in Requests : Admit(r) \/ Refuse(r) \/ Proceed(r) \/ Abort(r)

Spec == Init /\ [][Next]_vars

(* The operation returns or raises, the event loop resumes the request,    *)
(* and the database grants the unique key when its holder has ended.       *)
FairSpec == Spec /\ \A r \in Requests : WF_vars(Proceed(r))

-----------------------------------------------------------------------------
(* Of the requests with one key one at most is carried out for good: its   *)
(* event and the record of its key are kept together, and only when its    *)
(* operation took effect.  The others keep no event and no record.         *)
(* Whoever is replayed gets the response to the body it sent, whoever is   *)
(* told of a conflict sent another body than the record's, and a request   *)
(* that comes after the record was kept has no effect, whatever becomes of *)
(* it.                                                                     *)
OneIsCarriedOut ==
    /\ \A r \in outbox :
          /\ r \in effects
          /\ Resolved(r) = [body |-> session[r].body, response |-> r]
    /\ \A k \in Keys : records[k] # NoRow =>
          records[k].response \in outbox /\ session[records[k].response].key = k
    /\ \A r \in Requests :
          /\ session[r].pc = "replayed" =>
                Resolved(r) = [body |-> session[r].body, response |-> session[r].response]
          /\ session[r].pc = "conflict" => Resolved(r) # NoRow /\ Resolved(r).body # session[r].body
          /\ session[r].repeat =>
                /\ r \notin effects \cup letters
                /\ session[r].pc \in {"resolving", "replayed", "conflict", "aborted"}

(* No request waits for ever, neither for the key nor for its attempts.    *)
EveryRequestIsAnswered ==
    \A r \in Requests : session[r].pc = "resolving" ~> session[r].pc \in Answered

(* A duplicate gets the stored response: no request fails although the     *)
(* response to the very same request is stored.  (What the project's       *)
(* status report says of IdempotencyService; a duplicate that overlaps its *)
(* original finds no record, acts, and fails on the unique key.)           *)
DuplicateGetsTheResponse ==
    \A r \in Requests : session[r].pc = "failed" => ~(Resolved(r) # NoRow /\ SameRequest(r))

(* In no window are more requests admitted than the limit, and a request   *)
(* is refused only when as many were: the deque forgets neither too early  *)
(* nor too late.                                                           *)
WithinWindow(t) == {i \in DOMAIN admissions : admissions[i] <= t /\ t < admissions[i] + Window}

LimitIsKept ==
    /\ [](\A t \in 0..MaxClock : Cardinality(WithinWindow(t)) <= Limit)
    /\ [][\A r \in Requests : session[r].pc = "idle" /\ session'[r].pc = "limited" =>
              Cardinality(WithinWindow(clock)) >= Limit]_vars
=============================================================================
