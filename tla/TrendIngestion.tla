--------------------------- MODULE TrendIngestion ---------------------------
(***************************************************************************)
(* TrendIngestionService.ingest: the items of the trend sources become     *)
(* observations, each linked to a product candidate.  An ingestion loads   *)
(* the tenant's candidates once, links its items one after the other to    *)
(* the candidate with the item's dedupe key, or to the first one in the    *)
(* loaded list whose name is nearly the item's, or to a new one, and then  *)
(* recounts the observations of every candidate it knows.                  *)
(*                                                                         *)
(* It is one READ COMMITTED transaction (of a discovery run or of the      *)
(* mock-ingest endpoint) and several may be live: what it loaded may be    *)
(* out of date, a row it writes is locked until it ends, and rows are      *)
(* written column by column, as the session finds them changed.            *)
(***************************************************************************)
EXTENDS Naturals, Sequences, FiniteSets, SequencesExt, Functions

CONSTANTS
    Keys,        \* dedupe keys; a candidate is known by its key
    Near,        \* pairs of keys whose candidates are near duplicates
    Items,       \* (source, source_id) pairs
    Times,       \* observed_at
    Feeds,       \* what the sources may answer: sequences of observed items
    Ingests,     \* the ingestions that may come
    NoRow

(* The keys and ids are texts in columns of a bounded width.               *)
ASSUME FiniteAssumption == IsFiniteSet(Keys) /\ IsFiniteSet(Items)
ASSUME NearAssumption == Near \subseteq Keys \X Keys
ASSUME TimesAssumption == Times \subseteq Nat
ASSUME FeedsAssumption == Feeds \subseteq Seq([id : Items, key : Keys, at : Times])

Cand == [first : Times, last : Times, count : Nat, by : Ingests]
Obs == [cand : Keys, at : Times]
Change == [id : Items, old : Obs \cup {NoRow}, new : Obs]
ASSUME NoRowAssumption == NoRow \notin Cand /\ NoRow \notin Obs /\ NoRow \notin Change

VARIABLES
    cands,       \* the committed product_candidates, by dedupe key
    obs,         \* the committed raw_trend_observations, by item
    session,     \* each ingestion's session and transaction
    met          \* history: the sets of two ingestions that were live together

vars == <<cands, obs, session, met>>

Nothing == [k \in Keys |-> NoRow]

(* pos is the item being linked, known the list `candidates`, attr the     *)
(* attributes of the loaded objects, written and noted the rows written in *)
(* the transaction (and locked), draft the observation added or changed    *)
(* but not flushed, dirty the candidate whose count is not flushed.        *)
Session == [pc : {"idle", "linking", "counting", "committed", "rolledback"},
            feed : Feeds \cup {<< >>}, pos : Nat, known : Seq(Keys),
            attr : [Keys -> Cand \cup {NoRow}],
            written : [Keys -> Cand \cup {NoRow}], noted : [Items -> Obs \cup {NoRow}],
            draft : Change \cup {NoRow},
            dirty : SUBSET Keys]

Idle == [pc |-> "idle", feed |-> << >>, pos |-> 1, known |-> << >>, attr |-> Nothing,
         written |-> Nothing, noted |-> [i \in Items |-> NoRow], draft |-> NoRow, dirty |-> {}]

TypeOK ==
    /\ cands \in [Keys -> Cand \cup {NoRow}]
    /\ obs \in [Items -> Obs \cup {NoRow}]
    /\ session \in [Ingests -> Session]
    /\ met \in SUBSET SUBSET Ingests

Init ==
    /\ cands = Nothing
    /\ obs = [i \in Items |-> NoRow]
    /\ session = [q \in Ingests |-> Idle]
    /\ met = {}

Live(q) == session[q].pc \in {"linking", "counting"}

-----------------------------------------------------------------------------
(* Rows as a transaction sees them, and the locks on them.                 *)
Row(q, k) == IF session[q].written[k] # NoRow THEN session[q].written[k] ELSE cands[k]
ObsRow(q, i) == IF session[q].noted[i] # NoRow THEN session[q].noted[i] ELSE obs[i]
Writers(q, K) == {p \in Ingests \ {q} : \E k \in K : session[p].written[k] # NoRow}
Noters(q, I) == {p \in Ingests \ {q} : \E i \in I : session[p].noted[i] # NoRow}

Column(old, new, current) == IF new = old THEN current ELSE new

(* The flush of the observation of the item before.                        *)
Draft(q) == IF session[q].draft = NoRow THEN {} ELSE {session[q].draft}
DraftFree(q) == Noters(q, {d.id : d \in Draft(q)}) = {}
DraftClashes(q) == \E d \in Draft(q) : d.old = NoRow /\ obs[d.id] # NoRow
Noted(q) ==
    [i \in Items |->
        IF \A d \in Draft(q) : d.id # i THEN session[q].noted[i]
        ELSE LET d == session[q].draft IN
             IF d.old = NoRow THEN d.new
             ELSE [cand |-> Column(d.old.cand, d.new.cand, ObsRow(q, i).cand),
                   at |-> Column(d.old.at, d.new.at, ObsRow(q, i).at)]]

-----------------------------------------------------------------------------
(* Which candidate an item belongs to.                                     *)
Item(q) == session[q].feed[session[q].pos]
HasItem(q) == session[q].pc = "linking" /\ session[q].pos <= Len(session[q].feed)

(* Mutants: any candidate will do; only the same key will.                 *)
MatchesAny(q) ==
    LET known == session[q].known IN
    IF Contains(known, Item(q).key) THEN {Item(q).key} ELSE {known[i] : i \in {1} \cap DOMAIN known}
MatchesExactly(q) == {Item(q).key} \cap ToSet(session[q].known)

Matches(q) ==
    LET known == session[q].known
        key == Item(q).key
        Nears == {i \in DOMAIN known : <<known[i], key>> \in Near} IN
    IF Contains(known, key) THEN {key}
    ELSE {known[i] : i \in {j \in Nears : \A n \in Nears : j <= n}}

(* The row an item is about to write: its candidate's, old or new.         *)
Target(q) == IF Matches(q) = {} THEN {Item(q).key} ELSE Matches(q)

-----------------------------------------------------------------------------
(* SELECT the candidates: no ORDER BY, any order.  The sources' answers    *)
(* are read before or between the statements and depend on none of them.   *)
Load(q, feed, order) ==
    /\ session[q].pc = "idle"
    /\ session' = [session EXCEPT ![q].pc = "linking", ![q].feed = feed,
                                  ![q].known = order, ![q].attr = cands]
    /\ met' = met \cup {{p, q} : p \in {p \in Ingests : Live(p)}}
    /\ UNCHANGED <<cands, obs>>

(* The row of the candidate and the observation of the item before are     *)
(* flushed by the SELECT of this item's observation, which may be the same *)
(* one: then it is found.                                                  *)
Found(q, i) == IF Noted(q)[i] # NoRow THEN Noted(q)[i] ELSE obs[i]

Link(q, k, attributes, row) ==
    /\ session' = [session EXCEPT
           ![q].attr[k] = attributes, ![q].written[k] = row, ![q].noted = Noted(q),
           ![q].draft = [id |-> Item(q).id, old |-> Found(q, Item(q).id),
                         new |-> [cand |-> k, at |-> Item(q).at]],
           ![q].pos = @ + 1,
           ![q].known = IF Contains(@, k) THEN @ ELSE Append(@, k)]
    /\ UNCHANGED <<cands, obs, met>>

LinkKnown(q) ==
    /\ HasItem(q) /\ DraftFree(q) /\ ~DraftClashes(q)
    /\ \E k \in Matches(q) :
         LET old == session[q].attr[k]
             at == Item(q).at
             new == [old EXCEPT !.first = IF at < @ THEN at ELSE @,
                                !.last = IF at > @ THEN at ELSE @] IN
         /\ Writers(q, {k}) = {}
         /\ Link(q, k, new,
                 [Row(q, k) EXCEPT !.first = Column(old.first, new.first, @),
                                   !.last = Column(old.last, new.last, @)])

(* Mutant: the new candidate has not been seen last.                       *)
LinkNewUnseen(q) ==
    /\ HasItem(q) /\ DraftFree(q) /\ ~DraftClashes(q) /\ Matches(q) = {}
    /\ LET k == Item(q).key
           new == [first |-> Item(q).at, last |-> 0, count |-> 0, by |-> q] IN
       /\ Writers(q, {k}) = {} /\ cands[k] = NoRow
       /\ Link(q, k, new, new)

LinkNew(q) ==
    /\ HasItem(q) /\ DraftFree(q) /\ ~DraftClashes(q) /\ Matches(q) = {}
    /\ LET k == Item(q).key
           new == [first |-> Item(q).at, last |-> Item(q).at, count |-> 0, by |-> q] IN
       /\ Writers(q, {k}) = {} /\ cands[k] = NoRow
       /\ Link(q, k, new, new)

End(q, label) == session' = [session EXCEPT ![q] = [Idle EXCEPT !.pc = label, !.feed = session[q].feed]]

(* uq_candidate_tenant_dedupe: the key came after the candidates were read. *)
KeyConflict(q) ==
    /\ HasItem(q) /\ Matches(q) = {} /\ Writers(q, {Item(q).key}) = {}
    /\ cands[Item(q).key] # NoRow
    /\ End(q, "rolledback")
    /\ UNCHANGED <<cands, obs, met>>

(* Mutant: the insert is tried again and again.                            *)
ObservationRetry(q) ==
    /\ session[q].pc = "linking" /\ DraftFree(q) /\ DraftClashes(q)
    /\ UNCHANGED vars

(* uq_raw_trend_source_item: so did the observation.                       *)
ObservationConflict(q) ==
    /\ session[q].pc = "linking" /\ DraftFree(q) /\ DraftClashes(q)
    /\ End(q, "rolledback")
    /\ UNCHANGED <<cands, obs, met>>

FlushLast(q) ==
    /\ session[q].pc = "linking" /\ ~HasItem(q) /\ DraftFree(q) /\ ~DraftClashes(q)
    /\ session' = [session EXCEPT ![q].pc = "counting", ![q].pos = 1,
                                  ![q].noted = Noted(q), ![q].draft = NoRow]
    /\ UNCHANGED <<cands, obs, met>>

(* Every known candidate is recounted, the ones this ingestion has nothing *)
(* to do with as well; its row is written by the statement that follows.   *)
(* Mutant: the count does not see the transaction's own rows.              *)
CountedBefore(q, k) == Cardinality({i \in Items : obs[i] # NoRow /\ obs[i].cand = k})

CountedObs(q, k) == Cardinality({i \in Items : ObsRow(q, i) # NoRow /\ ObsRow(q, i).cand = k})

Count(q) ==
    /\ session[q].pc = "counting" /\ session[q].dirty = {}
    /\ session[q].pos <= Len(session[q].known)
    /\ LET k == session[q].known[session[q].pos]
           n == CountedObs(q, k) IN
       session' = [session EXCEPT ![q].pos = @ + 1, ![q].attr[k].count = n,
                                  ![q].dirty = IF session[q].attr[k].count = n THEN {} ELSE {k}]
    /\ UNCHANGED <<cands, obs, met>>

WriteCount(q) ==
    /\ \E k \in session[q].dirty :
         /\ Writers(q, {k}) = {}
         /\ session' = [session EXCEPT ![q].dirty = {},
                            ![q].written[k] = [Row(q, k) EXCEPT !.count = session[q].attr[k].count]]
    /\ UNCHANGED <<cands, obs, met>>

Commit(q) ==
    /\ session[q].pc = "counting" /\ session[q].dirty = {}
    /\ session[q].pos > Len(session[q].known)
    /\ cands' = [k \in Keys |-> Row(q, k)]
    /\ obs' = [i \in Items |-> ObsRow(q, i)]
    /\ End(q, "committed")
    /\ UNCHANGED met

(* A later step of the run fails, the client goes away, a crash.           *)
Rollback(q) ==
    /\ Live(q)
    /\ End(q, "rolledback")
    /\ UNCHANGED <<cands, obs, met>>

-----------------------------------------------------------------------------
(* The database's deadlock detector aborts a transaction that waits for    *)
(* one that waits, in turn, for it.                                        *)
WaitsFor(q) ==
    Writers(q, IF HasItem(q) THEN Target(q) ELSE session[q].dirty)
        \cup Noters(q, {d.id : d \in Draft(q)})

DeadlockVictim(q) ==
    /\ \E S \in SUBSET Ingests : q \in S /\ \A p \in S : WaitsFor(p) \cap S # {}
    /\ End(q, "rolledback")
    /\ UNCHANGED <<cands, obs, met>>

Proceed(q) ==
    \/ LinkKnown(q) \/ LinkNew(q) \/ KeyConflict(q) \/ ObservationConflict(q)
    \/ FlushLast(q) \/ Count(q) \/ WriteCount(q) \/ Commit(q) \/ DeadlockVictim(q)

Arrive(q) ==
    \E feed \in Feeds, order \in SetToSeqs({k \in Keys : cands[k] # NoRow}) : Load(q, feed, order)

Quiet ==
    /\ \A q \in Ingests : session[q].pc \in {"committed", "rolledback"}
    /\ UNCHANGED vars

Next == (\E q \in Ingests : Arrive(q) \/ Proceed(q) \/ Rollback(q)) \/ Quiet

Spec == Init /\ [][Next]_vars

(* The event loop resumes an ingestion whose statement returned, and the   *)
(* database grants free locks and breaks deadlocks.                        *)
FairSpec == Spec /\ \A q \in Ingests : WF_vars(Proceed(q))

-----------------------------------------------------------------------------
Alone(q) == \A p \in Ingests \ {q} : {p, q} \notin met

(* Every item of a committed ingestion has a candidate with its key or a   *)
(* near duplicate of it: repeating the ingestion adds no candidate.        *)
EveryFeedIsCovered ==
    \A q \in Ingests : session[q].pc = "committed" =>
        \A n \in DOMAIN session[q].feed :
            \E k \in Keys : /\ cands[k] # NoRow
                            /\ LET key == session[q].feed[n].key IN k = key \/ <<k, key>> \in Near

(* Two candidates of which each is a near duplicate of the other exist     *)
(* only if the ingestions that made them overlapped.                       *)
TwinsComeFromOverlap ==
    \A j, k \in Keys :
        j # k /\ cands[j] # NoRow /\ cands[k] # NoRow /\ <<j, k>> \in Near /\ <<k, j>> \in Near
            => {cands[j].by, cands[k].by} \in met

(* An ingestion that overlapped no other leaves every count exact, and its *)
(* items inside the time their candidate was seen, whatever state earlier  *)
(* overlaps left behind.  An item answered twice is the last one.          *)
IsLast(feed, n) == \A m \in DOMAIN feed : m > n => feed[m].id # feed[n].id

LoneIngestIsExact ==
    [][\A q \in Ingests : Live(q) /\ session'[q].pc = "committed" /\ Alone(q) =>
        /\ \A k \in Keys : cands'[k] # NoRow =>
              cands'[k].count = Cardinality({i \in Items : obs'[i] # NoRow /\ obs'[i].cand = k})
        /\ \A n \in DOMAIN session[q].feed : IsLast(session[q].feed, n) =>
              LET item == session[q].feed[n]
                  cand == cands'[obs'[item.id].cand] IN
              cand.first <= item.at /\ item.at <= cand.last]_vars

(* Every ingestion ends: two that link the same candidates in opposite     *)
(* orders do not wait for each other for ever.                             *)
EveryIngestEnds == \A q \in Ingests : Live(q) ~> ~Live(q)
=============================================================================
