------------------------ MODULE TrendIngestion_proofs ------------------------
(***************************************************************************)
(* Proofs about TrendIngestion for any keys, near duplicates, items, feeds *)
(* and ingestions: no item of a committed feed is left without a candidate *)
(* and two candidates for one product come from overlapping ingestions.    *)
(***************************************************************************)
EXTENDS TrendIngestion, FiniteSetTheorems, SequenceTheorems, WellFoundedInduction, TLAPS

-----------------------------------------------------------------------------
(* The candidates an ingestion has loaded or made: it has their objects,   *)
(* their rows are there, and it writes no others.                          *)
Knows(q, k) == \E i \in DOMAIN session[q].known : session[q].known[i] = k

Sound(q) ==
    /\ session[q].pos > 0
    /\ ~ Live(q) => session[q].known = << >>
    /\ session[q].pc = "idle" => session[q] = Idle
    /\ \A k \in Keys : Knows(q, k) => session[q].attr[k] # NoRow /\ Row(q, k) # NoRow
    /\ \A k \in Keys : session[q].written[k] # NoRow => Live(q) /\ Knows(q, k)
    /\ \A k \in session[q].dirty :
           Knows(q, k) /\ session[q].pc = "counting" /\ session[q].dirty = {k}
    /\ session[q].draft # NoRow =>
          /\ session[q].pc = "linking"
          /\ session[q].draft.old # NoRow => ObsRow(q, session[q].draft.id) # NoRow

Typed == TypeOK /\ \A q \in Ingests : Sound(q)

-----------------------------------------------------------------------------
(* What the parts of a session are.                                        *)
LEMMA Fields ==
    ASSUME TypeOK, NEW q \in Ingests
    PROVE  /\ session[q] \in Session
           /\ session[q].pc \in {"idle", "linking", "counting", "committed", "rolledback"}
           /\ session[q].feed \in Feeds \cup {<< >>} /\ session[q].pos \in Nat
           /\ session[q].known \in Seq(Keys) /\ session[q].attr \in [Keys -> Cand \cup {NoRow}]
           /\ session[q].written \in [Keys -> Cand \cup {NoRow}]
           /\ session[q].noted \in [Items -> Obs \cup {NoRow}]
           /\ session[q].draft \in Change \cup {NoRow} /\ session[q].dirty \in SUBSET Keys
<1>1. session[q] \in Session
    BY DEF TypeOK
<1> QED
    BY <1>1 DEF Session

LEMMA Rows ==
    ASSUME TypeOK, NEW q \in Ingests
    PROVE  /\ \A k \in Keys : Row(q, k) \in Cand \cup {NoRow}
           /\ \A i \in Items : ObsRow(q, i) \in Obs \cup {NoRow}
BY Fields DEF Row, ObsRow, TypeOK

Seen == [id : Items, key : Keys, at : Times]

LEMMA FeedIsASeq ==
    ASSUME TypeOK, NEW q \in Ingests
    PROVE  session[q].feed \in Seq(Seen) /\ DOMAIN session[q].feed = 1..Len(session[q].feed)
<1>1. << >> \in Seq(Seen)
    OBVIOUS
<1>2. Feeds \subseteq Seq(Seen)
    BY FeedsAssumption DEF Seen
<1>3. session[q].feed \in Seq(Seen)
    BY <1>1, <1>2, Fields
<1> QED
    BY <1>3, LenProperties

LEMMA FeedItems ==
    ASSUME TypeOK, NEW q \in Ingests, NEW n \in DOMAIN session[q].feed
    PROVE  /\ session[q].feed[n].id \in Items /\ session[q].feed[n].key \in Keys
           /\ session[q].feed[n].at \in Times
<1>1. session[q].feed[n] \in Seen
    BY FeedIsASeq, ElementOfSeq
<1> QED
    BY <1>1 DEF Seen

LEMMA CurrentItem ==
    ASSUME TypeOK, NEW q \in Ingests, session[q].pos > 0, HasItem(q)
    PROVE  /\ Item(q).id \in Items /\ Item(q).key \in Keys /\ Item(q).at \in Times
           /\ session[q].pos \in DOMAIN session[q].feed
<1>1. session[q].pos \in DOMAIN session[q].feed
    BY Fields, FeedIsASeq, LenProperties DEF HasItem
<1> QED
    BY <1>1, FeedItems DEF Item

LEMMA KnownKeys ==
    ASSUME TypeOK, NEW q \in Ingests, NEW i \in DOMAIN session[q].known
    PROVE  session[q].known[i] \in Keys /\ Knows(q, session[q].known[i])
BY Fields, ElementOfSeq, LenProperties DEF Knows

(* What an item matches is known; what matches nothing has no near one.    *)
LEMMA LeastNat ==
    ASSUME NEW T, T \subseteq Nat, T # {}
    PROVE  \E m \in T : \A n \in T : m <= n
<1> DEFINE R == {z \in Nat \X Nat : z[1] < z[2]}
<1>1. IsWellFoundedOn(R, Nat)
  <2>1. R = OpToRel(<, Nat)
      BY DEF OpToRel
  <2> QED
      BY <2>1, NatLessThanWellFounded
<1> HIDE DEF R
<1>2. PICK m \in T : \A n \in T : <<n, m>> \notin R
    BY <1>1, WFMin
<1>3. \A n \in T : ~ (n < m)
    BY <1>2 DEF R
<1> QED
    BY <1>2, <1>3

LEMMA WhatMatches ==
    ASSUME TypeOK, NEW q \in Ingests, session[q].pos > 0, HasItem(q)
    PROVE  /\ \A k \in Matches(q) : k \in Keys /\ Knows(q, k)
                                    /\ (k = Item(q).key \/ <<k, Item(q).key>> \in Near)
           /\ Matches(q) = {} => /\ ~ Knows(q, Item(q).key)
                                 /\ \A k \in Keys : Knows(q, k) => <<k, Item(q).key>> \notin Near
<1> DEFINE known == session[q].known
           key == Item(q).key
           Nears == {i \in DOMAIN known : <<known[i], key>> \in Near}
<1>1. known \in Seq(Keys) /\ DOMAIN known = 1..Len(known) /\ key \in Keys
    BY Fields, CurrentItem, LenProperties
<1>2. Matches(q) = IF Contains(known, key) THEN {key}
                   ELSE {known[i] : i \in {j \in Nears : \A n \in Nears : j <= n}}
    BY DEF Matches
<1>3. Contains(known, key) <=> Knows(q, key)
    BY <1>1 DEF Contains, Knows
<1>4. Nears # {} => \E j \in Nears : \A n \in Nears : j <= n
  <2>1. Nears \subseteq Nat
      BY <1>1
  <2> HIDE DEF Nears
  <2> QED
      BY <2>1, LeastNat
<1>5. CASE Knows(q, key)
    BY <1>1, <1>2, <1>3, <1>5
<1>6. CASE ~ Knows(q, key)
  <2>1. \A k \in Matches(q) : \E i \in Nears : k = known[i]
      BY <1>2, <1>3, <1>6
  <2>2. \A i \in Nears : known[i] \in Keys /\ Knows(q, known[i]) /\ <<known[i], key>> \in Near
      BY KnownKeys
  <2>3. Matches(q) = {} => Nears = {}
      BY <1>2, <1>3, <1>4, <1>6
  <2>4. Nears = {} => \A k \in Keys : Knows(q, k) => <<k, key>> \notin Near
      BY DEF Knows
  <2> QED
      BY <1>6, <2>1, <2>2, <2>3, <2>4
<1> QED
    BY <1>5, <1>6

-----------------------------------------------------------------------------
(* Rows are only added: a change to one leaves a row of the same maker.    *)
Widened(c, at) ==
    [c EXCEPT !.first = IF at < @ THEN at ELSE @, !.last = IF at > @ THEN at ELSE @]
Merged(row, old, new) ==
    [row EXCEPT !.first = Column(old.first, new.first, @), !.last = Column(old.last, new.last, @)]

LEMMA CandFields ==
    ASSUME NEW c \in Cand
    PROVE  c.first \in Times /\ c.last \in Times /\ c.count \in Nat /\ c.by \in Ingests /\ c # NoRow
BY NoRowAssumption DEF Cand

LEMMA WidenedIsACand ==
    ASSUME NEW c \in Cand, NEW at \in Times
    PROVE  Widened(c, at) \in Cand
BY DEF Widened, Cand

LEMMA MergedIsACand ==
    ASSUME NEW row \in Cand, NEW old \in Cand, NEW new \in Cand
    PROVE  Merged(row, old, new) \in Cand /\ Merged(row, old, new).by = row.by
<1>1. Column(old.first, new.first, row.first) \in Times /\ Column(old.last, new.last, row.last) \in Times
    BY CandFields DEF Column
<1> QED
    BY <1>1 DEF Merged, Cand

LEMMA CountedIsACand ==
    ASSUME NEW row \in Cand, NEW n \in Nat
    PROVE  [row EXCEPT !.count = n] \in Cand /\ [row EXCEPT !.count = n].by = row.by
BY DEF Cand

LEMMA NotedRows ==
    ASSUME TypeOK, NEW q \in Ingests, Sound(q)
    PROVE  /\ Noted(q) \in [Items -> Obs \cup {NoRow}]
           /\ \A i \in Items : session[q].noted[i] # NoRow => Noted(q)[i] # NoRow
           /\ \A i \in Items : Found(q, i) \in Obs \cup {NoRow}
           /\ \A i \in Items : ObsRow(q, i) # NoRow => Found(q, i) # NoRow
<1> DEFINE d == session[q].draft
<1>1. session[q].noted \in [Items -> Obs \cup {NoRow}]
    BY Fields
<1>2. ASSUME NEW i \in Items
      PROVE  /\ Noted(q)[i] \in Obs \cup {NoRow}
             /\ session[q].noted[i] # NoRow => Noted(q)[i] # NoRow
  <2>1. CASE d = NoRow
      BY <1>1, <2>1 DEF Noted, Draft
  <2>2. CASE d # NoRow
    <3>1. d \in Change /\ Draft(q) = {d}
        BY <2>2, Fields DEF Draft
    <3>2. d.old \in Obs \cup {NoRow} /\ d.new \in Obs /\ d.id \in Items
        BY <3>1 DEF Change
    <3>3. CASE d.id # i
        BY <1>1, <3>1, <3>3 DEF Noted
    <3>4. CASE d.id = i /\ d.old = NoRow
        BY <3>1, <3>2, <3>4, NoRowAssumption DEF Noted
    <3>5. CASE d.id = i /\ d.old # NoRow
      <4>1. ObsRow(q, i) \in Obs
          BY <2>2, <3>5, Rows DEF Sound
      <4>2. d.old \in Obs
          BY <3>2, <3>5
      <4>3. Noted(q)[i] = [cand |-> Column(d.old.cand, d.new.cand, ObsRow(q, i).cand),
                           at |-> Column(d.old.at, d.new.at, ObsRow(q, i).at)]
          BY <3>1, <3>5 DEF Noted
      <4> HIDE DEF d
      <4>4. Noted(q)[i] \in Obs
          BY <3>2, <4>1, <4>2, <4>3 DEF Column, Obs
      <4> QED
          BY <4>4, NoRowAssumption
    <3> QED
        BY <3>3, <3>4, <3>5
  <2> QED
      BY <2>1, <2>2
<1>3. DOMAIN Noted(q) = Items /\ Noted(q) = [i \in Items |-> Noted(q)[i]]
    BY DEF Noted
<1>4. Noted(q) \in [Items -> Obs \cup {NoRow}]
    BY <1>2, <1>3
<1>5. \A i \in Items : /\ Found(q, i) \in Obs \cup {NoRow}
                       /\ ObsRow(q, i) # NoRow => Found(q, i) # NoRow
    BY <1>2 DEF Found, ObsRow, TypeOK
<1> QED
    BY <1>2, <1>4, <1>5

(* A count of items is a number.                                           *)
LEMMA ItemCounts ==
    ASSUME NEW I \in SUBSET Items
    PROVE  IsFiniteSet(I) /\ Cardinality(I) \in Nat
<1>1. IsFiniteSet(I)
    BY FiniteAssumption, FS_Subset
<1> QED
    BY <1>1, FS_CardinalityType

-----------------------------------------------------------------------------
(* What each step makes of the session of its ingestion; every other one   *)
(* it leaves alone.                                                        *)
OthersStay(q) == \A p \in Ingests \ {q} : session'[p] = session[p]

LEMMA Linked ==
    ASSUME TypeOK, NEW q \in Ingests, Sound(q), HasItem(q),
           NEW k \in Keys, NEW a \in Cand, NEW row \in Cand, Link(q, k, a, row)
    PROVE  /\ session' \in [Ingests -> Session] /\ OthersStay(q)
           /\ UNCHANGED <<cands, obs, met>>
           /\ session'[q].pc = session[q].pc /\ session'[q].feed = session[q].feed
           /\ session'[q].pos = session[q].pos + 1 /\ session'[q].dirty = session[q].dirty
           /\ \A j \in Keys :
                /\ session'[q].attr[j] = IF j = k THEN a ELSE session[q].attr[j]
                /\ session'[q].written[j] = IF j = k THEN row ELSE session[q].written[j]
           /\ session'[q].noted = Noted(q)
           /\ session'[q].draft = [id |-> Item(q).id, old |-> Found(q, Item(q).id),
                                   new |-> [cand |-> k, at |-> Item(q).at]]
           /\ session'[q].known =
                IF Contains(session[q].known, k) THEN session[q].known ELSE Append(session[q].known, k)
<1> DEFINE new == [session[q] EXCEPT
           !.attr[k] = a, !.written[k] = row, !.noted = Noted(q),
           !.draft = [id |-> Item(q).id, old |-> Found(q, Item(q).id),
                      new |-> [cand |-> k, at |-> Item(q).at]],
           !.pos = @ + 1,
           !.known = IF Contains(@, k) THEN @ ELSE Append(@, k)]
<1>1. session[q] \in Session /\ session \in [Ingests -> Session]
    BY DEF TypeOK
<1>2. session' = [session EXCEPT ![q] = new]
    BY <1>1 DEF Link
<1>3. /\ new.pc = session[q].pc /\ new.feed = session[q].feed
      /\ new.pos = session[q].pos + 1 /\ new.dirty = session[q].dirty
      /\ new.attr = [session[q].attr EXCEPT ![k] = a]
      /\ new.written = [session[q].written EXCEPT ![k] = row]
      /\ new.noted = Noted(q)
      /\ new.draft = [id |-> Item(q).id, old |-> Found(q, Item(q).id),
                      new |-> [cand |-> k, at |-> Item(q).at]]
      /\ new.known =
           IF Contains(session[q].known, k) THEN session[q].known ELSE Append(session[q].known, k)
    BY <1>1 DEF Session
<1>4. new \in Session
  <2>1. new.pos \in Nat /\ new.dirty \in SUBSET Keys /\ new.feed \in Feeds \cup {<< >>}
        /\ new.pc \in {"idle", "linking", "counting", "committed", "rolledback"}
      BY <1>3, Fields
  <2>2. new.attr \in [Keys -> Cand \cup {NoRow}] /\ new.written \in [Keys -> Cand \cup {NoRow}]
      BY <1>3, Fields
  <2>3. new.noted \in [Items -> Obs \cup {NoRow}]
      BY <1>3, NotedRows
  <2>4. new.draft \in Change \cup {NoRow}
      BY <1>3, CurrentItem, NotedRows DEF Change, Obs, Sound
  <2>5. new.known \in Seq(Keys)
      BY <1>3, Fields
  <2>6. DOMAIN new = {"pc", "feed", "pos", "known", "attr", "written", "noted", "draft", "dirty"}
        /\ new = [x \in DOMAIN new |-> new[x]]
      BY <1>1 DEF Session
  <2> HIDE DEF new
  <2> QED
      BY <2>1, <2>2, <2>3, <2>4, <2>5, <2>6 DEF Session
<1> HIDE DEF new
<1>5. session'[q] = new /\ session' \in [Ingests -> Session] /\ OthersStay(q)
    BY <1>1, <1>2, <1>4 DEF OthersStay
<1>6. \A j \in Keys :
        /\ new.attr[j] = IF j = k THEN a ELSE session[q].attr[j]
        /\ new.written[j] = IF j = k THEN row ELSE session[q].written[j]
    BY <1>3, Fields
<1> QED
    BY <1>3, <1>5, <1>6 DEF Link

(* A list of the candidates there are has each of them.                    *)
LEMMA OrdersAreComplete ==
    ASSUME TypeOK, NEW order \in SetToSeqs({k \in Keys : cands[k] # NoRow})
    PROVE  /\ order \in Seq(Keys)
           /\ \A k \in Keys : cands[k] # NoRow <=> \E i \in DOMAIN order : order[i] = k
<1> DEFINE S == {k \in Keys : cands[k] # NoRow}
           n == Cardinality(S)
<1>1. IsFiniteSet(S) /\ n \in Nat /\ S \subseteq Keys
    BY FiniteAssumption, FS_Subset, FS_CardinalityType
<1>2. order \in [1..n -> S] /\ \A i, j \in 1..n : i # j => order[i] # order[j]
    BY DEF SetToSeqs
<1> HIDE DEF S, n
<1>3. order \in Injection(1..n, S)
    BY <1>2 DEF Injection, IsInjective
<1>4. Cardinality(1..n) = Cardinality(S) /\ IsFiniteSet(1..n)
    BY <1>1, FS_Interval DEF n
<1>5. order \in Surjection(1..n, S)
    BY <1>1, <1>3, <1>4, FS_Injection
<1>6. order \in Seq(Keys)
    BY <1>1, <1>2 DEF S
<1>7. \A k \in S : \E i \in DOMAIN order : order[i] = k
    BY <1>2, <1>5 DEF Surjection
<1>8. \A i \in DOMAIN order : order[i] \in S
    BY <1>2
<1> QED
    BY <1>6, <1>7, <1>8 DEF S

LEMMA Arrived ==
    ASSUME TypeOK, NEW q \in Ingests, Sound(q), Arrive(q)
    PROVE  /\ session' \in [Ingests -> Session] /\ OthersStay(q)
           /\ UNCHANGED <<cands, obs>> /\ met' = met \cup {{p, q} : p \in {p \in Ingests : Live(p)}}
           /\ session[q].pc = "idle" /\ session'[q].pc = "linking" /\ session'[q].pos = 1
           /\ session'[q].attr = cands /\ session'[q].written = Nothing
           /\ session'[q].noted = [i \in Items |-> NoRow]
           /\ session'[q].draft = NoRow /\ session'[q].dirty = {}
           /\ \A k \in Keys : cands[k] # NoRow <=> Knows(q, k)'
<1>1. session[q] \in Session /\ session \in [Ingests -> Session] /\ cands \in [Keys -> Cand \cup {NoRow}]
    BY DEF TypeOK
<1>2. PICK feed \in Feeds, order \in SetToSeqs({k \in Keys : cands[k] # NoRow}) : Load(q, feed, order)
    BY DEF Arrive
<1>3. session[q] = Idle
    BY <1>2 DEF Load, Sound
<1> DEFINE new == [session[q] EXCEPT !.pc = "linking", !.feed = feed, !.known = order, !.attr = cands]
<1>4. session' = [session EXCEPT ![q] = new]
    BY <1>1, <1>2 DEF Load
<1>5. order \in Seq(Keys)
    BY OrdersAreComplete
<1>6. new \in Session
    BY <1>1, <1>5 DEF Session
<1>7. /\ new.pc = "linking" /\ new.known = order /\ new.attr = cands /\ new.pos = session[q].pos
      /\ new.written = session[q].written /\ new.noted = session[q].noted
      /\ new.draft = session[q].draft /\ new.dirty = session[q].dirty
    BY <1>1 DEF Session
<1>8. /\ session[q].pos = 1 /\ session[q].written = Nothing /\ session[q].draft = NoRow
      /\ session[q].noted = [i \in Items |-> NoRow] /\ session[q].dirty = {}
    BY <1>3 DEF Idle
<1> HIDE DEF new
<1>9. session'[q] = new /\ session' \in [Ingests -> Session] /\ OthersStay(q)
    BY <1>1, <1>4, <1>6 DEF OthersStay
<1>10. \A k \in Keys : cands[k] # NoRow <=> Knows(q, k)'
    BY <1>7, <1>9, OrdersAreComplete DEF Knows
<1> QED
    BY <1>2, <1>7, <1>8, <1>9, <1>10 DEF Load

LEMMA Ended ==
    ASSUME TypeOK, NEW q \in Ingests, NEW label \in {"committed", "rolledback"}, End(q, label)
    PROVE  /\ session' \in [Ingests -> Session] /\ OthersStay(q)
           /\ session'[q].pc = label /\ session'[q].feed = session[q].feed /\ session'[q].pos = 1
           /\ session'[q].known = << >> /\ session'[q].written = Nothing
           /\ session'[q].draft = NoRow /\ session'[q].dirty = {}
<1> DEFINE new == [Idle EXCEPT !.pc = label, !.feed = session[q].feed]
<1>1. session \in [Ingests -> Session]
    BY DEF TypeOK
<1>2. session' = [session EXCEPT ![q] = new]
    BY DEF End
<1>3. Idle \in [pc : {"idle"}, feed : {<< >>}, pos : {1}, known : {<< >>}, attr : {Nothing},
                 written : {Nothing}, noted : {[i \in Items |-> NoRow]}, draft : {NoRow}, dirty : {{}}]
    BY DEF Idle
<1>4. /\ new.pc = label /\ new.feed = session[q].feed /\ new.pos = 1 /\ new.known = << >>
      /\ new.attr = Nothing /\ new.written = Nothing /\ new.noted = [i \in Items |-> NoRow]
      /\ new.draft = NoRow /\ new.dirty = {}
      /\ DOMAIN new = {"pc", "feed", "pos", "known", "attr", "written", "noted", "draft", "dirty"}
      /\ new = [x \in DOMAIN new |-> new[x]]
    BY <1>3
<1>5. << >> \in Seq(Keys) /\ Nothing \in [Keys -> Cand \cup {NoRow}]
      /\ [i \in Items |-> NoRow] \in [Items -> Obs \cup {NoRow}]
    BY DEF Nothing
<1> HIDE DEF new
<1>6. new \in Session
  <2>1. session[q].feed \in Feeds \cup {<< >>}
      BY Fields
  <2>2. /\ new.pc \in {"idle", "linking", "counting", "committed", "rolledback"}
        /\ new.feed \in Feeds \cup {<< >>} /\ new.pos \in Nat /\ new.known \in Seq(Keys)
        /\ new.attr \in [Keys -> Cand \cup {NoRow}] /\ new.written \in [Keys -> Cand \cup {NoRow}]
        /\ new.noted \in [Items -> Obs \cup {NoRow}] /\ new.draft \in Change \cup {NoRow}
        /\ new.dirty \in SUBSET Keys
      BY <1>4, <1>5, <2>1
  <2> QED
      BY <1>4, <2>2 DEF Session
<1> QED
    BY <1>1, <1>2, <1>4, <1>6 DEF OthersStay

LEMMA Flushed ==
    ASSUME TypeOK, NEW q \in Ingests, Sound(q), FlushLast(q)
    PROVE  /\ session' \in [Ingests -> Session] /\ OthersStay(q)
           /\ UNCHANGED <<cands, obs, met>>
           /\ session[q].pc = "linking" /\ session'[q].pc = "counting" /\ session'[q].pos = 1
           /\ session'[q].feed = session[q].feed /\ session'[q].known = session[q].known
           /\ session'[q].attr = session[q].attr /\ session'[q].written = session[q].written
           /\ session'[q].noted = Noted(q) /\ session'[q].draft = NoRow
           /\ session'[q].dirty = session[q].dirty
<1> DEFINE new == [session[q] EXCEPT !.pc = "counting", !.pos = 1, !.noted = Noted(q), !.draft = NoRow]
<1>1. session[q] \in Session /\ session \in [Ingests -> Session]
    BY DEF TypeOK
<1>2. session' = [session EXCEPT ![q] = new]
    BY <1>1 DEF FlushLast
<1>3. new \in Session
    BY <1>1, NotedRows DEF Session
<1>4. /\ new.pc = "counting" /\ new.pos = 1 /\ new.noted = Noted(q) /\ new.draft = NoRow
      /\ new.feed = session[q].feed /\ new.known = session[q].known /\ new.attr = session[q].attr
      /\ new.written = session[q].written /\ new.dirty = session[q].dirty
    BY <1>1 DEF Session
<1> HIDE DEF new
<1>5. session'[q] = new /\ session' \in [Ingests -> Session] /\ OthersStay(q)
    BY <1>1, <1>2, <1>3 DEF OthersStay
<1> QED
    BY <1>4, <1>5 DEF FlushLast

LEMMA Counted ==
    ASSUME TypeOK, NEW q \in Ingests, Sound(q), Count(q)
    PROVE  /\ session' \in [Ingests -> Session] /\ OthersStay(q)
           /\ UNCHANGED <<cands, obs, met>>
           /\ session[q].pc = "counting" /\ session'[q].pc = "counting"
           /\ session'[q].feed = session[q].feed /\ session'[q].known = session[q].known
           /\ session'[q].written = session[q].written /\ session'[q].noted = session[q].noted
           /\ session'[q].draft = session[q].draft /\ session'[q].pos = session[q].pos + 1
           /\ session[q].pos \in DOMAIN session[q].known /\ session[q].dirty = {}
           /\ \E k \in Keys : /\ k = session[q].known[session[q].pos] /\ Knows(q, k)
                              /\ session'[q].attr = [session[q].attr EXCEPT
                                    ![k] = [session[q].attr[k] EXCEPT !.count = CountedObs(q, k)]]
                              /\ session'[q].dirty =
                                    IF session[q].attr[k].count = CountedObs(q, k) THEN {} ELSE {k}
<1> DEFINE k == session[q].known[session[q].pos]
           n == CountedObs(q, k)
           new == [session[q] EXCEPT !.pos = @ + 1, !.attr[k].count = n,
                                     !.dirty = IF session[q].attr[k].count = n THEN {} ELSE {k}]
<1>1. session[q] \in Session /\ session \in [Ingests -> Session]
    BY DEF TypeOK
<1>2. session' = [session EXCEPT ![q] = new]
    BY <1>1 DEF Count
<1>3. session[q].pos \in DOMAIN session[q].known
  <2>1. session[q].known \in Seq(Keys) /\ session[q].pos \in Nat
      BY Fields
  <2>2. session[q].pos > 0 /\ session[q].pos <= Len(session[q].known)
      BY DEF Count, Sound
  <2>3. DOMAIN session[q].known = 1..Len(session[q].known) /\ Len(session[q].known) \in Nat
      BY <2>1, LenProperties
  <2> QED
      BY <2>1, <2>2, <2>3
<1>4. k \in Keys /\ Knows(q, k)
    BY <1>3, KnownKeys
<1>5. session[q].attr[k] \in Cand
    BY <1>4, Fields DEF Sound
<1>6. n \in Nat
    BY ItemCounts DEF CountedObs
<1> HIDE DEF k, n
<1>7. /\ new.pc = session[q].pc /\ new.pos = session[q].pos + 1 /\ new.noted = session[q].noted
      /\ new.draft = session[q].draft /\ new.feed = session[q].feed /\ new.known = session[q].known
      /\ new.written = session[q].written
      /\ new.attr = [session[q].attr EXCEPT ![k] = [session[q].attr[k] EXCEPT !.count = n]]
      /\ new.dirty = IF session[q].attr[k].count = n THEN {} ELSE {k}
    BY <1>1, <1>4, Fields DEF Session
<1>8. new \in Session
  <2>1. [session[q].attr[k] EXCEPT !.count = n] \in Cand
      BY <1>5, <1>6, CountedIsACand
  <2>2. new.attr \in [Keys -> Cand \cup {NoRow}] /\ new.dirty \in SUBSET Keys /\ new.pos \in Nat
      BY <1>4, <1>7, <2>1, Fields
  <2>3. DOMAIN new = {"pc", "feed", "pos", "known", "attr", "written", "noted", "draft", "dirty"}
        /\ new = [x \in DOMAIN new |-> new[x]]
      BY <1>1 DEF Session
  <2> HIDE DEF new
  <2> QED
      BY <1>7, <2>2, <2>3, Fields DEF Session
<1> HIDE DEF new
<1>9. session'[q] = new /\ session' \in [Ingests -> Session] /\ OthersStay(q)
    BY <1>1, <1>2, <1>8 DEF OthersStay
<1>10. session[q].pc = "counting" /\ session[q].dirty = {} /\ UNCHANGED <<cands, obs, met>>
    BY DEF Count
<1> QED
    BY <1>3, <1>4, <1>7, <1>9, <1>10 DEF k, n

LEMMA CountWritten ==
    ASSUME TypeOK, NEW q \in Ingests, Sound(q), WriteCount(q)
    PROVE  /\ session' \in [Ingests -> Session] /\ OthersStay(q)
           /\ UNCHANGED <<cands, obs, met>>
           /\ session[q].pc = "counting" /\ session'[q].pc = "counting"
           /\ session'[q].feed = session[q].feed /\ session'[q].known = session[q].known
           /\ session'[q].attr = session[q].attr /\ session'[q].noted = session[q].noted
           /\ session'[q].draft = session[q].draft /\ session'[q].pos = session[q].pos
           /\ session'[q].dirty = {}
           /\ \E k \in session[q].dirty :
                /\ Writers(q, {k}) = {} /\ Row(q, k) \in Cand /\ session[q].attr[k] \in Cand
                /\ session'[q].written = [session[q].written EXCEPT
                      ![k] = [Row(q, k) EXCEPT !.count = session[q].attr[k].count]]
<1>1. session[q] \in Session /\ session \in [Ingests -> Session]
    BY DEF TypeOK
<1>2. PICK k \in session[q].dirty :
         /\ Writers(q, {k}) = {}
         /\ session' = [session EXCEPT ![q].dirty = {},
                ![q].written[k] = [Row(q, k) EXCEPT !.count = session[q].attr[k].count]]
    BY DEF WriteCount
<1> DEFINE row == [Row(q, k) EXCEPT !.count = session[q].attr[k].count]
           new == [session[q] EXCEPT !.dirty = {}, !.written[k] = row]
<1>3. k \in Keys /\ Knows(q, k) /\ session[q].pc = "counting"
    BY Fields DEF Sound
<1>4. Row(q, k) \in Cand /\ session[q].attr[k] \in Cand
    BY <1>3, Rows, Fields DEF Sound
<1>5. row \in Cand
    BY <1>4, CandFields, CountedIsACand
<1>6. session' = [session EXCEPT ![q] = new]
    BY <1>1, <1>2
<1> HIDE DEF row
<1>7. /\ new.pc = session[q].pc /\ new.pos = session[q].pos /\ new.noted = session[q].noted
      /\ new.draft = session[q].draft /\ new.feed = session[q].feed /\ new.known = session[q].known
      /\ new.attr = session[q].attr /\ new.dirty = {}
      /\ new.written = [session[q].written EXCEPT ![k] = row]
    BY <1>1 DEF Session
<1>8. new \in Session
  <2>1. new.written \in [Keys -> Cand \cup {NoRow}]
      BY <1>3, <1>5, <1>7, Fields
  <2>2. DOMAIN new = {"pc", "feed", "pos", "known", "attr", "written", "noted", "draft", "dirty"}
        /\ new = [x \in DOMAIN new |-> new[x]]
      BY <1>1 DEF Session
  <2> HIDE DEF new
  <2> QED
      BY <1>7, <2>1, <2>2, Fields DEF Session
<1> HIDE DEF new
<1>9. session'[q] = new /\ session' \in [Ingests -> Session] /\ OthersStay(q)
    BY <1>1, <1>6, <1>8 DEF OthersStay
<1>10. UNCHANGED <<cands, obs, met>>
    BY DEF WriteCount
<1> QED
    BY <1>2, <1>3, <1>4, <1>7, <1>9, <1>10 DEF row

-----------------------------------------------------------------------------
(* An item is linked to a candidate it matches or to a new one.            *)
Links(q, k, a, row) ==
    /\ HasItem(q) /\ Link(q, k, a, row) /\ Writers(q, {k}) = {}
    /\ \/ /\ k \in Matches(q) /\ Row(q, k) \in Cand /\ row.by = Row(q, k).by
          /\ a = Widened(session[q].attr[k], Item(q).at)
          /\ row = Merged(Row(q, k), session[q].attr[k], a)
       \/ /\ Matches(q) = {} /\ k = Item(q).key /\ cands[k] = NoRow /\ row.by = q /\ a = row
          /\ row = [first |-> Item(q).at, last |-> Item(q).at, count |-> 0, by |-> q]

LEMMA LinkCases ==
    ASSUME TypeOK, NEW q \in Ingests, Sound(q), LinkKnown(q) \/ LinkNew(q)
    PROVE  \E k \in Keys, a \in Cand, row \in Cand : Links(q, k, a, row)
<1>0. HasItem(q) /\ session[q].pos > 0
    BY DEF LinkKnown, LinkNew, Sound
<1>1. CASE LinkKnown(q)
  <2> DEFINE a(k) == Widened(session[q].attr[k], Item(q).at)
             row(k) == Merged(Row(q, k), session[q].attr[k], a(k))
  <2>1. PICK k \in Matches(q) : Writers(q, {k}) = {} /\ Link(q, k, a(k), row(k))
      BY <1>1 DEF LinkKnown, Widened, Merged
  <2>2. k \in Keys /\ Knows(q, k)
      BY <1>0, WhatMatches
  <2>3. session[q].attr[k] \in Cand /\ Row(q, k) \in Cand
      BY <2>2, Fields, Rows DEF Sound
  <2>4. a(k) \in Cand
      BY <1>0, <2>3, CurrentItem, WidenedIsACand
  <2>5. row(k) \in Cand /\ row(k).by = Row(q, k).by
      BY <2>3, <2>4, MergedIsACand
  <2>6. Links(q, k, a(k), row(k))
      BY <1>0, <2>1, <2>3, <2>5 DEF Links
  <2> HIDE DEF a, row
  <2> QED
      BY <2>2, <2>4, <2>5, <2>6
<1>2. CASE LinkNew(q)
  <2> DEFINE k == Item(q).key
             new == [first |-> Item(q).at, last |-> Item(q).at, count |-> 0, by |-> q]
  <2>1. Matches(q) = {} /\ Writers(q, {k}) = {} /\ cands[k] = NoRow /\ Link(q, k, new, new)
      BY <1>2 DEF LinkNew
  <2>2. k \in Keys /\ new \in Cand /\ new.by = q
      BY <1>0, CurrentItem DEF Cand
  <2> QED
      BY <1>0, <2>1, <2>2 DEF Links
<1> QED
    BY <1>1, <1>2

LEMMA KnownAfterLink ==
    ASSUME TypeOK, NEW q \in Ingests, NEW k \in Keys,
           session'[q].known =
             IF Contains(session[q].known, k) THEN session[q].known ELSE Append(session[q].known, k)
    PROVE  \A j \in Keys : Knows(q, j)' <=> Knows(q, j) \/ j = k
<1> DEFINE s == session[q].known
<1>1. s \in Seq(Keys) /\ DOMAIN s = 1..Len(s) /\ Len(s) \in Nat
    BY Fields, LenProperties
<1>2. Contains(s, k) <=> Knows(q, k)
    BY <1>1 DEF Contains, Knows
<1>3. CASE Contains(s, k)
    BY <1>2, <1>3 DEF Knows
<1>4. CASE ~ Contains(s, k)
  <2>1. session'[q].known = Append(s, k)
      BY <1>4
  <2>2. /\ DOMAIN Append(s, k) = 1..(Len(s) + 1)
        /\ Append(s, k)[Len(s) + 1] = k /\ \A i \in 1..Len(s) : Append(s, k)[i] = s[i]
      BY <1>1
  <2> HIDE DEF s
  <2>3. \A j : (\E i \in DOMAIN Append(s, k) : Append(s, k)[i] = j) <=> (\E i \in DOMAIN s : s[i] = j) \/ j = k
    <3>1. ASSUME NEW j, NEW i \in DOMAIN Append(s, k), Append(s, k)[i] = j
          PROVE  (\E h \in DOMAIN s : s[h] = j) \/ j = k
        BY <1>1, <2>2, <3>1
    <3>2. ASSUME NEW j, NEW i \in DOMAIN s, s[i] = j
          PROVE  \E h \in DOMAIN Append(s, k) : Append(s, k)[h] = j
        BY <1>1, <2>2, <3>2
    <3>3. \E h \in DOMAIN Append(s, k) : Append(s, k)[h] = k
        BY <1>1, <2>2
    <3> QED
        BY <3>1, <3>2, <3>3
  <2> QED
      BY <2>1, <2>3 DEF Knows, s
<1> QED
    BY <1>3, <1>4

(* Committed rows stay.                                                    *)
RowsGrow ==
    /\ \A k \in Keys : cands[k] # NoRow => cands'[k] # NoRow
    /\ \A i \in Items : obs[i] # NoRow => obs'[i] # NoRow

LEMMA SoundFrame ==
    ASSUME NEW p \in Ingests, Sound(p), session'[p] = session[p], RowsGrow, TypeOK
    PROVE  Sound(p)'
<1>1. \A k \in Keys : (Knows(p, k)' <=> Knows(p, k)) /\ (Row(p, k) # NoRow => Row(p, k)' # NoRow)
    BY DEF Knows, Row, RowsGrow
<1>2. \A i \in Items : ObsRow(p, i) # NoRow => ObsRow(p, i)' # NoRow
    BY DEF ObsRow, RowsGrow
<1>3. Live(p)' <=> Live(p)
    BY DEF Live
<1>4. session[p].draft # NoRow => session[p].draft.id \in Items
    BY Fields DEF Change
<1>5. session[p].dirty \subseteq Keys
    BY Fields
<1>6. session[p].draft # NoRow =>
          /\ session[p].pc = "linking"
          /\ session[p].draft.old # NoRow => ObsRow(p, session[p].draft.id)' # NoRow
    BY <1>2, <1>4 DEF Sound
<1>7. \A k \in session[p].dirty :
          Knows(p, k)' /\ session[p].pc = "counting" /\ session[p].dirty = {k}
    BY <1>1, <1>5 DEF Sound
<1>8. (session[p].draft # NoRow =>
          /\ session[p].pc = "linking"
          /\ session[p].draft.old # NoRow => ObsRow(p, session[p].draft.id) # NoRow)'
    BY <1>6 DEF ObsRow
<1> QED
    BY <1>1, <1>3, <1>7, <1>8 DEF Sound, Idle

-----------------------------------------------------------------------------
(* The types hold, and every session is sound.                             *)
LEMMA TypedInit == Init => Typed
<1> SUFFICES ASSUME Init PROVE Typed
    OBVIOUS
<1>1. Nothing \in [Keys -> Cand \cup {NoRow}] /\ [i \in Items |-> NoRow] \in [Items -> Obs \cup {NoRow}]
    BY DEF Nothing
<1>2. /\ Idle.pc = "idle" /\ Idle.feed = << >> /\ Idle.pos = 1 /\ Idle.known = << >>
      /\ Idle.attr = Nothing /\ Idle.written = Nothing /\ Idle.noted = [i \in Items |-> NoRow]
      /\ Idle.draft = NoRow /\ Idle.dirty = {}
      /\ DOMAIN Idle = {"pc", "feed", "pos", "known", "attr", "written", "noted", "draft", "dirty"}
      /\ Idle = [x \in DOMAIN Idle |-> Idle[x]]
    BY DEF Idle
<1>3. Idle \in Session
  <2>1. << >> \in Seq(Keys)
      OBVIOUS
  <2>2. /\ Idle.pc \in {"idle", "linking", "counting", "committed", "rolledback"}
        /\ Idle.feed \in Feeds \cup {<< >>} /\ Idle.pos \in Nat /\ Idle.known \in Seq(Keys)
        /\ Idle.attr \in [Keys -> Cand \cup {NoRow}] /\ Idle.written \in [Keys -> Cand \cup {NoRow}]
        /\ Idle.noted \in [Items -> Obs \cup {NoRow}] /\ Idle.draft \in Change \cup {NoRow}
        /\ Idle.dirty \in SUBSET Keys
      BY <1>1, <1>2, <2>1
  <2> QED
      BY <1>2, <2>2 DEF Session
<1>4. TypeOK
    BY <1>1, <1>3 DEF Init, TypeOK
<1>5. ASSUME NEW q \in Ingests
      PROVE  Sound(q)
  <2>1. session[q] = Idle
      BY DEF Init
  <2> QED
      BY <1>2, <2>1 DEF Sound, Live, Knows, Nothing
<1> QED
    BY <1>4, <1>5 DEF Typed

LEMMA OneStep ==
    ASSUME Typed, NEW q \in Ingests, session' \in [Ingests -> Session], OthersStay(q),
           cands' \in [Keys -> Cand \cup {NoRow}], obs' \in [Items -> Obs \cup {NoRow}],
           met' \in SUBSET SUBSET Ingests, RowsGrow, Sound(q)'
    PROVE  Typed'
<1>1. \A p \in Ingests : Sound(p)'
    BY SoundFrame DEF Typed, OthersStay
<1> QED
    BY <1>1 DEF Typed, TypeOK

LEMMA QuietStep ==
    ASSUME Typed, NEW q \in Ingests, session' \in [Ingests -> Session], OthersStay(q),
           UNCHANGED <<cands, obs>>, met' \in SUBSET SUBSET Ingests, Sound(q)'
    PROVE  Typed'
<1>1. RowsGrow
    BY DEF RowsGrow
<1> QED
    BY <1>1, OneStep DEF Typed, TypeOK

LEMMA LinkRows ==
    ASSUME TypeOK, NEW q \in Ingests, Sound(q), HasItem(q),
           NEW k \in Keys, NEW a \in Cand, NEW row \in Cand, Link(q, k, a, row)
    PROVE  \A j \in Keys :
               /\ session'[q].written[j] = IF j = k THEN row ELSE session[q].written[j]
               /\ Row(q, j)' = IF j = k THEN row ELSE Row(q, j)
<1>1. /\ UNCHANGED cands
      /\ \A j \in Keys :
           /\ session'[q].attr[j] = IF j = k THEN a ELSE session[q].attr[j]
           /\ session'[q].written[j] = IF j = k THEN row ELSE session[q].written[j]
      /\ session'[q].draft = [id |-> Item(q).id, old |-> Found(q, Item(q).id),
                              new |-> [cand |-> k, at |-> Item(q).at]]
    BY Linked
<1>2. row # NoRow
    BY CandFields
<1> QED
    BY <1>1, <1>2 DEF Row

LEMMA LinkSound ==
    ASSUME TypeOK, NEW q \in Ingests, Sound(q), HasItem(q),
           NEW k \in Keys, NEW a \in Cand, NEW row \in Cand, Link(q, k, a, row)
    PROVE  Sound(q)'
<1>0. /\ UNCHANGED <<cands, obs>>
      /\ session'[q].pc = session[q].pc /\ session'[q].pos = session[q].pos + 1
      /\ session'[q].dirty = session[q].dirty
      /\ \A j \in Keys :
           /\ session'[q].attr[j] = IF j = k THEN a ELSE session[q].attr[j]
           /\ session'[q].written[j] = IF j = k THEN row ELSE session[q].written[j]
      /\ session'[q].noted = Noted(q)
      /\ session'[q].draft = [id |-> Item(q).id, old |-> Found(q, Item(q).id),
                              new |-> [cand |-> k, at |-> Item(q).at]]
      /\ session'[q].known =
           IF Contains(session[q].known, k) THEN session[q].known ELSE Append(session[q].known, k)
    BY Linked
<1>1. session[q].pc = "linking" /\ session[q].dirty = {} /\ a # NoRow /\ row # NoRow
    BY CandFields DEF HasItem, Sound
<1>2. \A j \in Keys : Knows(q, j)' <=> Knows(q, j) \/ j = k
    BY <1>0, KnownAfterLink
<1>3. \A j \in Keys : Knows(q, j)' => session'[q].attr[j] # NoRow
    BY <1>0, <1>1, <1>2 DEF Sound
<1>4. \A j \in Keys :
          /\ session'[q].written[j] = IF j = k THEN row ELSE session[q].written[j]
          /\ Row(q, j)' = IF j = k THEN row ELSE Row(q, j)
    BY LinkRows
<1>6. \A j \in Keys : Knows(q, j)' => Row(q, j)' # NoRow
    BY <1>1, <1>2, <1>4 DEF Sound
<1>7. \A j \in Keys : session'[q].written[j] # NoRow => Knows(q, j)'
    BY <1>2, <1>4 DEF Sound
<1>8. (session[q].draft.old # NoRow => ObsRow(q, session[q].draft.id) # NoRow)'
  <2> DEFINE id == Item(q).id
  <2>1. session'[q].draft.old = Found(q, id) /\ session'[q].draft.id = id
      BY <1>0
  <2>2. (IF session'[q].noted[id] # NoRow THEN session'[q].noted[id] ELSE obs'[id]) = Found(q, id)
      BY <1>0 DEF Found
  <2> HIDE DEF id
  <2> QED
      BY <2>1, <2>2 DEF ObsRow
<1>9. session'[q].pos > 0 /\ session'[q].dirty = {} /\ session'[q].pc = "linking"
    BY <1>0, <1>1, Fields DEF Sound
<1> QED
    BY <1>3, <1>6, <1>7, <1>8, <1>9 DEF Sound, Live

LEMMA EndSound ==
    ASSUME TypeOK, NEW q \in Ingests, NEW label \in {"committed", "rolledback"}, End(q, label)
    PROVE  Sound(q)'
BY Ended DEF Sound, Live, Knows, Nothing

LEMMA ArriveSound ==
    ASSUME TypeOK, NEW q \in Ingests, Sound(q), Arrive(q)
    PROVE  Sound(q)'
<1>1. \A k \in Keys : session'[q].written[k] = NoRow
    BY Arrived DEF Nothing
<1>2. \A k \in Keys : Knows(q, k)' => session'[q].attr[k] # NoRow /\ Row(q, k)' # NoRow
    BY <1>1, Arrived DEF Row
<1> QED
    BY <1>1, <1>2, Arrived DEF Sound, Live

LEMMA FlushSound ==
    ASSUME TypeOK, NEW q \in Ingests, Sound(q), FlushLast(q)
    PROVE  Sound(q)'
<1>1. \A k \in Keys : (Knows(q, k)' <=> Knows(q, k)) /\ Row(q, k)' = Row(q, k)
    BY Flushed DEF Knows, Row
<1>2. session[q].dirty = {}
    BY Flushed DEF Sound
<1> QED
    BY <1>1, <1>2, Flushed DEF Sound, Live

LEMMA CountSound ==
    ASSUME TypeOK, NEW q \in Ingests, Sound(q), Count(q)
    PROVE  Sound(q)'
<1>1. \A j \in Keys : (Knows(q, j)' <=> Knows(q, j)) /\ Row(q, j)' = Row(q, j)
    BY Counted DEF Knows, Row
<1>2. session[q].draft = NoRow
    BY Counted DEF Sound
<1>3. PICK k \in Keys : /\ Knows(q, k)
                        /\ session'[q].attr = [session[q].attr EXCEPT
                              ![k] = [session[q].attr[k] EXCEPT !.count = CountedObs(q, k)]]
                        /\ session'[q].dirty \in {{}, {k}}
    BY Counted
<1>4. [session[q].attr[k] EXCEPT !.count = CountedObs(q, k)] \in Cand
    BY <1>3, Fields, ItemCounts, CountedIsACand DEF Sound, CountedObs
<1>5. \A j \in Keys : Knows(q, j)' => session'[q].attr[j] # NoRow
    BY <1>1, <1>3, <1>4, CandFields, Fields DEF Sound
<1>6. session'[q].pos > 0
    BY Counted, Fields DEF Sound
<1> QED
    BY <1>1, <1>2, <1>3, <1>5, <1>6, Counted DEF Sound, Live

LEMMA WriteSound ==
    ASSUME TypeOK, NEW q \in Ingests, Sound(q), WriteCount(q)
    PROVE  Sound(q)'
<1>1. PICK k \in session[q].dirty :
         /\ Row(q, k) \in Cand /\ session[q].attr[k] \in Cand
         /\ session'[q].written = [session[q].written EXCEPT
               ![k] = [Row(q, k) EXCEPT !.count = session[q].attr[k].count]]
    BY CountWritten
<1>2. k \in Keys /\ Knows(q, k)
    BY Fields DEF Sound
<1> DEFINE row == [Row(q, k) EXCEPT !.count = session[q].attr[k].count]
<1>3. row \in Cand
    BY <1>1, CandFields, CountedIsACand
<1> HIDE DEF row
<1>4. session'[q].written = [session[q].written EXCEPT ![k] = row] /\ row # NoRow
    BY <1>1, <1>3, CandFields DEF row
<1>5. \A j \in Keys : Knows(q, j)' <=> Knows(q, j)
    BY CountWritten DEF Knows
<1>6. \A j \in Keys : Row(q, j)' = IF j = k THEN row ELSE Row(q, j)
    BY <1>2, <1>4, CountWritten, Fields DEF Row
<1>7. \A j \in Keys : session'[q].written[j] # NoRow => Knows(q, j)
    BY <1>2, <1>4, Fields DEF Sound
<1>8. session[q].draft = NoRow
    BY CountWritten DEF Sound
<1> QED
    BY <1>4, <1>5, <1>6, <1>7, <1>8, CountWritten DEF Sound, Live

(* The committed rows are those of the transaction.                        *)
LEMMA Committed ==
    ASSUME TypeOK, NEW q \in Ingests, Commit(q)
    PROVE  /\ cands' \in [Keys -> Cand \cup {NoRow}] /\ obs' \in [Items -> Obs \cup {NoRow}]
           /\ \A k \in Keys : cands'[k] = Row(q, k)
           /\ \A i \in Items : obs'[i] = ObsRow(q, i)
           /\ RowsGrow /\ met' = met /\ End(q, "committed")
<1>1. cands' = [k \in Keys |-> Row(q, k)] /\ obs' = [i \in Items |-> ObsRow(q, i)]
      /\ met' = met /\ End(q, "committed")
    BY DEF Commit
<1>2. \A k \in Keys : cands[k] # NoRow => Row(q, k) # NoRow
    BY DEF Row
<1>3. \A i \in Items : obs[i] # NoRow => ObsRow(q, i) # NoRow
    BY DEF ObsRow
<1> QED
    BY <1>1, <1>2, <1>3, Rows DEF RowsGrow

LEMMA Failed ==
    ASSUME NEW q \in Ingests,
           KeyConflict(q) \/ ObservationConflict(q) \/ DeadlockVictim(q) \/ Rollback(q)
    PROVE  End(q, "rolledback") /\ UNCHANGED <<cands, obs, met>>
BY DEF KeyConflict, ObservationConflict, DeadlockVictim, Rollback

LEMMA TypedInductive ==
    ASSUME Typed, [Next]_vars
    PROVE  Typed'
<1>1. ASSUME NEW q \in Ingests, Arrive(q)
      PROVE  Typed'
  <2>1. Sound(q)'
      BY <1>1, ArriveSound DEF Typed
  <2>2. met' \in SUBSET SUBSET Ingests
      BY <1>1, Arrived DEF Typed, TypeOK
  <2> QED
      BY <1>1, <2>1, <2>2, Arrived, QuietStep DEF Typed
<1>2. ASSUME NEW q \in Ingests, LinkKnown(q) \/ LinkNew(q)
      PROVE  Typed'
  <2>1. PICK k \in Keys, a \in Cand, row \in Cand : HasItem(q) /\ Link(q, k, a, row)
      BY <1>2, LinkCases DEF Typed, Links
  <2>2. Sound(q)'
      BY <2>1, LinkSound DEF Typed
  <2> QED
      BY <2>1, <2>2, Linked, QuietStep DEF Typed, TypeOK
<1>3. ASSUME NEW q \in Ingests,
             KeyConflict(q) \/ ObservationConflict(q) \/ DeadlockVictim(q) \/ Rollback(q)
      PROVE  Typed'
  <2>1. End(q, "rolledback") /\ UNCHANGED <<cands, obs, met>>
      BY <1>3, Failed
  <2>2. session' \in [Ingests -> Session] /\ OthersStay(q)
      BY <2>1, Ended DEF Typed
  <2> QED
      BY <2>1, <2>2, EndSound, QuietStep DEF Typed, TypeOK
<1>4. ASSUME NEW q \in Ingests, FlushLast(q)
      PROVE  Typed'
    BY <1>4, Flushed, FlushSound, QuietStep DEF Typed, TypeOK
<1>5. ASSUME NEW q \in Ingests, Count(q)
      PROVE  Typed'
    BY <1>5, Counted, CountSound, QuietStep DEF Typed, TypeOK
<1>6. ASSUME NEW q \in Ingests, WriteCount(q)
      PROVE  Typed'
    BY <1>6, CountWritten, WriteSound, QuietStep DEF Typed, TypeOK
<1>7. ASSUME NEW q \in Ingests, Commit(q)
      PROVE  Typed'
  <2>1. session' \in [Ingests -> Session] /\ OthersStay(q) /\ Sound(q)'
      BY <1>7, Committed, Ended, EndSound DEF Typed
  <2> QED
      BY <1>7, <2>1, Committed, OneStep DEF Typed, TypeOK
<1>8. CASE UNCHANGED vars
  <2>1. RowsGrow /\ session' = session
      BY <1>8 DEF vars, RowsGrow
  <2>2. \A p \in Ingests : Sound(p)'
      BY <2>1, SoundFrame DEF Typed
  <2> QED
      BY <1>8, <2>2 DEF vars, Typed, TypeOK
<1> QED
    BY <1>1, <1>2, <1>3, <1>4, <1>5, <1>6, <1>7, <1>8 DEF Next, Proceed, Quiet

LEMMA AlwaysTyped == Spec => []Typed
<1>1. Init => Typed
    BY TypedInit
<1>2. Typed /\ [Next]_vars => Typed'
    BY TypedInductive
<1> QED
    BY <1>1, <1>2, PTL DEF Spec

(* TypeOK: the rows and the sessions stay within the columns and the lists *)
(* the code gives them, through conflicts, merges and rollbacks.           *)
THEOREM IngestTypes == Spec => []TypeOK
<1>1. Typed => TypeOK
    BY DEF Typed
<1> QED
    BY <1>1, AlwaysTyped, PTL

-----------------------------------------------------------------------------
(* What an ingestion has linked so far has a candidate it sees; it sees    *)
(* all it ever saw until it ends, and what it commits is what it saw.      *)
Fits(k, key) == k = key \/ <<k, key>> \in Near
Covers(q, n) == \E k \in Keys : Row(q, k) # NoRow /\ Fits(k, session[q].feed[n].key)
Linking(q, n) == session[q].pc = "counting" \/ (session[q].pc = "linking" /\ n < session[q].pos)
CoveredOf(q) == \A n \in DOMAIN session[q].feed : Linking(q, n) => Covers(q, n)
DoneOf(q) ==
    session[q].pc = "committed" =>
        \A n \in DOMAIN session[q].feed :
            \E k \in Keys : cands[k] # NoRow /\ Fits(k, session[q].feed[n].key)

Covered == Typed /\ \A q \in Ingests : CoveredOf(q) /\ DoneOf(q)

LEMMA CoveredIsCovered == Covered => EveryFeedIsCovered
BY DEF Covered, DoneOf, Fits, EveryFeedIsCovered

LEMMA FeedSeqs == \A f \in Feeds \cup {<< >>} : DOMAIN f = 1..Len(f) /\ Len(f) \in Nat
<1>1. << >> \in Seq(Seen)
    OBVIOUS
<1>2. Feeds \subseteq Seq(Seen)
    BY FeedsAssumption DEF Seen
<1> QED
    BY <1>1, <1>2, LenProperties

RowsStay(q) == \A k \in Keys : Row(q, k) # NoRow => Row(q, k)' # NoRow

LEMMA CoversStays ==
    ASSUME NEW q \in Ingests, NEW n, RowsStay(q), session'[q].feed = session[q].feed, Covers(q, n)
    PROVE  Covers(q, n)'
<1>1. PICK k \in Keys : Row(q, k) # NoRow /\ Fits(k, session[q].feed[n].key)
    BY DEF Covers
<1>2. Row(q, k)' # NoRow /\ Fits(k, session'[q].feed[n].key)
    BY <1>1 DEF RowsStay
<1> QED
    BY <1>2 DEF Covers, Fits

LEMMA CoveredFrame ==
    ASSUME NEW p \in Ingests, CoveredOf(p), DoneOf(p), session'[p] = session[p], RowsGrow
    PROVE  (CoveredOf(p) /\ DoneOf(p))'
<1>1. RowsStay(p)
    BY DEF RowsStay, Row, RowsGrow
<1>2. \A n : Linking(p, n)' <=> Linking(p, n)
    BY DEF Linking
<1>3. CoveredOf(p)'
    BY <1>1, <1>2, CoversStays DEF CoveredOf
<1>4. DoneOf(p)'
    BY DEF DoneOf, RowsGrow, Fits
<1> QED
    BY <1>3, <1>4

LEMMA CoveredStep ==
    ASSUME Covered, Typed', NEW q \in Ingests, OthersStay(q), RowsGrow, (CoveredOf(q) /\ DoneOf(q))'
    PROVE  Covered'
<1>1. ASSUME NEW p \in Ingests PROVE (CoveredOf(p) /\ DoneOf(p))'
    BY CoveredFrame DEF Covered, OthersStay
<1> QED
    BY <1>1 DEF Covered

LEMMA CoveredInit == Init => Covered
<1>1. ASSUME Init, NEW q \in Ingests PROVE session[q].pc = "idle"
    BY <1>1 DEF Init, Idle
<1> QED
    BY <1>1, TypedInit DEF Covered, CoveredOf, DoneOf, Linking

LEMMA CoveredInductive ==
    ASSUME Covered, [Next]_vars
    PROVE  Covered'
<1>0. Typed' /\ Typed /\ TypeOK
    BY TypedInductive DEF Covered, Typed
<1>1. ASSUME NEW q \in Ingests, Arrive(q)
      PROVE  Covered'
  <2>1. session'[q].pc = "linking" /\ session'[q].pos = 1 /\ OthersStay(q) /\ UNCHANGED <<cands, obs>>
      BY <1>0, <1>1, Arrived DEF Typed
  <2>2. session'[q].feed \in Feeds \cup {<< >>}
      BY <1>0 DEF Typed, TypeOK, Session
  <2>3. (CoveredOf(q) /\ DoneOf(q))'
      BY <2>1, <2>2, FeedSeqs DEF CoveredOf, DoneOf, Linking
  <2> QED
      BY <1>0, <2>1, <2>3, CoveredStep DEF RowsGrow
<1>2. ASSUME NEW q \in Ingests, LinkKnown(q) \/ LinkNew(q)
      PROVE  Covered'
  <2>1. PICK k \in Keys, a \in Cand, row \in Cand : Links(q, k, a, row)
      BY <1>0, <1>2, LinkCases DEF Typed
  <2>2. HasItem(q) /\ Link(q, k, a, row) /\ Sound(q) /\ session[q].pos > 0
      BY <1>0, <2>1 DEF Links, Typed, Sound
  <2>3. /\ UNCHANGED <<cands, obs>> /\ OthersStay(q)
        /\ session'[q].pc = session[q].pc /\ session'[q].pos = session[q].pos + 1
        /\ session'[q].feed = session[q].feed
      BY <1>0, <2>2, Linked
  <2>4. session[q].pc = "linking" /\ row # NoRow
      BY <2>2, CandFields DEF HasItem
  <2>5. \A j \in Keys : Row(q, j)' = IF j = k THEN row ELSE Row(q, j)
      BY <1>0, <2>2, LinkRows
  <2>6. RowsStay(q) /\ Row(q, k)' # NoRow
      BY <2>4, <2>5 DEF RowsStay
  <2>7. Fits(k, session[q].feed[session[q].pos].key)
      BY <1>0, <2>1, <2>2, WhatMatches DEF Links, Fits, Item
  <2>8. ASSUME NEW n \in DOMAIN session[q].feed, n < session[q].pos + 1
        PROVE  Covers(q, n)'
    <3>1. n \in Nat /\ session[q].pos \in Nat
        BY <1>0, FeedSeqs, Fields
    <3>2. CASE n < session[q].pos
      <4>1. Covers(q, n)
          BY <2>4, <3>2 DEF Covered, CoveredOf, Linking
      <4> QED
          BY <2>3, <2>6, <4>1, CoversStays
    <3>3. CASE n = session[q].pos
        BY <2>3, <2>6, <2>7, <3>3 DEF Covers
    <3> QED
        BY <2>8, <3>1, <3>2, <3>3
  <2>9. (CoveredOf(q) /\ DoneOf(q))'
      BY <2>3, <2>4, <2>8 DEF CoveredOf, DoneOf, Linking
  <2> QED
      BY <1>0, <2>3, <2>9, CoveredStep DEF RowsGrow
<1>3. ASSUME NEW q \in Ingests,
             KeyConflict(q) \/ ObservationConflict(q) \/ DeadlockVictim(q) \/ Rollback(q)
      PROVE  Covered'
  <2>1. End(q, "rolledback") /\ UNCHANGED <<cands, obs, met>>
      BY <1>3, Failed
  <2>2. session'[q].pc = "rolledback" /\ OthersStay(q)
      BY <1>0, <2>1, Ended
  <2>3. (CoveredOf(q) /\ DoneOf(q))'
      BY <2>2 DEF CoveredOf, DoneOf, Linking
  <2> QED
      BY <1>0, <2>1, <2>2, <2>3, CoveredStep DEF RowsGrow
<1>4. ASSUME NEW q \in Ingests, FlushLast(q)
      PROVE  Covered'
  <2>1. /\ OthersStay(q) /\ UNCHANGED <<cands, obs>> /\ session[q].pc = "linking"
        /\ session'[q].pc = "counting" /\ session'[q].feed = session[q].feed
        /\ session'[q].written = session[q].written
      BY <1>0, <1>4, Flushed DEF Typed
  <2>2. \A n \in DOMAIN session[q].feed : n < session[q].pos
      BY <1>0, <1>4, <2>1, FeedSeqs, Fields DEF FlushLast, HasItem
  <2>3. RowsStay(q)
      BY <2>1 DEF RowsStay, Row
  <2>4. \A n \in DOMAIN session[q].feed : Covers(q, n)'
      BY <2>1, <2>2, <2>3, CoversStays DEF Covered, CoveredOf, Linking
  <2>5. (CoveredOf(q) /\ DoneOf(q))'
      BY <2>1, <2>4 DEF CoveredOf, DoneOf
  <2> QED
      BY <1>0, <2>1, <2>5, CoveredStep DEF RowsGrow
<1>5. ASSUME NEW q \in Ingests, Count(q) \/ WriteCount(q)
      PROVE  Covered'
  <2>1. /\ OthersStay(q) /\ UNCHANGED <<cands, obs>> /\ session[q].pc = "counting"
        /\ session'[q].pc = "counting" /\ session'[q].feed = session[q].feed
      BY <1>0, <1>5, Counted, CountWritten DEF Typed
  <2>2. RowsStay(q)
    <3>1. CASE Count(q)
        BY <1>0, <3>1, Counted DEF RowsStay, Row, Typed
    <3>2. CASE WriteCount(q)
      <4>1. PICK k \in session[q].dirty :
               session'[q].written = [session[q].written EXCEPT
                     ![k] = [Row(q, k) EXCEPT !.count = session[q].attr[k].count]]
               /\ Row(q, k) \in Cand /\ session[q].attr[k] \in Cand
          BY <1>0, <3>2, CountWritten DEF Typed
      <4> DEFINE row == [Row(q, k) EXCEPT !.count = session[q].attr[k].count]
      <4>2. row # NoRow
          BY <4>1, CandFields, CountedIsACand
      <4> HIDE DEF row
      <4>3. session'[q].written = [session[q].written EXCEPT ![k] = row]
          BY <4>1 DEF row
      <4> QED
          BY <1>0, <2>1, <4>2, <4>3, Fields DEF RowsStay, Row
    <3> QED
        BY <1>5, <3>1, <3>2
  <2>3. \A n \in DOMAIN session[q].feed : Covers(q, n)'
      BY <2>1, <2>2, CoversStays DEF Covered, CoveredOf, Linking
  <2>4. (CoveredOf(q) /\ DoneOf(q))'
      BY <2>1, <2>3 DEF CoveredOf, DoneOf
  <2> QED
      BY <1>0, <2>1, <2>4, CoveredStep DEF RowsGrow
<1>6. ASSUME NEW q \in Ingests, Commit(q)
      PROVE  Covered'
  <2>1. RowsGrow /\ End(q, "committed") /\ \A k \in Keys : cands'[k] = Row(q, k)
      BY <1>0, <1>6, Committed
  <2>2. session'[q].pc = "committed" /\ session'[q].feed = session[q].feed /\ OthersStay(q)
      BY <1>0, <2>1, Ended
  <2>3. \A n \in DOMAIN session[q].feed : Covers(q, n)
      BY <1>6 DEF Covered, CoveredOf, Linking, Commit
  <2>4. (CoveredOf(q) /\ DoneOf(q))'
      BY <2>1, <2>2, <2>3 DEF CoveredOf, DoneOf, Linking, Covers
  <2> QED
      BY <1>0, <2>1, <2>2, <2>4, CoveredStep
<1>7. CASE UNCHANGED vars
  <2>1. RowsGrow /\ \A p \in Ingests : session'[p] = session[p]
      BY <1>7 DEF vars, RowsGrow
  <2>2. \A p \in Ingests : (CoveredOf(p) /\ DoneOf(p))'
      BY <2>1, CoveredFrame DEF Covered
  <2> QED
      BY <1>0, <2>2 DEF Covered
<1> QED
    BY <1>1, <1>2, <1>3, <1>4, <1>5, <1>6, <1>7 DEF Next, Proceed, Quiet

(* EveryFeedIsCovered: whatever the other ingestions do, every item of a   *)
(* committed feed has a candidate with its key or a near one, so that a    *)
(* repeated ingestion adds none.                                           *)
THEOREM NoItemIsLeftOut == Spec => []EveryFeedIsCovered
<1>1. Init => Covered
    BY CoveredInit
<1>2. Covered /\ [Next]_vars => Covered'
    BY CoveredInductive
<1>3. Covered => EveryFeedIsCovered
    BY CoveredIsCovered
<1> QED
    BY <1>1, <1>2, <1>3, PTL DEF Spec

-----------------------------------------------------------------------------
(* Who made a candidate, and whom that ingestion met: a written row is     *)
(* locked and keeps its maker, ingestions that are live together have met, *)
(* the maker of a candidate that one did not load came while it was live,  *)
(* and the new candidates of one are no near duplicates of what it knows.  *)
Written(q, k) == session[q].written[k] # NoRow
Pending(q, k) == Written(q, k) /\ cands[k] = NoRow
Maker(q, k) == IF cands[k] = NoRow THEN q ELSE cands[k].by
Twins(j, k) == j # k /\ <<j, k>> \in Near /\ <<k, j>> \in Near

Exclusive == \A p, q \in Ingests, k \in Keys : Written(p, k) /\ Written(q, k) => p = q
MakersStay == \A q \in Ingests, k \in Keys : Written(q, k) => session[q].written[k].by = Maker(q, k)
LiveHaveMet == \A p, q \in Ingests : Live(p) /\ Live(q) /\ p # q => {p, q} \in met
Loaded ==
    \A q \in Ingests, j \in Keys :
        Live(q) /\ cands[j] # NoRow => Knows(q, j) \/ {cands[j].by, q} \in met
PendingApart ==
    \A q \in Ingests, j, k \in Keys : Twins(j, k) /\ Pending(q, k) =>
        ~ Pending(q, j) /\ (cands[j] # NoRow => {cands[j].by, q} \in met)
MadeApart ==
    \A j, k \in Keys :
        Twins(j, k) /\ cands[j] # NoRow /\ cands[k] # NoRow => {cands[j].by, cands[k].by} \in met

Apart == Exclusive /\ MakersStay /\ LiveHaveMet /\ Loaded /\ PendingApart /\ MadeApart

LEMMA ApartIsOverlap == Apart => TwinsComeFromOverlap
BY DEF Apart, MadeApart, Twins, TwinsComeFromOverlap

(* Forgetting rows, or knowing more, brings no twins.                      *)
LEMMA ApartFrame ==
    ASSUME Apart, NEW q \in Ingests, OthersStay(q), UNCHANGED <<cands, met>>,
           \A k \in Keys : session'[q].written[k] \in {NoRow, session[q].written[k]},
           Live(q)' => Live(q) /\ \A j \in Keys : Knows(q, j) => Knows(q, j)'
    PROVE  Apart'
<1>1. \A p \in Ingests : /\ Live(p)' => Live(p) /\ \A j \in Keys : Knows(p, j) => Knows(p, j)'
                         /\ \A k \in Keys : session'[p].written[k] \in {NoRow, session[p].written[k]}
    BY DEF OthersStay, Live, Knows
<1>2. \A p \in Ingests, k \in Keys :
          Written(p, k)' => Written(p, k) /\ session'[p].written[k] = session[p].written[k]
    BY <1>1 DEF Written
<1>3. Exclusive'
    BY <1>2 DEF Apart, Exclusive
<1>4. MakersStay'
    BY <1>2 DEF Apart, MakersStay, Maker
<1>5. LiveHaveMet' /\ Loaded'
    BY <1>1 DEF Apart, LiveHaveMet, Loaded
<1>6. PendingApart'
    BY <1>2 DEF Apart, PendingApart, Pending
<1>7. MadeApart'
    BY DEF Apart, MadeApart
<1> QED
    BY <1>3, <1>4, <1>5, <1>6, <1>7 DEF Apart

(* A row is written: of a candidate that is there or is made already, or   *)
(* of a new one whose near duplicates the ingestion does not know.         *)
LEMMA ApartWrite ==
    ASSUME Apart, Typed, NEW q \in Ingests, OthersStay(q), UNCHANGED <<cands, met>>,
           NEW k \in Keys, NEW row \in Cand, Writers(q, {k}) = {}, row.by = Maker(q, k),
           \A j \in Keys : session'[q].written[j] = IF j = k THEN row ELSE session[q].written[j],
           Live(q), \A j \in Keys : Knows(q, j) => Knows(q, j)',
           \/ Pending(q, k) \/ cands[k] # NoRow
           \/ \A j \in Keys : Twins(j, k) => ~ Knows(q, j)
    PROVE  Apart'
<1>1. \A p \in Ingests : p # q => session'[p] = session[p]
    BY DEF OthersStay
<1>2. \A p \in Ingests, j \in Keys :
          Written(p, j)' => \/ Written(p, j) /\ session'[p].written[j] = session[p].written[j]
                            \/ p = q /\ j = k /\ session'[p].written[j] = row
    BY <1>1 DEF Written
<1>3. \A p \in Ingests \ {q} : ~ Written(p, k)
    BY DEF Writers, Written
<1>4. Exclusive'
    BY <1>2, <1>3 DEF Apart, Exclusive
<1>5. MakersStay'
    BY <1>2 DEF Apart, MakersStay, Maker
<1>6. \A p \in Ingests : Live(p)' => Live(p)
    BY <1>1 DEF Live
<1>7. LiveHaveMet'
    BY <1>6 DEF Apart, LiveHaveMet
<1>8. Loaded'
    BY <1>1, <1>6 DEF Apart, Loaded, Knows
<1>9. \A p \in Ingests, j \in Keys : Pending(p, j)' => Pending(p, j) \/ (p = q /\ j = k)
    BY <1>2 DEF Pending
<1>10. \A j \in Keys : Pending(q, j) => Knows(q, j)
    BY DEF Pending, Written, Typed, Sound
<1>11. ASSUME ~ Pending(q, k), cands[k] = NoRow, NEW j \in Keys, Twins(j, k)
       PROVE  ~ Pending(q, j) /\ (cands[j] # NoRow => {cands[j].by, q} \in met)
    BY <1>10, <1>11 DEF Apart, Loaded
<1>12. PendingApart'
  <2> SUFFICES ASSUME NEW p \in Ingests, NEW i \in Keys, NEW j \in Keys, Twins(i, j), Pending(p, j)'
               PROVE  ~ Pending(p, i)' /\ (cands[i] # NoRow => {cands[i].by, p} \in met)
      BY DEF PendingApart, Twins
  <2>1. Twins(j, i) /\ i # j
      BY DEF Twins
  <2>2. CASE Pending(p, j)
    <3>1. ~ Pending(p, i) /\ (cands[i] # NoRow => {cands[i].by, p} \in met)
        BY <2>2 DEF Apart, PendingApart
    <3>2. ASSUME Pending(p, i)' PROVE FALSE
      <4>1. p = q /\ i = k /\ ~ Pending(q, k) /\ cands[k] = NoRow
          BY <1>9, <3>1, <3>2 DEF Pending
      <4> QED
          BY <1>11, <2>1, <2>2, <4>1
    <3> QED
        BY <3>1, <3>2
  <2>3. CASE ~ Pending(p, j)
    <3>1. p = q /\ j = k /\ cands[k] = NoRow
        BY <1>9, <2>3 DEF Pending
    <3>2. ~ Pending(p, i) /\ (cands[i] # NoRow => {cands[i].by, p} \in met)
        BY <1>11, <2>3, <3>1
    <3> QED
        BY <1>9, <2>1, <3>1, <3>2
  <2> QED
      BY <2>2, <2>3
<1>13. MadeApart'
    BY DEF Apart, MadeApart
<1> QED
    BY <1>4, <1>5, <1>7, <1>8, <1>12, <1>13 DEF Apart

LEMMA ApartCommit ==
    ASSUME Apart, Typed, NEW q \in Ingests, Commit(q)
    PROVE  Apart'
<1>1. (\A k \in Keys : cands'[k] = Row(q, k)) /\ met' = met /\ End(q, "committed") /\ TypeOK
    BY Committed DEF Typed
<1>2. OthersStay(q) /\ ~ Live(q)' /\ Live(q) /\ \A k \in Keys : ~ Written(q, k)'
    BY <1>1, Ended DEF Live, Written, Nothing, Commit
<1>3. \A k \in Keys : cands'[k] # NoRow =>
          \/ cands[k] # NoRow /\ cands'[k].by = cands[k].by
          \/ Pending(q, k) /\ cands'[k].by = q
    BY <1>1 DEF Row, Apart, MakersStay, Maker, Pending, Written
<1>4. \A k \in Keys : cands[k] # NoRow => cands'[k] # NoRow
    BY <1>1 DEF Row
<1>5. \A p \in Ingests : p # q => /\ session'[p] = session[p] /\ Live(p)' = Live(p)
                                  /\ \A k \in Keys : /\ Written(p, k)' = Written(p, k)
                                                     /\ Knows(p, k)' = Knows(p, k)
    BY <1>2 DEF OthersStay, Live, Written, Knows
<1>6. \A p \in Ingests, k \in Keys :
          Written(p, k)' => p # q /\ Written(p, k) /\ cands'[k] = cands[k]
    BY <1>1, <1>2, <1>5 DEF Apart, Exclusive, Row, Written
<1>7. Exclusive'
    BY <1>6 DEF Apart, Exclusive
<1>8. MakersStay'
    BY <1>5, <1>6 DEF Apart, MakersStay, Maker
<1>9. LiveHaveMet'
    BY <1>1, <1>2, <1>5 DEF Apart, LiveHaveMet
<1>10. \A p \in Ingests : p # q /\ Live(p) => {q, p} \in met
    BY <1>2 DEF Apart, LiveHaveMet
<1>11. Loaded'
    BY <1>1, <1>2, <1>3, <1>5, <1>10 DEF Apart, Loaded
<1>12. \A p \in Ingests, k \in Keys : Pending(p, k)' => p # q /\ Live(p) /\ Pending(p, k)
    BY <1>6 DEF Pending, Typed, Sound, Written
<1>13. PendingApart'
  <2> SUFFICES ASSUME NEW p \in Ingests, NEW i \in Keys, NEW j \in Keys, Twins(i, j), Pending(p, j)'
               PROVE  ~ Pending(p, i)' /\ (cands'[i] # NoRow => {cands'[i].by, p} \in met)
      BY <1>1 DEF PendingApart, Twins
  <2>1. p # q /\ Live(p) /\ Pending(p, j)
      BY <1>12
  <2>2. ~ Pending(p, i) /\ (cands[i] # NoRow => {cands[i].by, p} \in met)
      BY <2>1 DEF Apart, PendingApart
  <2> QED
      BY <1>3, <1>10, <1>12, <2>1, <2>2
<1>14. MadeApart'
  <2> SUFFICES ASSUME NEW j \in Keys, NEW k \in Keys, Twins(j, k), cands'[j] # NoRow, cands'[k] # NoRow
               PROVE  {cands'[j].by, cands'[k].by} \in met
      BY <1>1 DEF MadeApart, Twins
  <2>1. Twins(k, j)
      BY DEF Twins
  <2>2. CASE cands[j] # NoRow /\ cands[k] # NoRow
      BY <1>3, <2>2 DEF Apart, MadeApart, Pending
  <2>3. CASE cands[j] # NoRow /\ cands[k] = NoRow
      BY <1>3, <2>3 DEF Apart, PendingApart, Pending
  <2>4. CASE cands[j] = NoRow /\ cands[k] # NoRow
    <3>1. Pending(q, j) /\ cands'[j].by = q /\ cands'[k].by = cands[k].by
        BY <1>3, <2>4 DEF Pending
    <3>2. {cands[k].by, q} \in met
        BY <2>1, <2>4, <3>1 DEF Apart, PendingApart
    <3>3. {cands[k].by, q} = {q, cands[k].by}
        OBVIOUS
    <3> QED
        BY <3>1, <3>2, <3>3
  <2>5. CASE cands[j] = NoRow /\ cands[k] = NoRow
      BY <1>3, <2>5 DEF Apart, PendingApart
  <2> QED
      BY <2>2, <2>3, <2>4, <2>5
<1> QED
    BY <1>7, <1>8, <1>9, <1>11, <1>13, <1>14 DEF Apart

LEMMA ApartArrive ==
    ASSUME Apart, Typed, NEW q \in Ingests, Arrive(q)
    PROVE  Apart'
<1>1. /\ OthersStay(q) /\ UNCHANGED cands /\ met' = met \cup {{p, q} : p \in {p \in Ingests : Live(p)}}
      /\ session'[q].written = Nothing
      /\ \A k \in Keys : cands[k] # NoRow <=> Knows(q, k)'
    BY Arrived DEF Typed
<1>2. met \subseteq met' /\ \A p \in Ingests : Live(p) => {p, q} \in met' /\ {q, p} \in met'
  <2>1. \A p : {p, q} = {q, p}
      OBVIOUS
  <2> QED
      BY <1>1, <2>1
<1>3. \A p \in Ingests : p # q => /\ session'[p] = session[p] /\ Live(p)' = Live(p)
                                  /\ \A k \in Keys : /\ Written(p, k)' = Written(p, k)
                                                     /\ Knows(p, k)' = Knows(p, k)
    BY <1>1 DEF OthersStay, Live, Written, Knows
<1>4. \A k \in Keys : ~ Written(q, k)'
    BY <1>1 DEF Written, Nothing
<1>5. Exclusive'
    BY <1>3, <1>4 DEF Apart, Exclusive
<1>6. MakersStay'
    BY <1>1, <1>3, <1>4 DEF Apart, MakersStay, Maker
<1>7. LiveHaveMet'
    BY <1>2, <1>3 DEF Apart, LiveHaveMet
<1>8. Loaded'
    BY <1>1, <1>2, <1>3 DEF Apart, Loaded
<1>9. PendingApart'
    BY <1>1, <1>2, <1>3, <1>4 DEF Apart, PendingApart, Pending
<1>10. MadeApart'
    BY <1>1, <1>2 DEF Apart, MadeApart
<1> QED
    BY <1>5, <1>6, <1>7, <1>8, <1>9, <1>10 DEF Apart

LEMMA ApartInit == Init => Apart
<1> SUFFICES ASSUME Init PROVE Apart
    OBVIOUS
<1>1. \A q \in Ingests : ~ Live(q) /\ \A k \in Keys : ~ Written(q, k)
    BY DEF Init, Idle, Live, Written, Nothing
<1>2. \A k \in Keys : cands[k] = NoRow
    BY DEF Init, Nothing
<1> QED
    BY <1>1, <1>2 DEF Apart, Exclusive, MakersStay, LiveHaveMet, Loaded, PendingApart, MadeApart, Pending

LEMMA ApartInductive ==
    ASSUME Typed, Apart, [Next]_vars
    PROVE  Apart'
<1>0. TypeOK /\ \A q \in Ingests : Sound(q)
    BY DEF Typed
<1>1. ASSUME NEW q \in Ingests, LinkKnown(q) \/ LinkNew(q)
      PROVE  Apart'
  <2>1. PICK k \in Keys, a \in Cand, row \in Cand : Links(q, k, a, row)
      BY <1>0, <1>1, LinkCases
  <2>2. HasItem(q) /\ Link(q, k, a, row) /\ Sound(q) /\ session[q].pos > 0 /\ Live(q)
      BY <1>0, <2>1 DEF Links, Sound, HasItem, Live
  <2>3. OthersStay(q) /\ UNCHANGED <<cands, met>>
        /\ session'[q].known =
             IF Contains(session[q].known, k) THEN session[q].known ELSE Append(session[q].known, k)
      BY <1>0, <2>2, Linked
  <2>4. \A j \in Keys : session'[q].written[j] = IF j = k THEN row ELSE session[q].written[j]
      BY <1>0, <2>2, LinkRows
  <2>5. \A j \in Keys : Knows(q, j) => Knows(q, j)'
      BY <1>0, <2>3, KnownAfterLink
  <2>6. row.by = Maker(q, k)
      BY <2>1, CandFields DEF Links, Maker, Apart, MakersStay, Row, Written
  <2>7. \/ Pending(q, k) \/ cands[k] # NoRow
        \/ \A j \in Keys : Twins(j, k) => ~ Knows(q, j)
    <3>1. CASE k \in Matches(q) /\ Row(q, k) \in Cand
        BY <3>1, CandFields DEF Row, Pending, Written
    <3>2. CASE Matches(q) = {} /\ k = Item(q).key
        BY <1>0, <2>2, <3>2, WhatMatches DEF Twins
    <3> QED
        BY <2>1, <3>1, <3>2 DEF Links
  <2>8. Writers(q, {k}) = {}
      BY <2>1 DEF Links
  <2> QED
      BY <2>2, <2>3, <2>4, <2>5, <2>6, <2>7, <2>8, ApartWrite
<1>2. ASSUME NEW q \in Ingests,
             KeyConflict(q) \/ ObservationConflict(q) \/ DeadlockVictim(q) \/ Rollback(q)
      PROVE  Apart'
  <2>1. End(q, "rolledback") /\ UNCHANGED <<cands, met>>
      BY <1>2, Failed
  <2>2. OthersStay(q) /\ session'[q].written = Nothing /\ ~ Live(q)'
      BY <1>0, <2>1, Ended DEF Live
  <2>3. \A k \in Keys : session'[q].written[k] \in {NoRow, session[q].written[k]}
      BY <2>2 DEF Nothing
  <2> QED
      BY <2>1, <2>2, <2>3, ApartFrame
<1>3. ASSUME NEW q \in Ingests, FlushLast(q) \/ Count(q)
      PROVE  Apart'
  <2>1. /\ OthersStay(q) /\ UNCHANGED <<cands, met>> /\ Live(q)
        /\ session'[q].written = session[q].written /\ session'[q].known = session[q].known
      BY <1>0, <1>3, Flushed, Counted DEF Live
  <2>2. \A j \in Keys : Knows(q, j) => Knows(q, j)'
      BY <2>1 DEF Knows
  <2> QED
      BY <2>1, <2>2, ApartFrame
<1>4. ASSUME NEW q \in Ingests, WriteCount(q)
      PROVE  Apart'
  <2>1. /\ OthersStay(q) /\ UNCHANGED <<cands, met>> /\ Live(q) /\ session'[q].known = session[q].known
      BY <1>0, <1>4, CountWritten DEF Live
  <2>2. PICK k \in session[q].dirty :
           /\ Writers(q, {k}) = {} /\ Row(q, k) \in Cand /\ session[q].attr[k] \in Cand
           /\ session'[q].written = [session[q].written EXCEPT
                 ![k] = [Row(q, k) EXCEPT !.count = session[q].attr[k].count]]
      BY <1>0, <1>4, CountWritten
  <2> DEFINE row == [Row(q, k) EXCEPT !.count = session[q].attr[k].count]
  <2>3. row \in Cand /\ row.by = Row(q, k).by
      BY <2>2, CandFields, CountedIsACand
  <2> HIDE DEF row
  <2>4. k \in Keys /\ session[q].written \in [Keys -> Cand \cup {NoRow}]
      BY <1>0, Fields
  <2>5. \A j \in Keys : session'[q].written[j] = IF j = k THEN row ELSE session[q].written[j]
      BY <2>2, <2>4 DEF row
  <2>6. row.by = Maker(q, k) /\ (Pending(q, k) \/ cands[k] # NoRow)
      BY <2>2, <2>3, <2>4, CandFields DEF Maker, Apart, MakersStay, Row, Written, Pending
  <2>7. \A j \in Keys : Knows(q, j) => Knows(q, j)'
      BY <2>1 DEF Knows
  <2> QED
      BY <2>1, <2>2, <2>3, <2>4, <2>5, <2>6, <2>7, ApartWrite
<1>5. CASE UNCHANGED vars
    BY <1>5 DEF vars, Apart, Exclusive, MakersStay, LiveHaveMet, Loaded, PendingApart, MadeApart,
                Pending, Written, Maker, Live, Knows
<1> QED
    BY <1>1, <1>2, <1>3, <1>4, <1>5, ApartArrive, ApartCommit DEF Next, Proceed, Quiet

(* TwinsComeFromOverlap: two candidates that are near duplicates of each   *)
(* other were made by two ingestions that were live together.              *)
THEOREM OnlyOverlapMakesTwins == Spec => []TwinsComeFromOverlap
<1>1. Init => Apart
    BY ApartInit
<1>2. Typed /\ Apart /\ [Next]_vars => Apart'
    BY ApartInductive
<1>3. Apart => TwinsComeFromOverlap
    BY ApartIsOverlap
<1> QED
    BY <1>1, <1>2, <1>3, AlwaysTyped, PTL DEF Spec

-----------------------------------------------------------------------------
(* An ingestion that met no other works on rows nobody else changes: it    *)
(* knows all candidates, its objects are the rows it sees, the counts it   *)
(* has made are exact, and the last answer for each item it has linked is  *)
(* within the time its candidate was seen.                                 *)
Placed(q, n) ==
    LET item == session[q].feed[n]
        o == Found(q, item.id) IN
    /\ o # NoRow /\ Row(q, o.cand) # NoRow
    /\ Row(q, o.cand).first <= item.at /\ item.at <= Row(q, o.cand).last

Latest(q, n) ==
    /\ Linking(q, n)
    /\ \A m \in DOMAIN session[q].feed :
           m > n /\ Linking(q, m) => session[q].feed[m].id # session[q].feed[n].id

Fresh(q, k) ==
    /\ session[q].attr[k].first = Row(q, k).first /\ session[q].attr[k].last = Row(q, k).last
    /\ k \notin session[q].dirty => session[q].attr[k].count = Row(q, k).count

CountsMade(q) ==
    session[q].pc = "counting" =>
        \A m \in DOMAIN session[q].known : m < session[q].pos =>
            session[q].attr[session[q].known[m]].count = CountedObs(q, session[q].known[m])

ExactOf(q) ==
    /\ \A k \in Keys : cands[k] # NoRow => Knows(q, k)
    /\ \A k \in Keys : Knows(q, k) => Fresh(q, k)
    /\ CountsMade(q)
    /\ \A n \in DOMAIN session[q].feed : Latest(q, n) => Placed(q, n)

Lone == \A q \in Ingests : Live(q) /\ Alone(q) => ExactOf(q)

(* The item just linked is found as it was answered, the others as before. *)
LEMMA LinkFound ==
    ASSUME TypeOK, NEW q \in Ingests, Sound(q), HasItem(q),
           NEW k \in Keys, NEW a \in Cand, NEW row \in Cand, Link(q, k, a, row)
    PROVE  \A i \in Items :
               Found(q, i)' = IF i = Item(q).id THEN [cand |-> k, at |-> Item(q).at] ELSE Found(q, i)
<1> DEFINE id == Item(q).id
           old == Found(q, id)
           new == [cand |-> k, at |-> Item(q).at]
<1>1. /\ UNCHANGED obs /\ session'[q].noted = Noted(q)
      /\ session'[q].draft = [id |-> id, old |-> old, new |-> new]
    BY Linked
<1>2. id \in Items /\ new \in Obs /\ old \in Obs \cup {NoRow}
    BY CurrentItem, NotedRows DEF Sound, Obs
<1>3. session'[q].draft \in Change
    BY <1>1, <1>2 DEF Change
<1>4. Draft(q)' = {session'[q].draft} /\ session'[q].draft.id = id
      /\ session'[q].draft.old = old /\ session'[q].draft.new = new
    BY <1>1, <1>3, NoRowAssumption DEF Draft
<1> HIDE DEF id, old, new
<1>5. ASSUME NEW i \in Items
      PROVE  Noted(q)'[i] = IF i = id THEN new ELSE Noted(q)[i]
  <2>1. Noted(q)'[i] =
            IF \A d \in Draft(q)' : d.id # i THEN session'[q].noted[i]
            ELSE IF session'[q].draft.old = NoRow THEN session'[q].draft.new
            ELSE [cand |-> Column(session'[q].draft.old.cand, session'[q].draft.new.cand, ObsRow(q, i)'.cand),
                  at |-> Column(session'[q].draft.old.at, session'[q].draft.new.at, ObsRow(q, i)'.at)]
      BY DEF Noted
  <2>2. CASE i # id
    <3>1. \A d \in Draft(q)' : d.id # i
        BY <1>4, <2>2
    <3> QED
        BY <1>1, <2>1, <2>2, <3>1
  <2>3. CASE i = id
    <3>1. ~ \A d \in Draft(q)' : d.id # i
        BY <1>4, <2>3
    <3>2. ObsRow(q, i)' = old
      <4>1. (IF session'[q].noted[i] # NoRow THEN session'[q].noted[i] ELSE obs'[i]) = old
          BY <1>1, <2>3 DEF Found, old
      <4> QED
          BY <4>1 DEF ObsRow
    <3>3. Noted(q)'[i] =
            IF old = NoRow THEN new
            ELSE [cand |-> Column(old.cand, new.cand, old.cand), at |-> Column(old.at, new.at, old.at)]
        BY <1>4, <2>1, <3>1, <3>2
    <3>4. Column(old.cand, new.cand, old.cand) = new.cand /\ Column(old.at, new.at, old.at) = new.at
        BY DEF Column
    <3>5. new = [cand |-> new.cand, at |-> new.at]
        BY DEF new
    <3> QED
        BY <2>3, <3>3, <3>4, <3>5
  <2> QED
      BY <2>2, <2>3
<1>6. new # NoRow
    BY <1>2, NoRowAssumption
<1>7. \A i \in Items : Found(q, i)' = IF i = id THEN new ELSE Found(q, i)
  <2>1. \A i \in Items : Found(q, i)' = IF Noted(q)'[i] # NoRow THEN Noted(q)'[i] ELSE obs[i]
      BY <1>1 DEF Found
  <2> QED
      BY <1>5, <1>6, <2>1 DEF Found
<1> QED
    BY <1>7 DEF id, new

(* The row of a linked item has its time within, and all it had before.    *)
LEMMA LinkedRowFits ==
    ASSUME TypeOK, NEW q \in Ingests, Sound(q), NEW k \in Keys, NEW a \in Cand, NEW row \in Cand,
           Links(q, k, a, row), \A j \in Keys : Knows(q, j) => Fresh(q, j)
    PROVE  /\ a.first = row.first /\ a.last = row.last /\ a.count = row.count
           /\ row.first <= Item(q).at /\ Item(q).at <= row.last
           /\ Row(q, k) # NoRow => row.first <= Row(q, k).first /\ Row(q, k).last <= row.last
<1>1. HasItem(q) /\ session[q].pos > 0 /\ session[q].dirty = {}
    BY DEF Links, HasItem, Sound
<1>2. Item(q).at \in Nat /\ Item(q).key \in Keys
    BY <1>1, CurrentItem, TimesAssumption
<1>3. CASE /\ k \in Matches(q) /\ Row(q, k) \in Cand
           /\ a = Widened(session[q].attr[k], Item(q).at)
           /\ row = Merged(Row(q, k), session[q].attr[k], a)
  <2>1. Knows(q, k)
      BY <1>1, <1>3, WhatMatches
  <2> DEFINE old == session[q].attr[k]
             was == Row(q, k)
  <2>2. old \in Cand /\ was \in Cand
      BY <1>3, <2>1, Fields DEF Sound
  <2>3. old.first = was.first /\ old.last = was.last /\ old.count = was.count
      BY <1>1, <2>1 DEF Fresh
  <2>4. was.first \in Nat /\ was.last \in Nat
      BY <2>2, CandFields, TimesAssumption
  <2>5. /\ a.first = (IF Item(q).at < old.first THEN Item(q).at ELSE old.first)
        /\ a.last = (IF Item(q).at > old.last THEN Item(q).at ELSE old.last)
        /\ a.count = old.count
      BY <1>3, <2>2 DEF Widened, Cand
  <2>6. /\ row.first = Column(old.first, a.first, was.first)
        /\ row.last = Column(old.last, a.last, was.last)
        /\ row.count = was.count
      BY <1>3, <2>2 DEF Merged, Cand
  <2> HIDE DEF old, was
  <2>7. row.first = a.first /\ row.last = a.last /\ row.count = a.count
      BY <2>3, <2>5, <2>6 DEF Column
  <2>8. /\ row.first <= Item(q).at /\ Item(q).at <= row.last
        /\ row.first <= was.first /\ was.last <= row.last
      BY <1>2, <2>3, <2>4, <2>5, <2>7
  <2> QED
      BY <2>7, <2>8 DEF was
<1>4. CASE /\ Matches(q) = {} /\ k = Item(q).key /\ cands[k] = NoRow /\ a = row
           /\ row = [first |-> Item(q).at, last |-> Item(q).at, count |-> 0, by |-> q]
  <2>1. ~ Knows(q, k)
      BY <1>1, <1>4, WhatMatches
  <2>2. Row(q, k) = NoRow
      BY <1>4, <2>1 DEF Row, Sound
  <2> QED
      BY <1>2, <1>4, <2>2
<1> QED
    BY <1>3, <1>4 DEF Links

LEMMA ExactArrive ==
    ASSUME TypeOK, NEW q \in Ingests, Sound(q), Arrive(q), TypeOK'
    PROVE  ExactOf(q)'
<1>1. /\ UNCHANGED <<cands, obs>> /\ session'[q].pc = "linking" /\ session'[q].pos = 1
      /\ session'[q].attr = cands /\ session'[q].written = Nothing
      /\ \A k \in Keys : cands[k] # NoRow <=> Knows(q, k)'
    BY Arrived
<1>2. session'[q].feed \in Feeds \cup {<< >>}
    BY DEF TypeOK, Session
<1>3. \A n \in DOMAIN session'[q].feed : ~ Linking(q, n)'
    BY <1>1, <1>2, FeedSeqs DEF Linking
<1>4. \A k \in Keys : session'[q].attr[k] = Row(q, k)'
    BY <1>1 DEF Row, Nothing
<1>5. \A k \in Keys : Fresh(q, k)'
    BY <1>4 DEF Fresh
<1>6. CountsMade(q)'
    BY <1>1 DEF CountsMade
<1> QED
    BY <1>1, <1>3, <1>5, <1>6 DEF ExactOf, Latest

LEMMA ExactLink ==
    ASSUME TypeOK, NEW q \in Ingests, Sound(q), ExactOf(q), LinkKnown(q) \/ LinkNew(q)
    PROVE  ExactOf(q)'
<1>1. PICK k \in Keys, a \in Cand, row \in Cand : Links(q, k, a, row)
    BY LinkCases
<1>2. HasItem(q) /\ Link(q, k, a, row) /\ session[q].pos > 0 /\ session[q].pc = "linking"
      /\ session[q].dirty = {} /\ row # NoRow
    BY <1>1, CandFields DEF Links, HasItem, Sound
<1>3. /\ UNCHANGED <<cands, obs>>
      /\ session'[q].pc = session[q].pc /\ session'[q].pos = session[q].pos + 1
      /\ session'[q].feed = session[q].feed /\ session'[q].dirty = session[q].dirty
      /\ \A j \in Keys :
           /\ session'[q].attr[j] = IF j = k THEN a ELSE session[q].attr[j]
           /\ session'[q].written[j] = IF j = k THEN row ELSE session[q].written[j]
      /\ session'[q].draft = [id |-> Item(q).id, old |-> Found(q, Item(q).id),
                              new |-> [cand |-> k, at |-> Item(q).at]]
      /\ session'[q].known =
           IF Contains(session[q].known, k) THEN session[q].known ELSE Append(session[q].known, k)
    BY <1>2, Linked
<1>4. \A j \in Keys : Row(q, j)' = IF j = k THEN row ELSE Row(q, j)
    BY <1>2, LinkRows
<1>5. \A j \in Keys : Knows(q, j)' <=> Knows(q, j) \/ j = k
    BY <1>3, KnownAfterLink
<1>6. /\ a.first = row.first /\ a.last = row.last /\ a.count = row.count
      /\ row.first <= Item(q).at /\ Item(q).at <= row.last
      /\ Row(q, k) # NoRow => row.first <= Row(q, k).first /\ Row(q, k).last <= row.last
    BY <1>1, LinkedRowFits DEF ExactOf
<1>7. \A j \in Keys : cands'[j] # NoRow => Knows(q, j)'
    BY <1>3, <1>5 DEF ExactOf
<1>8. \A j \in Keys : Knows(q, j)' => Fresh(q, j)'
    BY <1>3, <1>4, <1>5, <1>6 DEF ExactOf, Fresh
<1>9. CountsMade(q)'
    BY <1>2, <1>3 DEF CountsMade
<1>10. \A i \in Items :
           Found(q, i)' = IF i = Item(q).id THEN [cand |-> k, at |-> Item(q).at] ELSE Found(q, i)
    BY <1>2, LinkFound
<1>11. ASSUME NEW n \in DOMAIN session[q].feed, Latest(q, n)'
       PROVE  Placed(q, n)'
  <2>0. session[q].feed[n].id \in Items /\ session[q].feed[n].at \in Nat
      BY FeedItems, TimesAssumption
  <2> PICK id \in Items, at \in Nat : id = session[q].feed[n].id /\ at = session[q].feed[n].at
      BY <2>0
  <2>1. n \in Nat /\ session[q].pos \in Nat /\ session[q].pos \in DOMAIN session[q].feed
      BY <1>2, FeedSeqs, Fields, CurrentItem
  <2>2. Item(q) = session[q].feed[session[q].pos]
      BY DEF Item
  <2>3. \A m \in DOMAIN session[q].feed : Linking(q, m)' <=> m < session[q].pos + 1
      BY <1>2, <1>3 DEF Linking
  <2>4. n < session[q].pos + 1
      BY <1>11, <2>3 DEF Latest
  <2>5. CASE n = session[q].pos
    <3>1. Found(q, id)' = [cand |-> k, at |-> Item(q).at]
        BY <1>10, <2>2, <2>5
    <3>2. Found(q, id)' # NoRow /\ Found(q, id)'.cand = k
      <4>1. [cand |-> k, at |-> Item(q).at] \in Obs
          BY <1>2, CurrentItem DEF Obs
      <4> QED
          BY <3>1, <4>1, NoRowAssumption
    <3>3. Row(q, k)' = row /\ at = Item(q).at
        BY <1>4, <2>2, <2>5
    <3> QED
        BY <1>2, <1>3, <1>6, <3>2, <3>3 DEF Placed
  <2>6. CASE n < session[q].pos
    <3>1. id # Item(q).id
        BY <1>3, <1>11, <2>1, <2>2, <2>3, <2>6 DEF Latest
    <3>2. Found(q, id)' = Found(q, id)
        BY <1>10, <2>2, <3>1
    <3>3. Latest(q, n)
      <4>1. \A m \in DOMAIN session[q].feed : Linking(q, m) => Linking(q, m)'
          BY <1>2, <2>1, <2>3, FeedSeqs, Fields DEF Linking
      <4> QED
          BY <1>2, <1>3, <1>11, <2>6, <4>1 DEF Latest, Linking
    <3>4. Placed(q, n)
        BY <3>3 DEF ExactOf
    <3>5. Found(q, id) # NoRow /\ Found(q, id).cand \in Keys
      <4>1. Found(q, id) # NoRow
          BY <3>4 DEF Placed
      <4> QED
          BY <4>1, NotedRows DEF Obs
    <3> PICK c \in Keys : c = Found(q, id).cand
        BY <3>5
    <3>6. /\ Found(q, id) # NoRow /\ Row(q, c) # NoRow
          /\ Row(q, c).first <= at /\ at <= Row(q, c).last
        BY <3>4 DEF Placed
    <3>7. Row(q, c) \in Cand
        BY <3>6, Rows
    <3>8. Row(q, c).first \in Nat /\ Row(q, c).last \in Nat /\ row.first \in Nat /\ row.last \in Nat
        BY <3>7, CandFields, TimesAssumption
    <3>9. Row(q, c)' # NoRow /\ Row(q, c)'.first <= at /\ at <= Row(q, c)'.last
      <4>1. CASE c = k
          BY <1>2, <1>4, <1>6, <3>6, <3>8, <4>1
      <4>2. CASE c # k
          BY <1>4, <3>6, <4>2
      <4> QED
          BY <4>1, <4>2
    <3> QED
        BY <1>3, <3>2, <3>5, <3>6, <3>9 DEF Placed
  <2> QED
      BY <2>1, <2>4, <2>5, <2>6
<1> QED
    BY <1>3, <1>7, <1>8, <1>9, <1>11 DEF ExactOf

LEMMA ExactFlush ==
    ASSUME TypeOK, NEW q \in Ingests, Sound(q), ExactOf(q), FlushLast(q)
    PROVE  ExactOf(q)'
<1>1. /\ UNCHANGED <<cands, obs>> /\ session[q].pc = "linking" /\ session'[q].pc = "counting"
      /\ session'[q].pos = 1 /\ session'[q].feed = session[q].feed
      /\ session'[q].known = session[q].known /\ session'[q].attr = session[q].attr
      /\ session'[q].written = session[q].written /\ session'[q].noted = Noted(q)
      /\ session'[q].draft = NoRow /\ session'[q].dirty = session[q].dirty
    BY Flushed
<1>2. \A k : Row(q, k)' = Row(q, k) /\ Knows(q, k)' = Knows(q, k)
    BY <1>1 DEF Row, Knows
<1>3. \A k : Fresh(q, k)' = Fresh(q, k)
    BY <1>1, <1>2 DEF Fresh
<1>4. CountsMade(q)'
  <2>1. session'[q].known \in Seq(Keys)
      BY <1>1, Fields
  <2>2. \A m \in DOMAIN session'[q].known : ~ (m < 1)
      BY <2>1, LenProperties
  <2> QED
      BY <1>1, <2>2 DEF CountsMade
<1>5. \A i \in Items : Found(q, i)' = Found(q, i)
  <2>1. \A i \in Items : Noted(q)'[i] = Noted(q)[i]
      BY <1>1 DEF Noted, Draft
  <2> QED
      BY <1>1, <2>1 DEF Found
<1>6. ASSUME NEW n \in DOMAIN session[q].feed, Latest(q, n)'
      PROVE  Placed(q, n)'
  <2>1. \A m \in DOMAIN session[q].feed : Linking(q, m) /\ Linking(q, m)'
      BY <1>1, FeedSeqs, Fields DEF FlushLast, HasItem, Linking
  <2>2. Latest(q, n)
      BY <1>1, <1>6, <2>1 DEF Latest
  <2>3. Placed(q, n)
      BY <2>2 DEF ExactOf
  <2>4. session[q].feed[n].id \in Items
      BY FeedItems
  <2> DEFINE id == session[q].feed[n].id
  <2>5. Found(q, id)' = Found(q, id) /\ session'[q].feed = session[q].feed
      BY <1>1, <1>5, <2>4
  <2> QED
      BY <1>2, <2>3, <2>5 DEF Placed
<1> QED
    BY <1>1, <1>2, <1>3, <1>4, <1>6 DEF ExactOf

(* Counting and writing a count leave all but the counts as they were.     *)
LEMMA ExactPlaces ==
    ASSUME TypeOK, NEW q \in Ingests, ExactOf(q), UNCHANGED <<cands, obs>>,
           session[q].pc = "counting", session'[q].pc = "counting",
           session'[q].feed = session[q].feed, session'[q].noted = session[q].noted,
           session'[q].draft = session[q].draft, session[q].draft = NoRow,
           \A k \in Keys : Row(q, k) # NoRow =>
               /\ Row(q, k)' # NoRow /\ Row(q, k)'.first = Row(q, k).first
               /\ Row(q, k)'.last = Row(q, k).last
    PROVE  \A n \in DOMAIN session'[q].feed : Latest(q, n)' => Placed(q, n)'
<1>1. \A i : Found(q, i)' = Found(q, i)
  <2>1. Noted(q)' = Noted(q)
      BY DEF Noted, Draft
  <2> QED
      BY <2>1 DEF Found
<1>2. \A i \in Items : Found(q, i) = ObsRow(q, i)
    BY DEF Found, ObsRow, Noted, Draft
<1>3. ASSUME NEW n \in DOMAIN session[q].feed, Latest(q, n)'
      PROVE  Placed(q, n)'
  <2>1. Latest(q, n)
      BY <1>3 DEF Latest, Linking
  <2>2. Placed(q, n)
      BY <2>1 DEF ExactOf
  <2> DEFINE id == session[q].feed[n].id
             c == Found(q, id).cand
  <2>3. c \in Keys
      BY <1>2, <2>2, FeedItems, Rows DEF Placed, Obs
  <2>4. Found(q, id)' = Found(q, id)
      BY <1>1
  <2> QED
      BY <2>2, <2>3, <2>4 DEF Placed
<1> QED
    BY <1>3

LEMMA ExactCount ==
    ASSUME TypeOK, NEW q \in Ingests, Sound(q), ExactOf(q), Count(q)
    PROVE  ExactOf(q)'
<1>1. /\ UNCHANGED <<cands, obs>> /\ session[q].pc = "counting" /\ session'[q].pc = "counting"
      /\ session'[q].feed = session[q].feed /\ session'[q].known = session[q].known
      /\ session'[q].written = session[q].written /\ session'[q].noted = session[q].noted
      /\ session'[q].draft = session[q].draft /\ session'[q].pos = session[q].pos + 1
      /\ session[q].pos \in DOMAIN session[q].known /\ session[q].dirty = {}
    BY Counted
<1>2. PICK k \in Keys : /\ k = session[q].known[session[q].pos] /\ Knows(q, k)
                        /\ session'[q].attr = [session[q].attr EXCEPT
                              ![k] = [session[q].attr[k] EXCEPT !.count = CountedObs(q, k)]]
                        /\ session'[q].dirty =
                              IF session[q].attr[k].count = CountedObs(q, k) THEN {} ELSE {k}
    BY Counted
<1> DEFINE new == [session[q].attr[k] EXCEPT !.count = CountedObs(q, k)]
           old == session[q].attr[k]
<1>3. session[q].attr \in [Keys -> Cand \cup {NoRow}] /\ old \in Cand
  <2>1. session[q].attr \in [Keys -> Cand \cup {NoRow}]
      BY Fields
  <2>2. old # NoRow
      BY <1>2 DEF Sound
  <2> QED
      BY <2>1, <2>2
<1>4. new.first = old.first /\ new.last = old.last /\ new.count = CountedObs(q, k)
    BY <1>3 DEF Cand
<1> HIDE DEF new
<1>5. \A j \in Keys : session'[q].attr[j] = IF j = k THEN new ELSE session[q].attr[j]
  <2>1. session'[q].attr = [session[q].attr EXCEPT ![k] = new]
      BY <1>2 DEF new
  <2>2. DOMAIN session[q].attr = Keys
      BY <1>3
  <2> QED
      BY <2>1, <2>2
<1> HIDE DEF old
<1>6. \A j : Row(q, j)' = Row(q, j) /\ Knows(q, j)' = Knows(q, j) /\ CountedObs(q, j)' = CountedObs(q, j)
  <2>1. \A i : ObsRow(q, i)' = ObsRow(q, i)
      BY <1>1 DEF ObsRow
  <2>2. \A j : Row(q, j)' = Row(q, j) /\ Knows(q, j)' = Knows(q, j)
      BY <1>1 DEF Row, Knows
  <2>3. \A j : CountedObs(q, j)' = CountedObs(q, j)
      BY <2>1 DEF CountedObs
  <2> QED
      BY <2>2, <2>3
<1>7. \A j \in Keys : Knows(q, j)' => Fresh(q, j)'
  <2> SUFFICES ASSUME NEW j \in Keys, Knows(q, j) PROVE Fresh(q, j)'
      BY <1>6
  <2>1. Fresh(q, j) /\ j \notin session[q].dirty
      BY <1>1 DEF ExactOf
  <2> QED
      BY <1>2, <1>4, <1>5, <1>6, <2>1 DEF Fresh, old
<1>8. CountsMade(q)'
  <2> SUFFICES ASSUME NEW m \in DOMAIN session[q].known, m < session[q].pos + 1
               PROVE  LET j == session[q].known[m] IN session'[q].attr[j].count = CountedObs(q, j)
      BY <1>1, <1>6 DEF CountsMade
  <2>1. session[q].known[m] \in Keys
      BY KnownKeys
  <2>2. m = session[q].pos \/ m < session[q].pos
    <3>1. m \in Nat /\ session[q].pos \in Nat
        BY Fields, LenProperties
    <3> QED
        BY <3>1
  <2> QED
      BY <1>1, <1>2, <1>4, <1>5, <2>1, <2>2 DEF ExactOf, CountsMade
<1>9. session[q].draft = NoRow
    BY <1>1 DEF Sound
<1>10. \A n \in DOMAIN session'[q].feed : Latest(q, n)' => Placed(q, n)'
    BY <1>1, <1>6, <1>9, ExactPlaces
<1> QED
    BY <1>1, <1>6, <1>7, <1>8, <1>10 DEF ExactOf

LEMMA ExactWrite ==
    ASSUME TypeOK, NEW q \in Ingests, Sound(q), ExactOf(q), WriteCount(q)
    PROVE  ExactOf(q)'
<1>1. /\ UNCHANGED <<cands, obs>> /\ session[q].pc = "counting" /\ session'[q].pc = "counting"
      /\ session'[q].feed = session[q].feed /\ session'[q].known = session[q].known
      /\ session'[q].attr = session[q].attr /\ session'[q].noted = session[q].noted
      /\ session'[q].draft = session[q].draft /\ session'[q].pos = session[q].pos
      /\ session'[q].dirty = {}
    BY CountWritten
<1>2. PICK k \in session[q].dirty :
         /\ Row(q, k) \in Cand /\ session[q].attr[k] \in Cand
         /\ session'[q].written = [session[q].written EXCEPT
               ![k] = [Row(q, k) EXCEPT !.count = session[q].attr[k].count]]
    BY CountWritten
<1> DEFINE row == [Row(q, k) EXCEPT !.count = session[q].attr[k].count]
<1>3. row \in Cand /\ row.first = Row(q, k).first /\ row.last = Row(q, k).last
      /\ row.count = session[q].attr[k].count
  <2>1. row \in Cand
      BY <1>2, CandFields, CountedIsACand
  <2> QED
      BY <1>2, <2>1 DEF Cand
<1>4. k \in Keys /\ session[q].written \in [Keys -> Cand \cup {NoRow}]
    BY Fields
<1> HIDE DEF row
<1>5. \A j \in Keys : session'[q].written[j] = IF j = k THEN row ELSE session[q].written[j]
    BY <1>2, <1>4 DEF row
<1>6. \A j \in Keys : Row(q, j)' = IF j = k THEN row ELSE Row(q, j)
    BY <1>1, <1>3, <1>5, CandFields DEF Row
<1>7. \A j : Knows(q, j)' = Knows(q, j) /\ CountedObs(q, j)' = CountedObs(q, j)
    BY <1>1 DEF Knows, CountedObs, ObsRow
<1>8. session[q].dirty = {k}
    BY DEF Sound
<1>9. \A j \in Keys : Knows(q, j)' => Fresh(q, j)'
    BY <1>1, <1>3, <1>6, <1>7, <1>8 DEF Fresh, ExactOf
<1>10. CountsMade(q)'
    BY <1>1, <1>7 DEF ExactOf, CountsMade
<1>11. session[q].draft = NoRow
    BY <1>1 DEF Sound
<1>12. \A n \in DOMAIN session'[q].feed : Latest(q, n)' => Placed(q, n)'
    BY <1>1, <1>2, <1>3, <1>4, <1>6, <1>11, CandFields, ExactPlaces
<1> QED
    BY <1>1, <1>7, <1>9, <1>10, <1>12 DEF ExactOf

LEMMA ExactFrame ==
    ASSUME NEW p \in Ingests, session'[p] = session[p], UNCHANGED <<cands, obs>>, ExactOf(p)
    PROVE  ExactOf(p)'
<1>1. \A k : Knows(p, k)' = Knows(p, k) /\ Row(p, k)' = Row(p, k) /\ CountedObs(p, k)' = CountedObs(p, k)
    BY DEF Knows, Row, CountedObs, ObsRow
<1>2. \A i : Found(p, i)' = Found(p, i)
  <2>1. Noted(p)' = Noted(p)
      BY DEF Noted, Draft, ObsRow
  <2> QED
      BY <2>1 DEF Found
<1>3. \A n : Latest(p, n)' = Latest(p, n)
    BY DEF Latest, Linking
<1>4. \A n : Placed(p, n) => Placed(p, n)'
    BY <1>1, <1>2 DEF Placed
<1>5. \A k \in Keys : Fresh(p, k) => Fresh(p, k)'
    BY <1>1 DEF Fresh
<1>6. CountsMade(p) => CountsMade(p)'
    BY <1>1 DEF CountsMade
<1>7. \A k \in Keys : cands'[k] # NoRow => Knows(p, k)'
    BY <1>1 DEF ExactOf
<1>8. \A k \in Keys : Knows(p, k)' => Fresh(p, k)'
    BY <1>1, <1>5 DEF ExactOf
<1>9. \A n \in DOMAIN session'[p].feed : Latest(p, n)' => Placed(p, n)'
    BY <1>3, <1>4 DEF ExactOf
<1> QED
    BY <1>6, <1>7, <1>8, <1>9 DEF ExactOf

(* An ingestion that is live together with another has met it.             *)
LEMMA AloneIsAlone ==
    ASSUME Apart, NEW p \in Ingests, NEW q \in Ingests, p # q, Live(p), Live(q)
    PROVE  ~ Alone(p)
<1>1. {q, p} \in met
    BY DEF Apart, LiveHaveMet
<1> QED
    BY <1>1 DEF Alone

(* A step of another ingestion.                                            *)
LEMMA LoneOthers ==
    ASSUME Lone, NEW q \in Ingests, OthersStay(q), UNCHANGED <<cands, obs>>, met \subseteq met',
           (Live(q) /\ Alone(q) => ExactOf(q))'
    PROVE  Lone'
<1>1. ASSUME NEW p \in Ingests, p # q, Live(p)', Alone(p)'
      PROVE  ExactOf(p)'
  <2>1. session'[p] = session[p] /\ Live(p)
      BY <1>1 DEF OthersStay, Live
  <2>2. Alone(p)
      BY <1>1 DEF Alone
  <2> QED
      BY <2>1, <2>2, ExactFrame DEF Lone
<1> QED
    BY <1>1 DEF Lone

LEMMA LoneInductive ==
    ASSUME Typed, Apart, Lone, [Next]_vars
    PROVE  Lone'
<1>0. TypeOK /\ TypeOK' /\ \A q \in Ingests : Sound(q)
    BY TypedInductive DEF Typed
<1>1. ASSUME NEW q \in Ingests, Arrive(q)
      PROVE  Lone'
  <2>1. /\ OthersStay(q) /\ UNCHANGED <<cands, obs>>
        /\ met' = met \cup {{p, q} : p \in {p \in Ingests : Live(p)}}
      BY <1>0, <1>1, Arrived
  <2>2. ExactOf(q)'
      BY <1>0, <1>1, ExactArrive
  <2> QED
      BY <2>1, <2>2, LoneOthers
<1>2. ASSUME NEW q \in Ingests, LinkKnown(q) \/ LinkNew(q) \/ FlushLast(q) \/ Count(q) \/ WriteCount(q)
      PROVE  Lone'
  <2>1. OthersStay(q) /\ UNCHANGED <<cands, obs, met>> /\ Live(q)
    <3>1. CASE LinkKnown(q) \/ LinkNew(q)
      <4>1. PICK k \in Keys, a \in Cand, row \in Cand : HasItem(q) /\ Link(q, k, a, row)
          BY <1>0, <3>1, LinkCases DEF Links
      <4> QED
          BY <1>0, <4>1, Linked DEF HasItem, Live
    <3>2. CASE FlushLast(q) \/ Count(q) \/ WriteCount(q)
        BY <1>0, <3>2, Flushed, Counted, CountWritten DEF Live
    <3> QED
        BY <1>2, <3>1, <3>2
  <2>2. Alone(q)' => Alone(q)
      BY <2>1 DEF Alone
  <2>3. ExactOf(q) => ExactOf(q)'
      BY <1>0, <1>2, ExactLink, ExactFlush, ExactCount, ExactWrite
  <2>4. (Live(q) /\ Alone(q) => ExactOf(q))'
      BY <2>1, <2>2, <2>3 DEF Lone
  <2> QED
      BY <2>1, <2>4, LoneOthers
<1>3. ASSUME NEW q \in Ingests,
             KeyConflict(q) \/ ObservationConflict(q) \/ DeadlockVictim(q) \/ Rollback(q)
      PROVE  Lone'
  <2>1. End(q, "rolledback") /\ UNCHANGED <<cands, obs, met>>
      BY <1>3, Failed
  <2>2. OthersStay(q) /\ ~ Live(q)'
      BY <1>0, <2>1, Ended DEF Live
  <2> QED
      BY <2>1, <2>2, LoneOthers
<1>4. ASSUME NEW q \in Ingests, Commit(q)
      PROVE  Lone'
  <2>1. End(q, "committed") /\ met' = met /\ Live(q)
      BY <1>0, <1>4, Committed DEF Commit, Live
  <2>2. OthersStay(q) /\ ~ Live(q)'
      BY <1>0, <2>1, Ended DEF Live
  <2>3. ASSUME NEW p \in Ingests, Live(p)'
        PROVE  ~ Alone(p)'
    <3>1. p # q /\ Live(p)
        BY <2>2, <2>3 DEF OthersStay, Live
    <3>2. ~ Alone(p)
        BY <2>1, <3>1, AloneIsAlone
    <3> QED
        BY <2>1, <3>2 DEF Alone
  <2> QED
      BY <2>3 DEF Lone
<1>5. CASE UNCHANGED vars
  <2>1. \A p \in Ingests : /\ session'[p] = session[p] /\ (Live(p)' <=> Live(p))
                           /\ (Alone(p)' <=> Alone(p))
      BY <1>5 DEF vars, Live, Alone
  <2>2. UNCHANGED <<cands, obs>>
      BY <1>5 DEF vars
  <2> QED
      BY <2>1, <2>2, ExactFrame DEF Lone
<1> QED
    BY <1>1, <1>2, <1>3, <1>4, <1>5 DEF Next, Proceed, Quiet

(* Only its own commit makes an ingestion committed.                       *)
LEMMA OnlyCommitCommits ==
    ASSUME Typed, [Next]_vars, NEW q \in Ingests, Live(q), session'[q].pc = "committed"
    PROVE  Commit(q)
<1>0. TypeOK /\ \A p \in Ingests : Sound(p)
    BY DEF Typed
<1>1. session'[q] # session[q] /\ session[q].pc \in {"linking", "counting"}
    BY DEF Live
<1>2. ~ UNCHANGED vars
    BY <1>1 DEF vars
<1>3. ASSUME NEW p \in Ingests, Arrive(p) \/ Proceed(p) \/ Rollback(p)
      PROVE  Commit(q)
  <2>1. CASE Arrive(p)
      BY <1>0, <1>1, <2>1, Arrived DEF OthersStay
  <2>2. CASE LinkKnown(p) \/ LinkNew(p)
    <3>1. PICK k \in Keys, a \in Cand, row \in Cand : HasItem(p) /\ Link(p, k, a, row)
        BY <1>0, <2>2, LinkCases DEF Links
    <3> QED
        BY <1>0, <1>1, <3>1, Linked DEF OthersStay
  <2>3. CASE KeyConflict(p) \/ ObservationConflict(p) \/ DeadlockVictim(p) \/ Rollback(p)
    <3>1. OthersStay(p) /\ session'[p].pc = "rolledback"
        BY <1>0, <2>3, Failed, Ended
    <3> QED
        BY <1>1, <3>1 DEF OthersStay
  <2>4. CASE FlushLast(p) \/ Count(p) \/ WriteCount(p)
    <3>1. OthersStay(p) /\ session'[p].pc = "counting"
        BY <1>0, <2>4, Flushed, Counted, CountWritten
    <3> QED
        BY <1>1, <3>1 DEF OthersStay
  <2>5. CASE Commit(p)
    <3>1. OthersStay(p)
        BY <1>0, <2>5, Committed, Ended
    <3> QED
        BY <1>1, <2>5, <3>1 DEF OthersStay
  <2> QED
      BY <1>3, <2>1, <2>2, <2>3, <2>4, <2>5 DEF Proceed
<1> QED
    BY <1>2, <1>3 DEF Next, Quiet

LoneCommitIsExact ==
    \A q \in Ingests : Live(q) /\ session'[q].pc = "committed" /\ Alone(q) =>
        /\ \A k \in Keys : cands'[k] # NoRow =>
              cands'[k].count = Cardinality({i \in Items : obs'[i] # NoRow /\ obs'[i].cand = k})
        /\ \A n \in DOMAIN session[q].feed : IsLast(session[q].feed, n) =>
              LET item == session[q].feed[n]
                  cand == cands'[obs'[item.id].cand] IN
              cand.first <= item.at /\ item.at <= cand.last

LEMMA LoneCommit ==
    ASSUME Typed, Lone, [Next]_vars
    PROVE  LoneCommitIsExact
<1> SUFFICES ASSUME NEW q \in Ingests, Live(q), session'[q].pc = "committed", Alone(q)
             PROVE  /\ \A k \in Keys : cands'[k] # NoRow => cands'[k].count =
                           Cardinality({i \in Items : obs'[i] # NoRow /\ obs'[i].cand = k})
                    /\ \A n \in DOMAIN session[q].feed : IsLast(session[q].feed, n) =>
                          LET item == session[q].feed[n]
                              cand == cands'[obs'[item.id].cand] IN
                          cand.first <= item.at /\ item.at <= cand.last
    BY DEF LoneCommitIsExact
<1>0. TypeOK /\ Sound(q) /\ ExactOf(q)
    BY DEF Typed, Lone
<1>1. Commit(q)
    BY OnlyCommitCommits
<1>2. (\A k \in Keys : cands'[k] = Row(q, k)) /\ (\A i \in Items : obs'[i] = ObsRow(q, i))
    BY <1>0, <1>1, Committed
<1>3. /\ session[q].pc = "counting" /\ session[q].dirty = {} /\ session[q].draft = NoRow
      /\ session[q].pos > Len(session[q].known)
    BY <1>0, <1>1 DEF Commit, Sound
<1>4. ASSUME NEW k \in Keys, cands'[k] # NoRow
      PROVE  cands'[k].count = Cardinality({i \in Items : obs'[i] # NoRow /\ obs'[i].cand = k})
  <2>1. Row(q, k) # NoRow /\ Knows(q, k)
      BY <1>0, <1>2, <1>4 DEF Row, ExactOf, Sound
  <2>2. PICK m \in DOMAIN session[q].known : session[q].known[m] = k
      BY <2>1 DEF Knows
  <2>3. m < session[q].pos
    <3>1. m \in 1..Len(session[q].known) /\ Len(session[q].known) \in Nat /\ session[q].pos \in Nat
        BY <1>0, Fields, LenProperties
    <3> QED
        BY <1>3, <3>1
  <2>4. session[q].attr[k].count = CountedObs(q, k)
      BY <1>0, <1>3, <2>2, <2>3 DEF ExactOf, CountsMade
  <2>5. Row(q, k).count = CountedObs(q, k)
      BY <1>0, <1>3, <2>1, <2>4 DEF ExactOf, Fresh
  <2>6. {i \in Items : obs'[i] # NoRow /\ obs'[i].cand = k}
            = {i \in Items : ObsRow(q, i) # NoRow /\ ObsRow(q, i).cand = k}
      BY <1>2
  <2> QED
      BY <1>2, <2>5, <2>6 DEF CountedObs
<1>5. ASSUME NEW n \in DOMAIN session[q].feed, IsLast(session[q].feed, n)
      PROVE  LET item == session[q].feed[n]
                 cand == cands'[obs'[item.id].cand] IN
             cand.first <= item.at /\ item.at <= cand.last
  <2>1. Latest(q, n)
      BY <1>3, <1>5 DEF Latest, Linking, IsLast
  <2>2. Placed(q, n)
      BY <1>0, <2>1 DEF ExactOf
  <2>3. session[q].feed[n].id \in Items /\ session[q].feed[n].at \in Times
      BY <1>0, FeedItems
  <2>4. PICK id \in Items, at \in Times : id = session[q].feed[n].id /\ at = session[q].feed[n].at
      BY <2>3
  <2>5. Found(q, id) = ObsRow(q, id)
      BY <1>3 DEF Found, ObsRow, Noted, Draft
  <2>6. /\ obs'[id] = Found(q, id) /\ Found(q, id) # NoRow
        /\ Row(q, Found(q, id).cand).first <= at /\ at <= Row(q, Found(q, id).cand).last
      BY <1>2, <2>2, <2>4, <2>5 DEF Placed
  <2>7. Found(q, id).cand \in Keys
      BY <1>0, <2>5, <2>6, Rows DEF Obs
  <2> QED
      BY <1>2, <2>4, <2>6, <2>7
<1> QED
    BY <1>4, <1>5

(* LoneIngestIsExact: the commit of an ingestion that overlapped no other  *)
(* leaves every count equal to the observations there are, and the items   *)
(* of its feed within the time their candidates were seen, whatever counts *)
(* and times earlier overlaps had left.                                    *)
THEOREM LoneIngestCountsAll == Spec => LoneIngestIsExact
<1>1. Init => Typed /\ Apart /\ Lone
  <2>1. Init => Lone
    <3>1. ASSUME Init, NEW q \in Ingests PROVE ~ Live(q)
        BY <3>1 DEF Init, Idle, Live
    <3> QED
        BY <3>1 DEF Lone
  <2> QED
      BY <2>1, TypedInit, ApartInit
<1>2. Typed /\ Apart /\ Lone /\ [Next]_vars => (Typed /\ Apart /\ Lone)' /\ LoneCommitIsExact
    BY TypedInductive, ApartInductive, LoneInductive, LoneCommit
<1>3. Spec => [][LoneCommitIsExact]_vars
    BY <1>1, <1>2, PTL DEF Spec
<1> QED
    BY <1>3 DEF LoneCommitIsExact, LoneIngestIsExact
=============================================================================
