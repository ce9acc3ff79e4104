--------------------------- MODULE ShopSync_proofs ---------------------------
(***************************************************************************)
(* Proofs about ShopSync for any products, syncs, window, page and clock:  *)
(* what the tables hold is of one sync, and exact for the days that were   *)
(* over when it started; a sync that waited takes no sale away.            *)
(***************************************************************************)
EXTENDS ShopSync, FiniteSetTheorems, SequenceTheorems, WellFoundedInduction, TLAPS

-----------------------------------------------------------------------------
(* The inductive invariant.  The orders are in the past, and a sync that   *)
(* still reads is less than a day old.                                     *)
Clocked ==
    /\ \A i \in DOMAIN orders : orders[i].at <= clock
    /\ \A s \in Syncs : session[s].now <= clock /\ (Reading(s) => clock < session[s].now + Day)

Unread == \A s \in Syncs : session[s].pc = "idle" \/ Reading(s) => session[s].got = {}

OneHolds == \A r, s \in Syncs : Holding(r) /\ Holding(s) => r = s

(* What a sync has read of its window: all of it up to its start.          *)
HasRead(s) == session[s].pc \in {"stored", "committed"}
Kept(s) == session[s].got \subseteq Asked(session[s].now)
Whole(s) ==
    Fits(session[s].now) =>
        \A i \in Asked(session[s].now) : orders[i].at < session[s].now => i \in session[s].got
WindowIsRead == \A s \in Syncs : HasRead(s) => Kept(s) /\ Whole(s)

RowsAreOfCommitted ==
    /\ \A x \in Products \X Days : sales[x] # NoRow => session[sales[x].by].pc = "committed"
    /\ connection # NoRow /\ connection.last # NoRow => session[connection.last].pc = "committed"

RowsAreOfOrders ==
    \A x \in Products \X Days : Units(x) <= Sold(x[1], x[2]) /\ (sales[x] # NoRow => Units(x) > 0)

(* A sync about to commit has read all that the rows in its window hold.   *)
NothingToLose ==
    \A s \in Syncs, p \in Products, d \in Days :
        session[s].pc = "stored" /\ session[s].now <= d * Day + Window /\ Fits(session[s].now)
            => Units(<<p, d>>) <= Cardinality(Line(s, <<p, d>>))

-----------------------------------------------------------------------------
(* Days.                                                                   *)
LEMMA DayOf ==
    ASSUME NEW at \in Nat, NEW d \in Nat
    PROVE  /\ at \div Day \in Nat
           /\ at \div Day = d <=> d * Day <= at /\ at < (d + 1) * Day
<1> DEFINE q == at \div Day
<1>1. Day \in Nat /\ Day > 0
    BY TimeAssumption
<1>2. q \in Int /\ Day * q <= at /\ at < Day * q + Day
    BY <1>1, Z3
<1> HIDE DEF q
<1>3. q \in Nat
  <2>1. SUFFICES ASSUME q <= -1 PROVE FALSE  BY <1>2
  <2>2. Day * q <= Day * (-1)  BY <1>1, <1>2, <2>1
  <2> QED  BY <1>1, <1>2, <2>2
<1>4. q = d => d * Day <= at /\ at < (d + 1) * Day
    BY <1>1, <1>2
<1>5. ASSUME d * Day <= at, at < (d + 1) * Day PROVE q = d
  <2>1. ~ (q + 1 <= d)
    <3>1. SUFFICES ASSUME q + 1 <= d PROVE FALSE  OBVIOUS
    <3>2. Day * (q + 1) <= Day * d  BY <1>1, <1>2, <3>1
    <3> QED  BY <1>1, <1>2, <1>5, <3>2
  <2>2. ~ (d + 1 <= q)
    <3>1. SUFFICES ASSUME d + 1 <= q PROVE FALSE  OBVIOUS
    <3>2. Day * (d + 1) <= Day * q  BY <1>1, <1>2, <3>1
    <3> QED  BY <1>1, <1>2, <1>5, <3>2
  <2> QED  BY <1>2, <2>1, <2>2
<1> QED  BY <1>3, <1>4, <1>5 DEF q

LEMMA DaysOfTheClock ==
    ASSUME NEW at \in 0..MaxClock
    PROVE  at \div Day \in Days
<1>1. Day \in Nat \ {0} /\ MaxClock \in Nat /\ at \in Nat /\ at <= MaxClock
    BY TimeAssumption
<1> DEFINE q == at \div Day
           m == MaxClock \div Day
<1>2. q \in Nat /\ q * Day <= at
    BY <1>1, DayOf
<1>3. m \in Nat /\ MaxClock < (m + 1) * Day
    BY <1>1, DayOf
<1> HIDE DEF q, m
<1>4. ~ (m + 1 <= q)
  <2>1. SUFFICES ASSUME m + 1 <= q PROVE FALSE  OBVIOUS
  <2>2. (m + 1) * Day <= q * Day  BY <1>1, <1>2, <1>3, <2>1
  <2> QED  BY <1>1, <1>2, <1>3, <2>2
<1>5. q \in 0..m
    BY <1>2, <1>3, <1>4
<1> QED  BY <1>5 DEF q, m, Days

LEMMA DaysAreNat == Days \subseteq Nat
BY DEF Days

(* Sets of orders are finite.                                              *)
LEMMA OrderSets ==
    ASSUME TypeOK, NEW I \in SUBSET DOMAIN orders
    PROVE  IsFiniteSet(I) /\ Cardinality(I) \in Nat /\ (Cardinality(I) = 0 <=> I = {})
<1>1. DOMAIN orders = 1..Len(orders) /\ Len(orders) \in Nat
    BY DEF TypeOK
<1>2. IsFiniteSet(DOMAIN orders)
    BY <1>1, FS_Interval
<1>3. IsFiniteSet(I)
    BY <1>2, FS_Subset
<1> QED
    BY <1>3, FS_CardinalityType, FS_EmptySet

-----------------------------------------------------------------------------
(* What the parts of an order and of a session are.                        *)
LEMMA OrderFields ==
    ASSUME TypeOK, NEW i \in DOMAIN orders
    PROVE  /\ orders[i].at \in 0..MaxClock /\ orders[i].at \in Nat
           /\ orders[i].product \in Products
<1>1. orders \in Seq([at : 0..MaxClock, product : Products])
    BY DEF TypeOK
<1>2. orders[i] \in [at : 0..MaxClock, product : Products]
    BY <1>1, ElementOfSeq, LenProperties
<1> QED
    BY <1>2, TimeAssumption

LEMMA SessionFields ==
    ASSUME TypeOK, NEW s \in Syncs
    PROVE  /\ session[s] \in Session /\ session[s].now \in Nat /\ clock \in Nat
           /\ session[s].got \subseteq 1..MaxOrders
<1>1. session[s] \in Session /\ clock \in Nat
    BY TimeAssumption DEF TypeOK
<1> QED
    BY <1>1, TimeAssumption DEF Session

LEMMA AskedOrders ==
    ASSUME TypeOK, NEW now \in Nat
    PROVE  /\ Asked(now) \subseteq DOMAIN orders /\ DOMAIN orders \subseteq 1..MaxOrders
           /\ IsFiniteSet(Asked(now)) /\ Cardinality(Asked(now)) \in Nat
<1>1. Asked(now) \subseteq DOMAIN orders
    BY DEF Asked
<1>2. DOMAIN orders \subseteq 1..MaxOrders
    BY TimeAssumption DEF TypeOK
<1> QED
    BY <1>1, <1>2, OrderSets

LEMMA Lines ==
    ASSUME TypeOK, NEW s \in Syncs, NEW x \in Products \X Days
    PROVE  /\ IsFiniteSet(Line(s, x)) /\ Cardinality(Line(s, x)) \in Nat
           /\ Cardinality(Line(s, x)) = 0 <=> Line(s, x) = {}
           /\ IsFiniteSet(session[s].got) /\ Cardinality(session[s].got) \in Nat
<1>1. Line(s, x) \subseteq session[s].got
    BY DEF Line
<1>2. session[s].got \subseteq 1..MaxOrders /\ MaxOrders \in Nat
    BY SessionFields, TimeAssumption
<1>3. IsFiniteSet(1..MaxOrders)
    BY <1>2, FS_Interval
<1>4. IsFiniteSet(session[s].got)
    BY <1>2, <1>3, FS_Subset
<1>5. IsFiniteSet(Line(s, x))
    BY <1>1, <1>4, FS_Subset
<1> QED
    BY <1>4, <1>5, FS_CardinalityType, FS_EmptySet

(* What an action leaves of the other syncs, and makes of its own.         *)
LEMMA Others ==
    ASSUME TypeOK, NEW s \in Syncs, NEW new, session' = [session EXCEPT ![s] = new]
    PROVE  session'[s] = new /\ \A r \in Syncs \ {s} : session'[r] = session[r]
BY DEF TypeOK

(* The steps of a sync change its place, its tries and what it got.        *)
LEMMA Answered ==
    ASSUME TypeOK, NEW s \in Syncs, Answer(s)
    PROVE  /\ \A r \in Syncs \ {s} : session'[r] = session[r]
           /\ session'[s].pc = After(session[s].pc) /\ session'[s].tries = 0
           /\ session'[s].now = session[s].now
           /\ session[s].pc # "orders" => session'[s].got = session[s].got
           /\ session[s].pc = "orders" =>
                \E I \in SUBSET Asked(session[s].now) :
                    /\ Cardinality(I) = Min({Page, Cardinality(Asked(session[s].now))})
                    /\ session'[s].got = session[s].got \cup I
           /\ session' \in [Syncs -> Session]
<1> USE DEF Proceeds
<1>1. session[s] \in Session /\ session \in [Syncs -> Session]
    BY DEF TypeOK
<1>2. session[s].pc \in {"products", "inventory", "orders"}
    BY DEF Answer, Calling
<1>3. PICK page : /\ session' = [session EXCEPT ![s] = [Proceeds(s) EXCEPT !.got = @ \cup page]]
                  /\ page \in IF session[s].pc = "orders"
                              THEN {I \in SUBSET Asked(session[s].now) :
                                      Cardinality(I) = Min({Page, Cardinality(Asked(session[s].now))})}
                              ELSE {{}}
    BY DEF Answer
<1>4. page \subseteq 1..MaxOrders
    BY <1>3, AskedOrders, SessionFields
<1> DEFINE new == [Proceeds(s) EXCEPT !.got = @ \cup page]
<1>5. /\ new.pc = After(session[s].pc) /\ new.tries = 0 /\ new.now = session[s].now
      /\ new.got = session[s].got \cup page
    BY <1>1 DEF Session
<1>6. After(session[s].pc) \in {"inventory", "saving", "stored"}
    BY <1>2 DEF After
<1>7. new \in Session
  <2>1. Proceeds(s) \in Session
    <3>1. 0 \in 0..MaxRetries
        BY TimeAssumption
    <3>2. After(session[s].pc) \in {"inventory", "saving", "stored"}
        BY <1>6
    <3> QED
        BY <1>1, <3>1, <3>2 DEF Session
  <2> QED
      BY <1>4, <2>1 DEF Session
<1>8. session' = [session EXCEPT ![s] = new]
    BY <1>3
<1> HIDE DEF new
<1>9. session'[s] = new /\ (\A r \in Syncs \ {s} : session'[r] = session[r])
    BY <1>8, Others
<1>10. session' \in [Syncs -> Session]
    BY <1>1, <1>7, <1>8
<1> QED
    BY <1>3, <1>5, <1>9, <1>10

LEMMA Upserted ==
    ASSUME TypeOK, NEW s \in Syncs
    PROVE  /\ UpsertSales(s) \in [Products \X Days -> Sale \cup {NoRow}]
           /\ BuildProfile(s) \in Sale
<1>1. \A x \in Products \X Days : Cardinality(Line(s, x)) \in Nat
    BY Lines
<1>2. \A x \in Products \X Days : sales[x] \in Sale \cup {NoRow}
    BY DEF TypeOK
<1>3. Cardinality(session[s].got) \in Nat
  <2>1. session[s].got \subseteq 1..MaxOrders /\ MaxOrders \in Nat
      BY SessionFields, TimeAssumption
  <2>2. IsFiniteSet(1..MaxOrders)
      BY <2>1, FS_Interval
  <2>3. IsFiniteSet(session[s].got)
      BY <2>1, <2>2, FS_Subset
  <2> QED
      BY <2>3, FS_CardinalityType
<1> QED
    BY <1>1, <1>2, <1>3 DEF UpsertSales, BuildProfile, Sale

LEMMA TypeInductive == TypeOK /\ [Next]_vars => TypeOK'
<1> SUFFICES ASSUME TypeOK, [Next]_vars PROVE TypeOK'
    OBVIOUS
<1>1. CASE UNCHANGED vars
    BY <1>1 DEF vars, TypeOK
<1>2. CASE Tick
    BY <1>2, TimeAssumption DEF Tick, TypeOK, tables
<1>3. CASE CreateConnection
    BY <1>3 DEF CreateConnection, TypeOK
<1>4. CASE Quiet
    BY <1>4 DEF Quiet, vars, TypeOK
<1>5. ASSUME NEW p \in Products, PlaceOrder(p) PROVE TypeOK'
  <2>1. orders' \in Seq([at : 0..MaxClock, product : Products]) /\ Len(orders') <= MaxOrders
      BY <1>5, TimeAssumption DEF PlaceOrder, TypeOK
  <2> QED
      BY <1>5, <2>1 DEF PlaceOrder, TypeOK, tables
<1>6. ASSUME NEW s \in Syncs, Start(s) \/ NotFound(s) \/ Fail(s) \/ Rollback(s) PROVE TypeOK'
  <2>1. session[s] \in Session /\ clock \in 0..MaxClock
      BY DEF TypeOK
  <2>2. CASE Start(s)
      BY <2>1, <2>2 DEF Start, TypeOK, tables, Session
  <2>3. CASE NotFound(s)
      BY <2>1, <2>3 DEF NotFound, TypeOK, tables, Session
  <2>4. CASE Fail(s)
      BY <2>1, <2>4 DEF Fail, TypeOK, tables, Session
  <2>5. CASE Rollback(s)
      BY <2>1, <2>5 DEF Rollback, TypeOK, tables, Session
  <2> QED
      BY <1>6, <2>2, <2>3, <2>4, <2>5
<1>7. ASSUME NEW s \in Syncs, Busy(s) PROVE TypeOK'
  <2>1. session[s] \in Session
      BY DEF TypeOK
  <2>2. session[s].tries + 1 \in 0..MaxRetries
      BY <1>7, <2>1, TimeAssumption DEF Busy, Session
  <2>3. session' \in [Syncs -> Session]
      BY <1>7, <2>1, <2>2 DEF Busy, TypeOK, Session
  <2> QED
      BY <1>7, <2>3 DEF Busy, TypeOK, tables
<1>8. ASSUME NEW s \in Syncs, Answer(s) PROVE TypeOK'
    BY <1>8, Answered DEF Answer, TypeOK, tables
<1>9. ASSUME NEW s \in Syncs, Save(s) PROVE TypeOK'
  <2>1. session[s] \in Session /\ 0 \in 0..MaxRetries
      BY TimeAssumption DEF TypeOK
  <2>2. After(session[s].pc) = "orders"
      BY <1>9 DEF Save, After
  <2>3. session' \in [Syncs -> Session]
      BY <1>9, <2>1, <2>2 DEF Save, Proceeds, TypeOK, Session
  <2> QED
      BY <1>9, <2>3 DEF Save, TypeOK, tables
<1>10. ASSUME NEW s \in Syncs, Commit(s) PROVE TypeOK'
  <2>1. session[s] \in Session
      BY DEF TypeOK
  <2>2. session' \in [Syncs -> Session]
      BY <1>10, <2>1 DEF Commit, TypeOK, Session
  <2>3. sales' \in [Products \X Days -> Sale \cup {NoRow}] /\ profile' \in Sale \cup {NoRow}
      BY <1>10, Upserted DEF Commit
  <2> QED
      BY <1>10, <2>2, <2>3 DEF Commit, TypeOK
<1> QED
    BY <1>1, <1>2, <1>3, <1>4, <1>5, <1>6, <1>7, <1>8, <1>9, <1>10 DEF Next, Proceed

LEMMA TypeInit == Init => TypeOK
BY TimeAssumption DEF Init, TypeOK, Session, Days, Sale

(* Whatever the shop answers and whenever it fails, every table holds rows *)
(* of its type, and no call is tried more than MaxRetries times again.     *)
THEOREM SyncTypes == Spec => []TypeOK
<1> QED
    BY TypeInit, TypeInductive, PTL DEF Spec

-----------------------------------------------------------------------------
(* What a step leaves of one sync, and makes of it.                        *)
Same(s) ==
    /\ session'[s].pc = session[s].pc /\ session'[s].now = session[s].now
    /\ session'[s].got = session[s].got
Starts(s) ==
    /\ session[s].pc = "idle" /\ session'[s].pc = "products" /\ clock' = clock
    /\ session'[s].now = clock /\ session'[s].got = session[s].got
Stops(s) ==
    /\ session[s].pc = "idle" \/ Live(s)
    /\ session'[s].pc \in {"notfound", "rolledback"}
    /\ session'[s].now = session[s].now /\ session'[s].got = session[s].got
Moves(s) ==
    /\ \/ session[s].pc = "products" /\ session'[s].pc = "inventory"
       \/ session[s].pc = "inventory" /\ session'[s].pc = "saving"
       \/ Save(s) /\ session[s].pc = "saving" /\ session'[s].pc = "orders"
       \/ Commit(s) /\ session[s].pc = "stored" /\ session'[s].pc = "committed"
    /\ session'[s].now = session[s].now /\ session'[s].got = session[s].got /\ clock' = clock
ReadsOrders(s) ==
    /\ session[s].pc = "orders" /\ session'[s].pc = "stored" /\ session'[s].now = session[s].now
    /\ \E I \in SUBSET Asked(session[s].now) :
          /\ Cardinality(I) = Min({Page, Cardinality(Asked(session[s].now))})
          /\ session'[s].got = session[s].got \cup I
    /\ UNCHANGED <<clock, orders, tables>>

LEMMA Transitions ==
    ASSUME TypeOK, [Next]_vars, NEW s \in Syncs
    PROVE  Same(s) \/ Starts(s) \/ Stops(s) \/ Moves(s) \/ ReadsOrders(s)
<1>0. session \in [Syncs -> Session] /\ session[s] \in Session
    BY DEF TypeOK
<1>1. CASE session' = session
    BY <1>1 DEF Same
<1>2. ASSUME NEW r \in Syncs, Start(r) \/ NotFound(r) \/ Busy(r) \/ Fail(r) \/ Rollback(r)
      PROVE  Same(s) \/ Starts(s) \/ Stops(s)
  <2>1. CASE r # s
      BY <1>0, <1>2, <2>1 DEF Same, Start, NotFound, Busy, Fail, Rollback
  <2>2. CASE r = s /\ Start(s)
      BY <1>0, <2>2 DEF Starts, Start, Session
  <2>3. CASE r = s /\ NotFound(s)
      BY <1>0, <2>3 DEF Stops, NotFound, Session
  <2>4. CASE r = s /\ Busy(s)
      BY <1>0, <2>4 DEF Same, Busy, Session
  <2>5. CASE r = s /\ Fail(s)
      BY <1>0, <2>5 DEF Stops, Fail, Session, Calling, Live, Reading
  <2>6. CASE r = s /\ Rollback(s)
      BY <1>0, <2>6 DEF Stops, Rollback, Session
  <2> QED
      BY <1>2, <2>1, <2>2, <2>3, <2>4, <2>5, <2>6
<1>3. ASSUME NEW r \in Syncs, Answer(r)
      PROVE  Same(s) \/ Moves(s) \/ ReadsOrders(s)
  <2>1. CASE r # s
      BY <1>3, <2>1, Answered DEF Same
  <2>2. CASE r = s
    <3>1. session[s].pc \in {"products", "inventory", "orders"}
        BY <1>3, <2>2 DEF Answer, Calling
    <3>2. UNCHANGED <<clock, orders, tables>>
        BY <1>3, <2>2 DEF Answer
    <3>3. session'[s].pc = After(session[s].pc) /\ session'[s].now = session[s].now
        BY <1>3, <2>2, Answered
    <3>4. CASE session[s].pc # "orders"
        BY <1>3, <2>2, <3>1, <3>2, <3>3, <3>4, Answered DEF Moves, After
    <3>5. CASE session[s].pc = "orders"
        BY <1>3, <2>2, <3>2, <3>3, <3>5, Answered DEF ReadsOrders, After
    <3> QED
        BY <3>4, <3>5
  <2> QED
      BY <2>1, <2>2
<1>4. ASSUME NEW r \in Syncs, Save(r)
      PROVE  Same(s) \/ Moves(s)
  <2>1. CASE r # s
      BY <1>0, <1>4, <2>1 DEF Same, Save
  <2>2. CASE r = s
    <3>1. session[s].pc = "saving" /\ clock' = clock
        BY <1>4, <2>2 DEF Save
    <3>2. session'[s] = Proceeds(s)
        BY <1>0, <1>4, <2>2 DEF Save
    <3>3. session'[s].pc = "orders" /\ session'[s].now = session[s].now /\ session'[s].got = session[s].got
        BY <1>0, <3>1, <3>2 DEF Proceeds, After, Session
    <3> QED
        BY <1>4, <2>2, <3>1, <3>3 DEF Moves
  <2> QED
      BY <2>1, <2>2
<1>5. ASSUME NEW r \in Syncs, Commit(r)
      PROVE  Same(s) \/ Moves(s)
  <2>1. CASE r # s
      BY <1>0, <1>5, <2>1 DEF Same, Commit
  <2>2. CASE r = s
    <3>1. session[s].pc = "stored" /\ clock' = clock /\ session' = [session EXCEPT ![s].pc = "committed"]
        BY <1>5, <2>2 DEF Commit
    <3>2. session'[s].pc = "committed" /\ session'[s].now = session[s].now /\ session'[s].got = session[s].got
        BY <1>0, <3>1 DEF Session
    <3> QED
        BY <1>5, <2>2, <3>1, <3>2 DEF Moves
  <2> QED
      BY <2>1, <2>2
<1>6. Tick \/ CreateConnection \/ Quiet \/ (\E p \in Products : PlaceOrder(p)) => session' = session
    BY DEF Tick, CreateConnection, Quiet, PlaceOrder, vars
<1>7. UNCHANGED vars => session' = session
    BY DEF vars
<1> QED
    BY <1>1, <1>2, <1>3, <1>4, <1>5, <1>6, <1>7 DEF Next, Proceed

(* The shop's orders only grow, and time only passes.                      *)
LEMMA OrdersGrow ==
    ASSUME TypeOK, Clocked, [Next]_vars
    PROVE  /\ DOMAIN orders \subseteq DOMAIN orders' /\ clock <= clock'
           /\ \A i \in DOMAIN orders : orders'[i] = orders[i]
           /\ \A i \in DOMAIN orders' : i \notin DOMAIN orders => orders'[i].at = clock
           /\ \A i \in DOMAIN orders' : orders'[i].at <= clock'
<1>0. clock \in Nat /\ orders \in Seq([at : 0..MaxClock, product : Products])
    BY TimeAssumption DEF TypeOK
<1>1. CASE orders' = orders /\ (clock' = clock \/ clock' = clock + 1)
  <2>1. \A i \in DOMAIN orders : orders[i].at \in Nat
      BY OrderFields
  <2> QED
      BY <1>0, <1>1, <2>1 DEF Clocked
<1>2. ASSUME NEW p \in Products, PlaceOrder(p)
      PROVE  /\ DOMAIN orders \subseteq DOMAIN orders' /\ clock' = clock
             /\ \A i \in DOMAIN orders : orders'[i] = orders[i]
             /\ \A i \in DOMAIN orders' : i \notin DOMAIN orders => orders'[i].at = clock
             /\ \A i \in DOMAIN orders' : orders'[i].at <= clock
  <2>1. orders' = Append(orders, [at |-> clock, product |-> p]) /\ clock' = clock
      BY <1>2 DEF PlaceOrder
  <2>2. /\ DOMAIN orders = 1..Len(orders) /\ Len(orders) \in Nat
        /\ DOMAIN orders' = 1..(Len(orders) + 1)
        /\ \A i \in 1..Len(orders) : orders'[i] = orders[i]
        /\ orders'[Len(orders) + 1] = [at |-> clock, product |-> p]
      BY <1>0, <2>1
  <2> QED
      BY <1>0, <2>1, <2>2 DEF Clocked
<1>3. \/ orders' = orders /\ (clock' = clock \/ clock' = clock + 1)
      \/ \E p \in Products : PlaceOrder(p)
    BY DEF Next, Tick, CreateConnection, Quiet, Start, NotFound, Proceed, Answer, Busy, Fail, Save,
           Commit, Rollback, vars
<1> QED
    BY <1>0, <1>1, <1>2, <1>3

LEMMA ClockedInductive ==
    ASSUME TypeOK, TypeOK', Clocked, [Next]_vars
    PROVE  Clocked'
<1>0. Day \in Nat \ {0} /\ clock \in Nat
    BY TimeAssumption DEF TypeOK
<1>1. \A i \in DOMAIN orders' : orders'[i].at <= clock'
    BY OrdersGrow
<1>2. clock <= clock' /\ clock' \in Nat
    BY OrdersGrow, TimeAssumption DEF TypeOK
<1>3. ASSUME NEW s \in Syncs
      PROVE  session'[s].now <= clock' /\ (Reading(s)' => clock' < session'[s].now + Day)
  <2>0. session[s].now \in Nat /\ session[s].now <= clock
      BY SessionFields DEF Clocked
  <2>1. Reading(s) => clock < session[s].now + Day
      BY DEF Clocked
  <2>2. CASE Starts(s)
      BY <1>0, <2>2 DEF Starts
  <2>3. CASE Stops(s)
      BY <1>2, <2>0, <2>3, <1>0 DEF Stops, Reading
  <2>4. CASE Moves(s)
      BY <1>0, <2>0, <2>1, <2>4 DEF Moves, Reading
  <2>5. CASE ReadsOrders(s)
      BY <1>2, <1>0, <2>0, <2>5 DEF ReadsOrders, Reading
  <2>6. CASE Same(s)
    <3>1. session'[s].now <= clock'
        BY <1>0, <1>2, <2>0, <2>6 DEF Same
    <3>2. Reading(s)' => Reading(s)
        BY <2>6 DEF Same, Reading
    <3>3. CASE clock' = clock
        BY <2>1, <2>6, <3>1, <3>2, <3>3 DEF Same
    <3>4. CASE Tick
        BY <2>6, <3>1, <3>2, <3>4 DEF Same, Tick
    <3>5. clock' = clock \/ Tick
        BY DEF Next, CreateConnection, Quiet, PlaceOrder, Start, NotFound, Proceed, Answer, Busy,
               Fail, Save, Commit, Rollback, vars
    <3> QED
        BY <3>3, <3>4, <3>5
  <2> QED
      BY <2>2, <2>3, <2>4, <2>5, <2>6, Transitions
<1> QED
    BY <1>1, <1>3 DEF Clocked

LEMMA UnreadInductive ==
    ASSUME TypeOK, Unread, [Next]_vars
    PROVE  Unread'
<1> SUFFICES ASSUME NEW s \in Syncs, session'[s].pc = "idle" \/ Reading(s)'
             PROVE  session'[s].got = {}
    BY DEF Unread
<1>1. session[s].pc = "idle" \/ Reading(s) => session[s].got = {}
    BY DEF Unread
<1>2. Same(s) \/ Starts(s) \/ Moves(s) => session'[s].got = {}
    BY <1>1 DEF Same, Starts, Moves, Reading
<1>3. ~ Stops(s) /\ ~ ReadsOrders(s)
    BY DEF Stops, ReadsOrders, Reading
<1> QED
    BY <1>2, <1>3, Transitions

(* Only Save takes the lock, and only when no other sync has it.           *)
LEMMA OneHoldsInductive ==
    ASSUME TypeOK, OneHolds, [Next]_vars
    PROVE  OneHolds'
<1>1. ASSUME NEW s \in Syncs, Holding(s)', ~ Holding(s)
      PROVE  Save(s)
  <2>1. ~ Same(s) /\ ~ Starts(s) /\ ~ Stops(s) /\ ~ ReadsOrders(s)
      BY <1>1 DEF Same, Starts, Stops, ReadsOrders, Holding
  <2>2. Moves(s)
      BY <2>1, Transitions
  <2> QED
      BY <1>1, <2>2 DEF Moves, Holding
<1>2. ASSUME NEW s \in Syncs, NEW r \in Syncs, Save(s), r # s
      PROVE  ~ Holding(r)'
    BY <1>2 DEF Save, Holding, TypeOK
<1>3. SUFFICES ASSUME NEW r \in Syncs, NEW s \in Syncs, Holding(r)', Holding(s)', r # s
               PROVE  FALSE
    BY DEF OneHolds
<1>4. Holding(r) /\ Holding(s)
    BY <1>1, <1>2, <1>3
<1> QED
    BY <1>3, <1>4 DEF OneHolds

-----------------------------------------------------------------------------
(* The window of a sync only gains orders of after it started.             *)
LEMMA WindowsGrow ==
    ASSUME TypeOK, TypeOK', Clocked, [Next]_vars, NEW now \in Nat
    PROVE  /\ Asked(now) \subseteq Asked(now)'
           /\ Fits(now)' => Fits(now)
           /\ \A i \in Asked(now)' : i \in Asked(now) \/ orders'[i].at = clock
<1>1. Asked(now) \subseteq Asked(now)'
    BY OrdersGrow DEF Asked
<1>2. \A i \in Asked(now)' : i \in Asked(now) \/ orders'[i].at = clock
    BY OrdersGrow DEF Asked
<1>3. IsFiniteSet(Asked(now)') /\ Cardinality(Asked(now)) \in Nat /\ Cardinality(Asked(now)') \in Nat
  <2>1. (IsFiniteSet(Asked(now)) /\ Cardinality(Asked(now)) \in Nat)'
    <3>1. Asked(now)' \subseteq DOMAIN orders' /\ DOMAIN orders' = 1..Len(orders') /\ Len(orders') \in Nat
        BY DEF Asked, TypeOK
    <3>2. IsFiniteSet(Asked(now)')
      <4>1. IsFiniteSet(DOMAIN orders')
          BY <3>1, FS_Interval
      <4> QED
          BY <3>1, <4>1, FS_Subset
    <3> QED
        BY <3>2, FS_CardinalityType
  <2> QED
      BY <2>1, AskedOrders
<1>4. Cardinality(Asked(now)) <= Cardinality(Asked(now)')
    BY <1>1, <1>3, FS_Subset
<1>5. Fits(now)' => Fits(now)
    BY <1>3, <1>4, TimeAssumption DEF Fits
<1> QED
    BY <1>1, <1>2, <1>5

LEMMA MinOfTwo ==
    ASSUME NEW a \in Nat, NEW b \in Nat, a <= b
    PROVE  Min({b, a}) = a
<1>1. a \in {b, a} /\ \A y \in {b, a} : a <= y
    OBVIOUS
<1>2. Min({b, a}) = CHOOSE x \in {b, a} : \A y \in {b, a} : x <= y
    BY DEF Min
<1>3. PICK m \in {b, a} : m = Min({b, a}) /\ \A y \in {b, a} : m <= y
    BY <1>1, <1>2
<1> QED
    BY <1>3

(* Orders that fit on one page are all read.                               *)
LEMMA AllAreRead ==
    ASSUME TypeOK, Unread, NEW s \in Syncs, ReadsOrders(s), Fits(session[s].now)
    PROVE  session'[s].got = Asked(session[s].now)
<1> DEFINE A == Asked(session[s].now)
<1>1. session[s].got = {}
    BY DEF Unread, ReadsOrders, Reading
<1>2. PICK I \in SUBSET A : Cardinality(I) = Min({Page, Cardinality(A)}) /\ session'[s].got = I
    BY <1>1 DEF ReadsOrders
<1>3. IsFiniteSet(A) /\ Cardinality(A) \in Nat /\ Page \in Nat /\ Cardinality(A) <= Page
    BY AskedOrders, SessionFields, TimeAssumption DEF Fits
<1> HIDE DEF A
<1>4. Cardinality(I) = Cardinality(A)
    BY <1>2, <1>3, MinOfTwo
<1>5. I = A
    BY <1>2, <1>3, <1>4, FS_Subset
<1> QED
    BY <1>2, <1>5 DEF A

LEMMA WindowIsReadInductive ==
    ASSUME TypeOK, TypeOK', Clocked, Unread, WindowIsRead, [Next]_vars
    PROVE  WindowIsRead'
<1> SUFFICES ASSUME NEW s \in Syncs, HasRead(s)'
             PROVE  Kept(s)' /\ Whole(s)'
    BY DEF WindowIsRead
<1>0. PICK now \in Nat : now = session[s].now /\ now <= clock /\ clock \in Nat
    BY SessionFields DEF Clocked
<1>1. ASSUME session'[s].now = now, session'[s].got \subseteq Asked(now)',
             ASSUME Fits(now)', NEW i \in Asked(now)', orders'[i].at < now
             PROVE  i \in session'[s].got
      PROVE  Kept(s)' /\ Whole(s)'
  <2>1. Asked(session[s].now)' = Asked(now)'
      BY <1>1 DEF Asked
  <2>2. Fits(session[s].now)' <=> Fits(now)'
      BY <2>1 DEF Fits
  <2> QED
      BY <1>1, <2>1, <2>2 DEF Kept, Whole
<1>2. CASE ReadsOrders(s)
  <2>1. orders' = orders /\ session'[s].now = now
      BY <1>0, <1>2 DEF ReadsOrders
  <2>2. Asked(now)' = Asked(now) /\ Fits(now)' = Fits(now)
      BY <2>1 DEF Asked, Fits
  <2>3. session[s].got = {}
      BY <1>2 DEF ReadsOrders, Unread, Reading
  <2>4. session'[s].got \subseteq Asked(now)
      BY <1>0, <1>2, <2>3 DEF ReadsOrders
  <2>5. Fits(now) => session'[s].got = Asked(now)
      BY <1>0, <1>2, AllAreRead
  <2> QED
      BY <1>1, <2>1, <2>2, <2>4, <2>5
<1>3. CASE Same(s) \/ Moves(s)
  <2>1. HasRead(s) /\ session'[s].now = now /\ session'[s].got = session[s].got
      BY <1>0, <1>3 DEF Same, Moves, HasRead
  <2>2. session[s].got \subseteq Asked(now)
        /\ (Fits(now) => \A i \in Asked(now) : orders[i].at < now => i \in session[s].got)
      BY <1>0, <2>1 DEF WindowIsRead, Kept, Whole
  <2>3. session'[s].got \subseteq Asked(now)'
      BY <2>1, <2>2, WindowsGrow
  <2>4. ASSUME Fits(now)', NEW i \in Asked(now)', orders'[i].at < now
        PROVE  i \in session'[s].got
    <3>1. i \in Asked(now)
        BY <1>0, <2>4, WindowsGrow
    <3>2. orders'[i] = orders[i]
        BY <3>1, OrdersGrow DEF Asked
    <3> QED
        BY <2>1, <2>2, <2>4, <3>1, <3>2, WindowsGrow
  <2> QED
      BY <1>1, <2>1, <2>3, <2>4
<1>4. ~ Starts(s) /\ ~ Stops(s)
    BY DEF Starts, Stops, HasRead
<1> QED
    BY <1>2, <1>3, <1>4, Transitions

-----------------------------------------------------------------------------
(* The tables are written by commits alone, and a commit is final.         *)
LEMMA TablesChange ==
    ASSUME [Next]_vars
    PROVE  UNCHANGED tables \/ CreateConnection \/ \E s \in Syncs : Commit(s)
BY DEF Next, Tick, Quiet, PlaceOrder, Start, NotFound, Proceed, Answer, Busy, Fail, Save,
       Rollback, vars, tables

LEMMA CommitIsFinal ==
    ASSUME TypeOK, [Next]_vars, NEW s \in Syncs, session[s].pc = "committed"
    PROVE  session'[s].pc = "committed" /\ session'[s].now = session[s].now
<1>1. ~ Starts(s) /\ ~ Stops(s) /\ ~ Moves(s) /\ ~ ReadsOrders(s)
    BY DEF Starts, Stops, Moves, ReadsOrders, Live, Reading
<1> QED
    BY <1>1, Transitions DEF Same

LEMMA Commits ==
    ASSUME TypeOK, NEW s \in Syncs, Commit(s)
    PROVE  /\ session[s].pc = "stored" /\ session'[s].pc = "committed"
           /\ session'[s].now = session[s].now /\ session'[s].got = session[s].got
           /\ connection' = [last |-> s] /\ orders' = orders
           /\ \A x \in Products \X Days :
                 sales'[x] = IF Line(s, x) = {} THEN sales[x]
                             ELSE [units |-> Cardinality(Line(s, x)), by |-> s]
<1>1. session[s] \in Session /\ session \in [Syncs -> Session]
    BY DEF TypeOK
<1>2. session' = [session EXCEPT ![s].pc = "committed"]
    BY DEF Commit
<1> QED
    BY <1>1, <1>2 DEF Commit, UpsertSales, Session

LEMMA RowFields ==
    ASSUME TypeOK, NEW x \in Products \X Days
    PROVE  /\ sales[x] # NoRow => sales[x].by \in Syncs /\ sales[x].units \in Nat
           /\ Units(x) \in Nat
BY DEF TypeOK, Units, Sale

LEMMA CommittedIsARow ==
    ASSUME NEW s \in Syncs, NEW n \in Nat
    PROVE  [units |-> n, by |-> s] # NoRow /\ s # NoRow /\ [last |-> s] # NoRow /\ [last |-> NoRow] # NoRow
<1>1. [units |-> n, by |-> s] \in Sale
    BY DEF Sale
<1>2. [last |-> s] \in [last : Syncs \cup {NoRow}] /\ [last |-> NoRow] \in [last : Syncs \cup {NoRow}]
    OBVIOUS
<1> QED
    BY <1>1, <1>2, NoRowAssumption

LEMMA RowsAreOfCommittedInductive ==
    ASSUME TypeOK, TypeOK', RowsAreOfCommitted, [Next]_vars
    PROVE  RowsAreOfCommitted'
<1>1. \A s \in Syncs : session[s].pc = "committed" => session'[s].pc = "committed"
    BY CommitIsFinal
<1>2. CASE UNCHANGED tables
  <2>1. \A x \in Products \X Days : sales'[x] # NoRow => session'[sales'[x].by].pc = "committed"
      BY <1>1, <1>2, RowFields DEF tables, RowsAreOfCommitted
  <2>2. connection' # NoRow /\ connection'.last # NoRow => session'[connection'.last].pc = "committed"
    <3>1. connection # NoRow /\ connection.last # NoRow => connection.last \in Syncs
        BY DEF TypeOK
    <3> QED
        BY <1>1, <1>2, <3>1 DEF tables, RowsAreOfCommitted
  <2> QED
      BY <2>1, <2>2 DEF RowsAreOfCommitted
<1>3. CASE CreateConnection
    BY <1>1, <1>3, RowFields DEF CreateConnection, RowsAreOfCommitted
<1>4. ASSUME NEW s \in Syncs, Commit(s) PROVE RowsAreOfCommitted'
  <2>1. session'[s].pc = "committed" /\ connection' = [last |-> s]
      BY <1>4, Commits
  <2>2. ASSUME NEW x \in Products \X Days, sales'[x] # NoRow
        PROVE  session'[sales'[x].by].pc = "committed"
    <3>1. CASE Line(s, x) = {}
      <4>1. sales'[x] = sales[x]
          BY <1>4, <3>1, Commits
      <4> QED
          BY <1>1, <2>2, <4>1, RowFields DEF RowsAreOfCommitted
    <3>2. CASE Line(s, x) # {}
      <4>1. sales'[x] = [units |-> Cardinality(Line(s, x)), by |-> s]
          BY <1>4, <3>2, Commits
      <4> QED
          BY <2>1, <4>1
    <3> QED
        BY <3>1, <3>2
  <2> QED
      BY <2>1, <2>2 DEF RowsAreOfCommitted
<1> QED
    BY <1>2, <1>3, <1>4, TablesChange

-----------------------------------------------------------------------------
(* The orders of a product and a day.                                      *)
Cell(p, d) == {i \in DOMAIN orders : orders[i].product = p /\ orders[i].at \div Day = d}

LEMMA Cells ==
    ASSUME TypeOK, NEW p \in Products, NEW d \in Days
    PROVE  /\ Sold(p, d) = Cardinality(Cell(p, d)) /\ Sold(p, d) \in Nat
           /\ IsFiniteSet(Cell(p, d)) /\ (Sold(p, d) = 0 <=> Cell(p, d) = {})
           /\ \A I \in SUBSET Cell(p, d) : IsFiniteSet(I) /\ Cardinality(I) <= Sold(p, d)
<1>1. Sold(p, d) = Cardinality(Cell(p, d))
    BY DEF Sold, Cell
<1>2. Cell(p, d) \in SUBSET DOMAIN orders
    BY DEF Cell
<1>3. IsFiniteSet(Cell(p, d)) /\ Cardinality(Cell(p, d)) \in Nat
      /\ (Cardinality(Cell(p, d)) = 0 <=> Cell(p, d) = {})
    BY <1>2, OrderSets
<1> QED
    BY <1>1, <1>3, FS_Subset

LEMMA LinesAreOfTheCell ==
    ASSUME TypeOK, NEW s \in Syncs, session[s].got \subseteq DOMAIN orders,
           NEW p \in Products, NEW d \in Days
    PROVE  Line(s, <<p, d>>) = session[s].got \cap Cell(p, d)
BY DEF Line, Cell

(* An order of a day that is in the window from its first tick on is in    *)
(* the window, unless it came a day or more after the start.               *)
LEMMA CellsInTheWindow ==
    ASSUME TypeOK, NEW now \in Nat, NEW p \in Products, NEW d \in Days, now <= d * Day + Window,
           NEW i \in Cell(p, d), orders[i].at < now + Day
    PROVE  i \in Asked(now)
<1>1. i \in DOMAIN orders /\ orders[i].at \in Nat /\ orders[i].at \div Day = d
    BY OrderFields DEF Cell
<1>2. d \in Nat /\ Day \in Nat /\ Window \in Nat
    BY DaysAreNat, TimeAssumption
<1>3. d * Day <= orders[i].at
    BY <1>1, <1>2, DayOf
<1>4. d * Day \in Nat
    BY <1>2
<1>5. now <= orders[i].at + Window
    BY <1>1, <1>2, <1>3, <1>4
<1> QED
    BY <1>1, <1>5 DEF Asked, InWindow

(* A day that is over gains no order.                                      *)
LEMMA CellsGrow ==
    ASSUME TypeOK, TypeOK', Clocked, [Next]_vars, NEW p \in Products, NEW d \in Days
    PROVE  /\ Cell(p, d) \subseteq Cell(p, d)' /\ Sold(p, d) <= Sold(p, d)'
           /\ (d + 1) * Day <= clock => Sold(p, d)' = Sold(p, d)
<1>1. Cell(p, d) \subseteq Cell(p, d)'
    BY OrdersGrow DEF Cell
<1>2. IsFiniteSet(Cell(p, d)') /\ Sold(p, d)' = Cardinality(Cell(p, d)')
  <2>1. Cell(p, d)' \subseteq DOMAIN orders' /\ DOMAIN orders' = 1..Len(orders') /\ Len(orders') \in Nat
      BY DEF Cell, TypeOK
  <2>2. IsFiniteSet(DOMAIN orders')
      BY <2>1, FS_Interval
  <2> QED
      BY <2>1, <2>2, FS_Subset DEF Cell, Sold
<1>3. Cardinality(Cell(p, d)) <= Cardinality(Cell(p, d)')
    BY <1>1, <1>2, FS_Subset
<1>4. Sold(p, d) = Cardinality(Cell(p, d))
    BY Cells
<1>5. ASSUME (d + 1) * Day <= clock PROVE Cell(p, d)' = Cell(p, d)
  <2>1. ASSUME NEW i \in Cell(p, d)', i \notin Cell(p, d) PROVE FALSE
    <3>1. i \in DOMAIN orders' /\ orders'[i].product = p /\ orders'[i].at \div Day = d
        BY <2>1 DEF Cell
    <3>2. i \notin DOMAIN orders
        BY <2>1, <3>1, OrdersGrow DEF Cell
    <3>3. orders'[i].at = clock /\ clock \in Nat /\ d \in Nat
        BY <3>1, <3>2, OrdersGrow, DaysAreNat, TimeAssumption DEF TypeOK
    <3>4. clock < (d + 1) * Day
        BY <3>1, <3>3, DayOf
    <3>5. (d + 1) * Day \in Nat
        BY <3>3, TimeAssumption
    <3> QED
        BY <1>5, <3>3, <3>4, <3>5
  <2> QED
      BY <1>1, <2>1
<1> QED
    BY <1>1, <1>2, <1>3, <1>4, <1>5

-----------------------------------------------------------------------------
(* What a commit makes of a row.                                           *)
LEMMA CommittedUnits ==
    ASSUME TypeOK, NEW s \in Syncs, Commit(s), NEW x \in Products \X Days
    PROVE  /\ Line(s, x) = {} => Units(x)' = Units(x) /\ sales'[x] = sales[x]
           /\ Line(s, x) # {} => /\ Units(x)' = Cardinality(Line(s, x)) /\ Units(x)' > 0
                                 /\ sales'[x] # NoRow /\ sales'[x].by = s
<1>1. CASE Line(s, x) = {}
    BY <1>1, Commits DEF Units
<1>2. CASE Line(s, x) # {}
  <2>1. sales'[x] = [units |-> Cardinality(Line(s, x)), by |-> s] /\ Cardinality(Line(s, x)) \in Nat
      BY <1>2, Commits, Lines
  <2>2. Cardinality(Line(s, x)) > 0
      BY <1>2, <2>1, Lines
  <2>3. sales'[x] # NoRow
      BY <2>1, CommittedIsARow
  <2> QED
      BY <1>2, <2>1, <2>2, <2>3 DEF Units
<1> QED
    BY <1>1, <1>2

LEMMA RowsAreOfOrdersInductive ==
    ASSUME TypeOK, TypeOK', Clocked, WindowIsRead, RowsAreOfOrders, [Next]_vars
    PROVE  RowsAreOfOrders'
<1> SUFFICES ASSUME NEW p \in Products, NEW d \in Days
             PROVE  /\ Units(<<p, d>>)' <= Sold(p, d)'
                    /\ sales'[<<p, d>>] # NoRow => Units(<<p, d>>)' > 0
    BY DEF RowsAreOfOrders
<1> DEFINE x == <<p, d>>
<1>1. /\ Units(x) <= Sold(p, d) /\ (sales[x] # NoRow => Units(x) > 0) /\ Units(x) \in Nat
      /\ Sold(p, d) \in Nat /\ Sold(p, d) <= Sold(p, d)'
    BY RowFields, Cells, CellsGrow DEF RowsAreOfOrders
<1>2. Sold(p, d)' \in Nat
  <2>1. Cell(p, d)' \subseteq DOMAIN orders' /\ DOMAIN orders' = 1..Len(orders') /\ Len(orders') \in Nat
      BY DEF Cell, TypeOK
  <2>2. IsFiniteSet(DOMAIN orders')
      BY <2>1, FS_Interval
  <2>3. IsFiniteSet(Cell(p, d)')
      BY <2>1, <2>2, FS_Subset
  <2> QED
      BY <2>3, FS_CardinalityType DEF Cell, Sold
<1>3. CASE sales' = sales
    BY <1>1, <1>2, <1>3 DEF Units
<1>4. ASSUME NEW s \in Syncs, Commit(s)
      PROVE  Units(x)' <= Sold(p, d)' /\ (sales'[x] # NoRow => Units(x)' > 0)
  <2>1. CASE Line(s, x) = {}
      BY <1>1, <1>2, <1>4, <2>1, CommittedUnits
  <2>2. CASE Line(s, x) # {}
    <3>1. session[s].got \subseteq DOMAIN orders
        BY <1>4, Commits DEF WindowIsRead, HasRead, Kept, Asked
    <3>2. Line(s, x) \subseteq Cell(p, d)
        BY <3>1, LinesAreOfTheCell
    <3>3. Cardinality(Line(s, x)) <= Sold(p, d) /\ Cardinality(Line(s, x)) \in Nat
        BY <3>2, Cells, Lines
    <3> QED
        BY <1>1, <1>2, <1>4, <2>2, <3>3, CommittedUnits
  <2> QED
      BY <2>1, <2>2
<1>5. UNCHANGED tables \/ CreateConnection => sales' = sales
    BY DEF tables, CreateConnection
<1> QED
    BY <1>3, <1>4, <1>5, TablesChange

LEMMA NothingToLoseInductive ==
    ASSUME TypeOK, TypeOK', Clocked, Unread, OneHolds, WindowIsRead, RowsAreOfOrders, NothingToLose,
           [Next]_vars
    PROVE  NothingToLose'
<1> SUFFICES ASSUME NEW s \in Syncs, NEW p \in Products, NEW d \in Days,
                    session'[s].pc = "stored", session'[s].now <= d * Day + Window,
                    Fits(session[s].now)'
             PROVE  Units(<<p, d>>)' <= Cardinality(Line(s, <<p, d>>))'
    BY DEF NothingToLose
<1> DEFINE x == <<p, d>>
<1>0. PICK now \in Nat : now = session[s].now
    BY SessionFields
<1>1. ~ Starts(s) /\ ~ Stops(s) /\ ~ Moves(s)
    BY DEF Starts, Stops, Moves
<1>2. CASE Same(s)
  <2>1. session[s].pc = "stored" /\ session'[s].now = now /\ session'[s].got = session[s].got
      BY <1>0, <1>2 DEF Same
  <2>2. sales' = sales
    <3>1. ASSUME NEW r \in Syncs, Commit(r) PROVE FALSE
      <4>1. session[r].pc = "stored" /\ session'[r].pc = "committed"
          BY <3>1, Commits
      <4>2. r = s
          BY <2>1, <4>1 DEF OneHolds, Holding
      <4> QED
          BY <4>1, <4>2
    <3> QED
        BY <3>1, TablesChange DEF tables, CreateConnection
  <2>3. Fits(now)
    <3>1. Fits(now)'
        BY <2>1 DEF Fits, Asked
    <3> QED
        BY <3>1, WindowsGrow
  <2>4. Units(x) <= Cardinality(Line(s, x))
      BY <1>0, <2>1, <2>3 DEF NothingToLose
  <2>5. session[s].got \subseteq DOMAIN orders
      BY <2>1 DEF WindowIsRead, HasRead, Kept, Asked
  <2>6. Line(s, x)' = Line(s, x)
      BY <2>1, <2>5, OrdersGrow DEF Line
  <2> QED
      BY <2>2, <2>4, <2>6 DEF Units
<1>3. CASE ReadsOrders(s)
  <2>1. orders' = orders /\ sales' = sales /\ session'[s].now = now
      BY <1>0, <1>3 DEF ReadsOrders, tables
  <2>2. Fits(now)
      BY <2>1 DEF Fits, Asked
  <2>3. session'[s].got = Asked(now)
      BY <1>0, <1>3, <2>2, AllAreRead
  <2>4. \A i \in DOMAIN orders : orders[i].at < now + Day
    <3>1. clock < now + Day
        BY <1>0, <1>3 DEF Clocked, ReadsOrders, Reading
    <3>2. clock \in Nat /\ Day \in Nat
        BY TimeAssumption DEF TypeOK
    <3> QED
        BY <3>1, <3>2, OrderFields DEF Clocked
  <2>5. Cell(p, d) \subseteq Asked(now)
      BY <2>1, <2>4, CellsInTheWindow DEF Cell
  <2>6. Line(s, x)' = Cell(p, d)
      BY <2>1, <2>3, <2>5, AskedOrders DEF Line, Cell
  <2>7. Units(x)' = Units(x) /\ Units(x) <= Sold(p, d)
      BY <2>1 DEF Units, RowsAreOfOrders
  <2> QED
      BY <2>6, <2>7, Cells
<1> QED
    BY <1>1, <1>2, <1>3, Transitions

LEMMA WholeDaysInductive ==
    ASSUME TypeOK, TypeOK', Clocked, WindowIsRead, RowsAreOfCommitted, RowsAreOfOrders,
           WholeDaysAreExact, [Next]_vars
    PROVE  WholeDaysAreExact'
<1> SUFFICES ASSUME connection' # NoRow, connection'.last # NoRow,
                    NEW p \in Products, NEW d \in Days,
                    session'[connection'.last].now <= d * Day + Window,
                    (d + 1) * Day <= session'[connection'.last].now,
                    Fits(session[connection.last].now)'
             PROVE  Units(<<p, d>>)' = Sold(p, d)'
    BY DEF WholeDaysAreExact
<1> DEFINE x == <<p, d>>
<1>0. d \in Nat /\ Day \in Nat /\ (d + 1) * Day \in Nat /\ clock \in Nat
    BY DaysAreNat, TimeAssumption DEF TypeOK
<1>1. CASE UNCHANGED tables
  <2>1. connection' = connection /\ sales' = sales
      BY <1>1 DEF tables
  <2>2. PICK s \in Syncs : s = connection.last
      BY <2>1 DEF TypeOK
  <2>3. session[s].pc = "committed" /\ session'[s].pc = "committed" /\ session'[s].now = session[s].now
      BY <2>1, <2>2, CommitIsFinal DEF RowsAreOfCommitted
  <2>4. PICK now \in Nat : now = session[s].now /\ now <= clock
      BY SessionFields DEF Clocked
  <2>5. Fits(now)
    <3>1. Fits(now)'
        BY <2>1, <2>2, <2>3, <2>4 DEF Fits, Asked
    <3> QED
        BY <3>1, WindowsGrow
  <2>6. Units(x) = Sold(p, d)
      BY <2>1, <2>2, <2>3, <2>4, <2>5 DEF WholeDaysAreExact
  <2>7. (d + 1) * Day <= clock
      BY <1>0, <2>1, <2>2, <2>3, <2>4
  <2>8. Sold(p, d)' = Sold(p, d)
      BY <2>7, CellsGrow
  <2> QED
      BY <2>1, <2>6, <2>8 DEF Units
<1>2. CASE CreateConnection
    BY <1>2 DEF CreateConnection
<1>3. ASSUME NEW s \in Syncs, Commit(s)
      PROVE  Units(x)' = Sold(p, d)'
  <2>1. connection' = [last |-> s] /\ orders' = orders /\ session'[s].now = session[s].now
      BY <1>3, Commits
  <2>2. PICK now \in Nat : now = session[s].now
      BY SessionFields
  <2>3. Fits(now) /\ now <= d * Day + Window /\ (d + 1) * Day <= now
      BY <2>1, <2>2 DEF Fits, Asked
  <2>4. /\ session[s].got \subseteq DOMAIN orders
        /\ \A i \in Asked(now) : orders[i].at < now => i \in session[s].got
      BY <1>3, <2>2, <2>3, Commits DEF WindowIsRead, HasRead, Kept, Whole, Asked
  <2>5. Line(s, x) = Cell(p, d)
    <3>1. ASSUME NEW i \in Cell(p, d) PROVE i \in session[s].got
      <4>1. i \in DOMAIN orders /\ orders[i].at \in Nat /\ orders[i].at \div Day = d
          BY OrderFields DEF Cell
      <4>2. orders[i].at < (d + 1) * Day
          BY <1>0, <4>1, DayOf
      <4>3. orders[i].at < now
          BY <1>0, <2>3, <4>1, <4>2
      <4>4. i \in Asked(now)
          BY <1>0, <2>3, <4>1, <4>3, CellsInTheWindow
      <4> QED
          BY <2>4, <4>3, <4>4
    <3> QED
        BY <2>4, <3>1, LinesAreOfTheCell
  <2>6. Sold(p, d)' = Sold(p, d)
      BY <2>1 DEF Sold
  <2>7. Units(x) \in Nat /\ Units(x) <= Sold(p, d)
      BY RowFields DEF RowsAreOfOrders
  <2>8. CASE Line(s, x) = {}
      BY <1>3, <2>5, <2>6, <2>7, <2>8, Cells, CommittedUnits
  <2>9. CASE Line(s, x) # {}
      BY <1>3, <2>5, <2>6, <2>9, Cells, CommittedUnits
  <2> QED
      BY <2>8, <2>9
<1> QED
    BY <1>1, <1>2, <1>3, TablesChange

-----------------------------------------------------------------------------
Exact ==
    /\ TypeOK /\ Clocked /\ Unread /\ OneHolds /\ WindowIsRead
    /\ RowsAreOfCommitted /\ RowsAreOfOrders /\ NothingToLose /\ WholeDaysAreExact

LEMMA ExactInit == Init => Exact
<1> SUFFICES ASSUME Init PROVE Exact
    OBVIOUS
<1>1. TypeOK
    BY TypeInit
<1>2. Clocked
  <2>1. DOMAIN orders = {}
      BY DEF Init
  <2> QED
      BY <2>1 DEF Init, Clocked, Reading
<1>3. Unread /\ OneHolds /\ WindowIsRead
    BY DEF Init, Unread, OneHolds, Holding, WindowIsRead, HasRead
<1>4. \A x \in Products \X Days : sales[x] = NoRow /\ Units(x) = 0
    BY DEF Init, Units
<1>5. RowsAreOfCommitted /\ WholeDaysAreExact
    BY <1>4 DEF Init, RowsAreOfCommitted, WholeDaysAreExact
<1>6. NothingToLose
    BY DEF Init, NothingToLose
<1>7. RowsAreOfOrders
  <2>1. ASSUME NEW p \in Products, NEW d \in Days PROVE Sold(p, d) >= 0
      BY <1>1, Cells
  <2> QED
      BY <1>4, <2>1 DEF RowsAreOfOrders
<1> QED
    BY <1>1, <1>2, <1>3, <1>5, <1>6, <1>7 DEF Exact

LEMMA ExactInductive == Exact /\ [Next]_vars => Exact'
<1> SUFFICES ASSUME Exact, [Next]_vars PROVE Exact'
    OBVIOUS
<1>1. TypeOK'
    BY TypeInductive DEF Exact
<1>2. Clocked' /\ Unread' /\ OneHolds'
    BY <1>1, ClockedInductive, UnreadInductive, OneHoldsInductive DEF Exact
<1>3. WindowIsRead' /\ RowsAreOfCommitted'
    BY <1>1, WindowIsReadInductive, RowsAreOfCommittedInductive DEF Exact
<1>4. RowsAreOfOrders' /\ NothingToLose' /\ WholeDaysAreExact'
    BY <1>1, RowsAreOfOrdersInductive, NothingToLoseInductive, WholeDaysInductive DEF Exact
<1> QED
    BY <1>1, <1>2, <1>3, <1>4 DEF Exact

(* The aggregates of the days that were over when the last sync started,   *)
(* and wholly in its window, are the sums of the shop's orders, however    *)
(* many syncs overlapped or failed.                                        *)
THEOREM SalesOfWholeDays == Spec => []WholeDaysAreExact
<1>1. Exact => WholeDaysAreExact
    BY DEF Exact
<1> QED
    BY <1>1, ExactInit, ExactInductive, PTL DEF Spec

(* A sync that commits after another one, though it started before it,     *)
(* takes no sale away from a day inside its window.                        *)
THEOREM NoSaleIsTakenAway == Spec => NoSaleIsForgotten
<1> DEFINE Keeps ==
        \A p \in Products, d \in Days :
          connection' # connection /\ connection # NoRow =>
              LET now == session[connection'.last].now IN
              now <= d * Day + Window /\ Fits(now) => Units(<<p, d>>)' >= Units(<<p, d>>)
<1>1. Exact /\ [Next]_vars => Keeps
  <2> SUFFICES ASSUME Exact, [Next]_vars, NEW p \in Products, NEW d \in Days,
                      connection' # connection, connection # NoRow,
                      session[connection'.last].now <= d * Day + Window,
                      Fits(session[connection'.last].now)
               PROVE  Units(<<p, d>>)' >= Units(<<p, d>>)
      OBVIOUS
  <2>1. PICK s \in Syncs : Commit(s)
      BY TablesChange DEF tables, CreateConnection
  <2>2. connection' = [last |-> s] /\ session[s].pc = "stored"
      BY <2>1, Commits DEF Exact
  <2>3. Units(<<p, d>>) <= Cardinality(Line(s, <<p, d>>)) /\ Units(<<p, d>>) \in Nat
      BY <2>2, RowFields DEF Exact, NothingToLose
  <2> QED
      BY <2>1, <2>3, CommittedUnits DEF Exact
<1> QED
    BY <1>1, ExactInit, ExactInductive, PTL DEF Spec, NoSaleIsForgotten

-----------------------------------------------------------------------------
(* Induction over the natural numbers, for a set of them.                  *)
LEMMA NatSetInduction ==
    ASSUME NEW T, 0 \in T, \A n \in Nat : n \in T => n + 1 \in T
    PROVE  Nat \subseteq T
<1> DEFINE U == Nat \ T
           R == {z \in Nat \X Nat : z[1] < z[2]}
<1>1. SUFFICES ASSUME U # {} PROVE FALSE
    OBVIOUS
<1>2. IsWellFoundedOn(R, Nat)
  <2>1. R = OpToRel(<, Nat)
      BY DEF OpToRel
  <2> QED
      BY <2>1, NatLessThanWellFounded
<1> HIDE DEF R
<1>3. PICK m \in U : \A n \in U : <<n, m>> \notin R
    BY <1>1, <1>2, WFMin
<1>4. m \in Nat \ {0} /\ m - 1 \in Nat
    BY <1>3
<1>5. m - 1 \notin U
  <2>1. <<m - 1, m>> \in R
      BY <1>4 DEF R
  <2> QED
      BY <1>3, <2>1
<1>6. (m - 1) + 1 \in T /\ (m - 1) + 1 = m
    BY <1>4, <1>5
<1> QED
    BY <1>3, <1>6

(* The sums of a function over the subsets of a finite set, as the fold of *)
(* the community modules takes them.                                       *)
Chosen(s) == CHOOSE x \in s : TRUE
SumsOf(f, S, g) ==
    g = [s \in SUBSET S |-> IF s = {} THEN 0 ELSE f[Chosen(s)] + g[s \ {Chosen(s)}]]

LEMMA ChosenIsRemoved ==
    ASSUME NEW s, IsFiniteSet(s), s # {}
    PROVE  /\ Chosen(s) \in s /\ IsFiniteSet(s \ {Chosen(s)})
           /\ Cardinality(s) \in Nat /\ Cardinality(s \ {Chosen(s)}) \in Nat
           /\ Cardinality(s \ {Chosen(s)}) + 1 = Cardinality(s)
<1>1. Chosen(s) \in s
    BY DEF Chosen
<1> HIDE DEF Chosen
<1>2. Cardinality(s) \in Nat /\ IsFiniteSet(s \ {Chosen(s)})
      /\ Cardinality(s \ {Chosen(s)}) = Cardinality(s) - 1
    BY <1>1, FS_CardinalityType, FS_RemoveElement
<1>3. Cardinality(s \ {Chosen(s)}) \in Nat
    BY <1>2, FS_CardinalityType
<1> QED
    BY <1>1, <1>2, <1>3

(* There is one, built up by the size of the subset.                       *)
LEMMA SumsExist ==
    ASSUME NEW f, NEW S, IsFiniteSet(S)
    PROVE  \E g : SumsOf(f, S, g)
<1> DEFINE Small(n) == {s \in SUBSET S : Cardinality(s) <= n}
           Next1(g, s) == IF s = {} THEN 0 ELSE f[Chosen(s)] + g[s \ {Chosen(s)}]
           SumsUpTo(n, g) == g = [s \in Small(n) |-> Next1(g, s)]
           T == {n \in Nat : \E g : SumsUpTo(n, g)}
<1>0. \A s \in SUBSET S : IsFiniteSet(s) /\ Cardinality(s) \in Nat /\ (Cardinality(s) = 0 <=> s = {})
    BY FS_Subset, FS_CardinalityType, FS_EmptySet
<1>1. 0 \in T
  <2>1. Small(0) = {{}}
      BY <1>0
  <2>2. SumsUpTo(0, [s \in {{}} |-> 0])
      BY <2>1
  <2> QED
      BY <2>2
<1>2. ASSUME NEW n \in Nat, n \in T PROVE n + 1 \in T
  <2>1. PICK g : SumsUpTo(n, g)
      BY <1>2
  <2> DEFINE h == [s \in Small(n + 1) |-> Next1(g, s)]
  <2>2. ASSUME NEW s \in Small(n + 1), s # {}
        PROVE  s \ {Chosen(s)} \in Small(n)
    <3>1. Cardinality(s \ {Chosen(s)}) + 1 = Cardinality(s) /\ Cardinality(s \ {Chosen(s)}) \in Nat
        BY <1>0, <2>2, ChosenIsRemoved
    <3>2. Cardinality(s) <= n + 1 /\ s \ {Chosen(s)} \in SUBSET S
        OBVIOUS
    <3> HIDE DEF Chosen
    <3> QED
        BY <3>1, <3>2
  <2>3. Small(n) \subseteq Small(n + 1)
      BY <1>0
  <2>4. \A s \in Small(n) : h[s] = g[s]
      BY <2>1, <2>3
  <2> HIDE DEF Small
  <2>5. \A s \in Small(n + 1) : Next1(g, s) = Next1(h, s)
      BY <2>2, <2>4
  <2>6. SumsUpTo(n + 1, h)
      BY <2>5
  <2> HIDE DEF h, SumsUpTo
  <2> QED
      BY <2>6
<1> HIDE DEF T
<1>3. Cardinality(S) \in T
  <2>1. Nat \subseteq T
      BY <1>1, <1>2, NatSetInduction
  <2> QED
      BY <1>0, <2>1
<1>4. PICK g : SumsUpTo(Cardinality(S), g)
    BY <1>3 DEF T
<1>5. Small(Cardinality(S)) = SUBSET S
    BY FS_Subset
<1> HIDE DEF Small
<1> QED
    BY <1>4, <1>5 DEF SumsOf

(* Adding up, cell by cell, how many of a finite set fall into each cell,  *)
(* counts the members that fall into any of them.                          *)
LEMMA SumOfCells ==
    ASSUME NEW got, IsFiniteSet(got), NEW cell, NEW S, IsFiniteSet(S),
           NEW f, \A x \in S : f[x] = Cardinality({i \in got : cell[i] = x}),
           NEW g, SumsOf(f, S, g)
    PROVE  g[S] = Cardinality({i \in got : cell[i] \in S})
<1> DEFINE In(s) == {i \in got : cell[i] \in s}
           T == {n \in Nat : \A s \in SUBSET S : Cardinality(s) = n => g[s] = Cardinality(In(s))}
<1>0. \A s \in SUBSET S : IsFiniteSet(s) /\ Cardinality(s) \in Nat /\ (Cardinality(s) = 0 <=> s = {})
    BY FS_Subset, FS_CardinalityType, FS_EmptySet
<1>1. \A s \in SUBSET S : g[s] = IF s = {} THEN 0 ELSE f[Chosen(s)] + g[s \ {Chosen(s)}]
    BY DEF SumsOf
<1>2. 0 \in T
  <2>1. In({}) = {}
      OBVIOUS
  <2>2. \A s \in SUBSET S : Cardinality(s) = 0 => g[s] = Cardinality(In(s))
      BY <1>0, <1>1, <2>1, FS_EmptySet
  <2> QED
      BY <2>2
<1>3. ASSUME NEW n \in Nat, n \in T PROVE n + 1 \in T
  <2>1. ASSUME NEW s \in SUBSET S, Cardinality(s) = n + 1
        PROVE  g[s] = Cardinality(In(s))
    <3> DEFINE x == Chosen(s)
               r == s \ {x}
               One == {i \in got : cell[i] = x}
    <3>1. s # {} /\ x \in s /\ Cardinality(r) = n /\ r \in SUBSET S
        BY <1>0, <2>1, ChosenIsRemoved
    <3>2. g[s] = f[x] + g[r]
        BY <1>1, <3>1
    <3> HIDE DEF x
    <3>3. g[r] = Cardinality(In(r)) /\ f[x] = Cardinality(One)
        BY <1>3, <3>1
    <3>4. In(s) = One \cup In(r) /\ One \cap In(r) = {}
        BY <3>1
    <3>5. IsFiniteSet(One) /\ IsFiniteSet(In(r))
        BY FS_Subset
    <3> HIDE DEF One, r, In
    <3>6. Cardinality(In(s)) = Cardinality(One) + Cardinality(In(r)) - Cardinality({})
        BY <3>4, <3>5, FS_Union
    <3>7. Cardinality({}) = 0 /\ Cardinality(One) \in Nat /\ Cardinality(In(r)) \in Nat
        BY <3>5, FS_EmptySet, FS_CardinalityType
    <3> QED
        BY <3>2, <3>3, <3>6, <3>7
  <2> QED
      BY <2>1
<1> HIDE DEF T
<1>4. Cardinality(S) \in T
  <2>1. Nat \subseteq T
      BY <1>2, <1>3, NatSetInduction
  <2> QED
      BY <1>0, <2>1
<1> QED
    BY <1>4 DEF T

(* The units of the rows of one sync.                                      *)
UnitsIn(row, x) == IF row[x] = NoRow THEN 0 ELSE row[x].units
Total(row, S) == MapThenSumSet(LAMBDA x : UnitsIn(row, x), S)
RowsOf(row, s) == {x \in Products \X Days : row[x] # NoRow /\ row[x].by = s}

LEMMA TotalIsASum ==
    ASSUME NEW row, NEW S, IsFiniteSet(S), NEW f, \A x \in S : f[x] = UnitsIn(row, x)
    PROVE  \E g : SumsOf(f, S, g) /\ Total(row, S) = g[S]
<1> DEFINE Sums(g) ==
        g = [s \in SUBSET S |-> IF s = {} THEN 0 ELSE UnitsIn(row, Chosen(s)) + g[s \ {Chosen(s)}]]
<1>1. \A g : SumsOf(f, S, g) <=> Sums(g)
  <2>1. \A s \in SUBSET S : s # {} => f[Chosen(s)] = UnitsIn(row, Chosen(s))
    <3>1. \A s \in SUBSET S : s # {} => Chosen(s) \in S
        BY DEF Chosen
    <3> QED
        BY <3>1
  <2> HIDE DEF Chosen, UnitsIn
  <2> QED
      BY <2>1 DEF SumsOf
<1>2. \E g : Sums(g)
    BY <1>1, SumsExist
<1>3. \E g : Sums(g) /\ Total(row, S) = g[S]
    BY <1>2 DEF Total, MapThenSumSet, MapThenFoldSet, Chosen
<1> QED
    BY <1>1, <1>3

OfOneSync ==
    connection # NoRow /\ connection.last # NoRow =>
        /\ \A p \in Listed : snapshots[p] = connection.last
        /\ profile.by = connection.last
        /\ profile.units = Total(sales, RowsOf(sales, connection.last))

LEMMA TablesTotal == OfOneSync => TablesAreOfOneSync
BY DEF OfOneSync, TablesAreOfOneSync, Total, RowsOf, MapThenSumSet, MapThenFoldSet, UnitsIn, Units

LEMMA OfOneSyncInductive ==
    ASSUME Exact, OfOneSync, [Next]_vars
    PROVE  OfOneSync'
<1>1. CASE UNCHANGED tables
    BY <1>1 DEF tables, OfOneSync
<1>2. CASE CreateConnection
    BY <1>2 DEF CreateConnection, OfOneSync
<1>3. ASSUME NEW s \in Syncs, Commit(s) PROVE OfOneSync'
  <2> DEFINE got == session[s].got
             cell == [i \in DOMAIN orders |-> <<orders[i].product, orders[i].at \div Day>>]
             S == RowsOf(sales', s)
             f == [x \in S |-> UnitsIn(sales', x)]
  <2>0. TypeOK /\ session[s].pc = "stored"
      BY <1>3, Commits DEF Exact
  <2>1. got \subseteq DOMAIN orders
      BY <2>0 DEF Exact, WindowIsRead, HasRead, Kept, Asked
  <2>2. IsFiniteSet(got) /\ got \subseteq 1..MaxOrders
    <3>1. got \subseteq 1..MaxOrders /\ MaxOrders \in Nat
        BY <2>0, SessionFields, TimeAssumption
    <3>2. IsFiniteSet(1..MaxOrders)
        BY <3>1, FS_Interval
    <3> QED
        BY <3>1, <3>2, FS_Subset
  <2>3. \A i \in got : cell[i] \in Products \X Days
      BY <2>0, <2>1, OrderFields, DaysOfTheClock
  <2>4. \A x \in Products \X Days : Line(s, x) = {i \in got : cell[i] = x}
      BY <2>1 DEF Line
  <2> HIDE DEF cell
  <2>5. \A x \in Products \X Days : sales[x] # NoRow => sales[x].by # s
      BY <2>0 DEF Exact, RowsAreOfCommitted
  <2>6. \A x \in Products \X Days : x \in S <=> Line(s, x) # {}
      BY <1>3, <2>0, <2>5, CommittedUnits DEF RowsOf
  <2>7. \A x \in S : UnitsIn(sales', x) = Cardinality({i \in got : cell[i] = x})
    <3> SUFFICES ASSUME NEW x \in S
                 PROVE  UnitsIn(sales', x) = Cardinality({i \in got : cell[i] = x})
        OBVIOUS
    <3>1. x \in Products \X Days /\ Line(s, x) # {}
        BY <2>6 DEF RowsOf
    <3>2. Units(x)' = Cardinality(Line(s, x))
        BY <1>3, <2>0, <3>1, CommittedUnits
    <3>3. Units(x)' = UnitsIn(sales', x)
        BY DEF Units, UnitsIn
    <3> QED
        BY <2>4, <3>1, <3>2, <3>3
  <2>8. S = {cell[i] : i \in got}
      BY <2>3, <2>4, <2>6 DEF RowsOf
  <2>9. IsFiniteSet(S)
    <3> DEFINE c == [i \in got |-> cell[i]]
    <3>1. S = {c[i] : i \in got} /\ c \in [got -> S]
        BY <2>8
    <3>2. c \in Surjection(got, S)
        BY <3>1 DEF Surjection
    <3> QED
        BY <2>2, <3>2, FS_Surjection
  <2> HIDE DEF S
  <2>10. PICK g : SumsOf(f, S, g) /\ Total(sales', S) = g[S]
      BY <2>9, TotalIsASum
  <2>11. g[S] = Cardinality({i \in got : cell[i] \in S})
      BY <2>2, <2>7, <2>9, <2>10, SumOfCells
  <2>12. {i \in got : cell[i] \in S} = got
      BY <2>8
  <2>13. profile' = BuildProfile(s) /\ connection' = [last |-> s] /\ snapshots' = [p \in Listed |-> s]
      BY <1>3 DEF Commit
  <2> QED
      BY <2>10, <2>11, <2>12, <2>13 DEF OfOneSync, BuildProfile, S
<1> QED
    BY <1>1, <1>2, <1>3, TablesChange

(* What the tables show together is of one sync, and adds up.              *)
THEOREM TablesAgree == Spec => []TablesAreOfOneSync
<1>1. Init => OfOneSync
    BY DEF Init, OfOneSync
<1>2. Exact /\ OfOneSync /\ [Next]_vars => OfOneSync'
    BY OfOneSyncInductive
<1> QED
    BY <1>1, <1>2, TablesTotal, ExactInit, ExactInductive, PTL DEF Spec
=============================================================================
