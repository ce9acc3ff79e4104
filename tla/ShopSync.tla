------------------------------ MODULE ShopSync ------------------------------
(***************************************************************************)
(* ShopSyncService.sync: a shop's products, stock and orders of the last   *)
(* 90 days become product snapshots, sales per product and day, and one    *)
(* profile.  A sync asks the shop three times, each call retried a few     *)
(* times; it takes its timestamp first, then reads products and stock,     *)
(* upserts the products, reads the orders and upserts the rest, in one     *)
(* transaction which a discovery run may keep open for long.  The upsert   *)
(* of the first listed product makes every later sync wait for it.         *)
(*                                                                         *)
(* Time is counted in ticks, Day of them to a day.                         *)
(***************************************************************************)
EXTENDS Naturals, Sequences, FiniteSets, FiniteSetsExt

CONSTANTS
    Products,    \* products orders may be for
    Listed,      \* those the shop still lists
    Syncs,       \* the syncs that may be asked for
    Day,         \* ticks in a day
    Window,      \* ticks in the sales window (90 days)
    Page,        \* orders the shop answers with; the sync reads one page
    MaxRetries,
    MaxClock, MaxOrders,     \* bounds of the model
    NoRow

ASSUME ListedAssumption == Listed \subseteq Products /\ Listed # {}
ASSUME TimeAssumption ==
    /\ Day \in Nat \ {0} /\ Window \in Nat /\ Page \in Nat /\ MaxRetries \in Nat
    /\ MaxClock \in Nat /\ MaxOrders \in Nat
VARIABLES
    clock,
    orders,      \* the shop's orders, one line of one unit each, as they come
    connection,  \* commerce_connections: NoRow, or the sync last_sync_at is of
    snapshots,   \* shop_product_snapshots: the sync snapshot_at is of
    sales,       \* sales_aggregates, by product and day
    profile,     \* shop_intelligence_profiles
    session

vars == <<clock, orders, connection, snapshots, sales, profile, session>>

Days == 0..(MaxClock \div Day)
Sale == [units : Nat, by : Syncs]
ASSUME NoRowAssumption == NoRow \notin Syncs \cup Sale \cup [last : Syncs \cup {NoRow}]

Session == [pc : {"idle", "products", "inventory", "saving", "orders", "stored", "committed",
                  "rolledback", "notfound"},
            now : 0..MaxClock, tries : 0..MaxRetries, got : SUBSET (1..MaxOrders)]

TypeOK ==
    /\ clock \in 0..MaxClock
    /\ orders \in Seq([at : 0..MaxClock, product : Products]) /\ Len(orders) <= MaxOrders
    /\ connection \in [last : Syncs \cup {NoRow}] \cup {NoRow}
    /\ snapshots \in [Listed -> Syncs \cup {NoRow}]
    /\ sales \in [Products \X Days -> Sale \cup {NoRow}]
    /\ profile \in Sale \cup {NoRow}
    /\ session \in [Syncs -> Session]

Init ==
    /\ clock = 0
    /\ orders = << >>
    /\ connection = NoRow
    /\ snapshots = [p \in Listed |-> NoRow]
    /\ sales = [x \in Products \X Days |-> NoRow]
    /\ profile = NoRow
    /\ session = [s \in Syncs |-> [pc |-> "idle", now |-> 0, tries |-> 0, got |-> {}]]

Reading(s) == session[s].pc \in {"products", "inventory", "saving", "orders"}
Holding(s) == session[s].pc \in {"orders", "stored"}
Live(s) == Reading(s) \/ session[s].pc = "stored"
tables == <<connection, snapshots, sales, profile>>

-----------------------------------------------------------------------------
(* The shop.  A sync lasts less than a day: its window ends a day from its *)
(* start, and an order it could not ask for does not come before it asked. *)
Tick ==
    /\ clock < MaxClock
    /\ \A s \in Syncs : Reading(s) => clock + 1 < session[s].now + Day
    /\ clock' = clock + 1
    /\ UNCHANGED <<orders, tables, session>>

PlaceOrder(p) ==
    /\ Len(orders) < MaxOrders
    /\ orders' = Append(orders, [at |-> clock, product |-> p])
    /\ UNCHANGED <<clock, tables, session>>

(* Mutant: an order exactly as old as the window is left out.              *)
InWindowAfter(now, at) == now < at + Window /\ at < now + Day

InWindow(now, at) == now <= at + Window /\ at < now + Day
Asked(now) == {i \in DOMAIN orders : InWindow(now, orders[i].at)}
Fits(now) == Cardinality(Asked(now)) <= Page

-----------------------------------------------------------------------------
CreateConnection ==
    /\ connection = NoRow
    /\ connection' = [last |-> NoRow]
    /\ UNCHANGED <<clock, orders, snapshots, sales, profile, session>>

Start(s) ==
    /\ session[s].pc = "idle" /\ connection # NoRow
    /\ session' = [session EXCEPT ![s].pc = "products", ![s].now = clock]
    /\ UNCHANGED <<clock, orders, tables>>

NotFound(s) ==
    /\ session[s].pc = "idle" /\ connection = NoRow
    /\ session' = [session EXCEPT ![s].pc = "notfound"]
    /\ UNCHANGED <<clock, orders, tables>>

(* The steps of a sync in their order; mutant: the orders are read with    *)
(* the products, before their rows are written.                            *)
OrdersFirst(pc) ==
    CASE pc = "products" -> "inventory" [] pc = "inventory" -> "orders"
      [] pc = "orders" -> "saving" [] pc = "saving" -> "stored"

After(pc) ==
    CASE pc = "products" -> "inventory" [] pc = "inventory" -> "saving"
      [] pc = "saving" -> "orders" [] pc = "orders" -> "stored"

Calling(s) == session[s].pc \in {"products", "inventory", "orders"}
Proceeds(s) == [session[s] EXCEPT !.pc = After(@), !.tries = 0]

(* One call of the shop answered; only the orders depend on the moment.    *)
Answer(s) ==
    /\ Calling(s)
    /\ \E page \in (IF session[s].pc = "orders"
                    THEN {I \in SUBSET Asked(session[s].now) :
                            Cardinality(I) = Min({Page, Cardinality(Asked(session[s].now))})}
                    ELSE {{}}) :
         session' = [session EXCEPT ![s] = [Proceeds(s) EXCEPT !.got = @ \cup page]]
    /\ UNCHANGED <<clock, orders, tables>>

(* 429 or 5xx: tried again after a pause.  Mutants: once more than that;   *)
(* for ever, counting anew.                                                *)
BusyOnceMore(s) ==
    /\ Calling(s) /\ session[s].tries <= MaxRetries
    /\ session' = [session EXCEPT ![s].tries = @ + 1]
    /\ UNCHANGED <<clock, orders, tables>>

BusyForEver(s) ==
    /\ Calling(s)
    /\ session' = [session EXCEPT ![s].tries = (@ + 1) % (MaxRetries + 1)]
    /\ UNCHANGED <<clock, orders, tables>>

Busy(s) ==
    /\ Calling(s) /\ session[s].tries < MaxRetries
    /\ session' = [session EXCEPT ![s].tries = @ + 1]
    /\ UNCHANGED <<clock, orders, tables>>

(* 401, 403, another error, or one busy answer too many: an exception.     *)
Fail(s) ==
    /\ Calling(s)
    /\ session' = [session EXCEPT ![s].pc = "rolledback"]
    /\ UNCHANGED <<clock, orders, tables>>

Save(s) ==
    /\ session[s].pc = "saving"
    /\ \A r \in Syncs \ {s} : ~Holding(r)
    /\ session' = [session EXCEPT ![s] = Proceeds(s)]
    /\ UNCHANGED <<clock, orders, tables>>

(* The rows upserted, which others see when the transaction commits.       *)
Line(s, x) == {i \in session[s].got : orders[i].product = x[1] /\ orders[i].at \div Day = x[2]}

(* Mutant: a row that exists is left alone.                                *)
UpsertSalesOnce(s) ==
    [x \in Products \X Days |->
        IF Line(s, x) = {} \/ sales[x] # NoRow THEN sales[x]
        ELSE [units |-> Cardinality(Line(s, x)), by |-> s]]

UpsertSales(s) ==
    [x \in Products \X Days |->
        IF Line(s, x) = {} THEN sales[x] ELSE [units |-> Cardinality(Line(s, x)), by |-> s]]

BuildProfile(s) == [units |-> Cardinality(session[s].got), by |-> s]

Commit(s) ==
    /\ session[s].pc = "stored"
    /\ snapshots' = [p \in Listed |-> s]
    /\ sales' = UpsertSales(s)
    /\ profile' = BuildProfile(s)
    /\ connection' = [last |-> s]
    /\ session' = [session EXCEPT ![s].pc = "committed"]
    /\ UNCHANGED <<clock, orders>>

(* A later step of the discovery run fails, the client goes away, a crash. *)
Rollback(s) ==
    /\ Live(s)
    /\ session' = [session EXCEPT ![s].pc = "rolledback"]
    /\ UNCHANGED <<clock, orders, tables>>

-----------------------------------------------------------------------------
Proceed(s) == Answer(s) \/ Busy(s) \/ Fail(s) \/ Save(s) \/ Commit(s)

Quiet ==
    /\ clock = MaxClock
    /\ \A s \in Syncs : session[s].pc \in {"committed", "rolledback", "notfound"}
    /\ UNCHANGED vars

Next ==
    \/ Tick \/ CreateConnection \/ Quiet
    \/ \E p \in Products : PlaceOrder(p)
    \/ \E s \in Syncs : Start(s) \/ NotFound(s) \/ Proceed(s) \/ Rollback(s)

Spec == Init /\ [][Next]_vars

(* Every call of the shop returns (the client times out after 30 seconds), *)
(* the event loop resumes the sync and the database grants free locks.     *)
FairSpec == Spec /\ \A s \in Syncs : WF_vars(Proceed(s))

-----------------------------------------------------------------------------
Sold(p, d) == Cardinality({i \in DOMAIN orders : orders[i].product = p /\ orders[i].at \div Day = d})
Units(x) == IF sales[x] = NoRow THEN 0 ELSE sales[x].units

(* What a reader takes for one picture of the shop is one: the snapshots,  *)
(* the profile and last_sync_at are of the same sync, and the sales rows   *)
(* of that sync add up to what the profile was built from.                 *)
TablesAreOfOneSync ==
    connection # NoRow /\ connection.last # NoRow =>
        LET s == connection.last IN
        /\ \A p \in Listed : snapshots[p] = s
        /\ profile.by = s
        /\ profile.units = MapThenSumSet(Units,
               {x \in Products \X Days : sales[x] # NoRow /\ sales[x].by = s})

(* The sales of a day that was over when the last sync started, and is in  *)
(* its window from the first tick on, are exact, provided the window's     *)
(* orders fit on one page.                                                 *)
WholeDaysAreExact ==
    connection # NoRow /\ connection.last # NoRow =>
        LET now == session[connection.last].now IN
        \A p \in Products, d \in Days :
            now <= d * Day + Window /\ (d + 1) * Day <= now /\ Fits(now)
                => Units(<<p, d>>) = Sold(p, d)

(* A sync that waited for another one, with an older timestamp, does not   *)
(* take sales away from a day inside its window.                           *)
NoSaleIsForgotten ==
    [][\A p \in Products, d \in Days :
          connection' # connection /\ connection # NoRow =>
              LET now == session[connection'.last].now IN
              now <= d * Day + Window /\ Fits(now) => Units(<<p, d>>)' >= Units(<<p, d>>)]_vars

(* Every sync ends: calls are not retried for ever, and none waits for     *)
(* ever for the one that holds the rows.                                   *)
EverySyncEnds == \A s \in Syncs : Live(s) ~> ~Live(s)

-----------------------------------------------------------------------------
(* What the retention policy says and the code does not keep: sales once   *)
(* aggregated stay.  The window does not start at midnight: the day it     *)
(* cuts is aggregated again, without the orders before the cut.            *)
SalesAreRetained ==
    [][\A x \in Products \X Days : Fits(clock) => Units(x)' >= Units(x)]_vars
=============================================================================
