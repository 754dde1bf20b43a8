----------------------------- MODULE Analytics -----------------------------
(***************************************************************************)
(* The facts of one day (modules/analytics): rebuild_day reads the tables  *)
(* it sums up and the facts that are there, one query after the other, and *)
(* inserts or updates the facts in one commit.  It is run by the nightly   *)
(* task, again when its worker is lost, and on request, so that rebuilds   *)
(* of a day overlap with each other and with the changes they sum up.      *)
(*                                                                         *)
(* One count stands for the counts and sums of orders, deliveries and      *)
(* drivers, which are found alike; the stock is that of one product in one *)
(* warehouse, which has a fact of its own although the stock has a row per *)
(* location.  The ranges that are read from the facts are left out.        *)
(***************************************************************************)
EXTENDS Naturals, FiniteSets

CONSTANTS
  Rebuild,      \* rebuilds that may be under way at a time
  StockId,      \* stock rows of the product in the warehouse
  MaxCount,     \* bounds the count and the quantities
  Missing       \* no row

ASSUME AnalyticsAssumption ==
  /\ IsFiniteSet(StockId)
  /\ MaxCount \in Nat
  /\ Missing \notin 0..MaxCount

VARIABLES
  count,      \* what the queries on orders, deliveries and drivers return
  stock,      \* quantity of each stock row
  facts,      \* the facts of the day, of the counts and of the stock
  rebuild,    \* what each rebuild has read, as the rows it will write
  disturbed,  \* history: rebuilds under way that others committed under
  settled     \* history: was a rebuild, which none disturbed, the last to commit?

analyticsVars == <<count, stock, facts, rebuild, disturbed, settled>>

Value == 0..MaxCount

Idle == [step |-> "idle"]

\* A row that is not to be written, to be inserted or updated, or to be inserted
\* more than once.
Keep == [op |-> "keep"]
Refused == [op |-> "refused"]
Write == {Keep, Refused} \cup [op : {"insert", "update"}, value : Value]

Plan == [step : {"counted"}, counts : Write] \cup [step : {"read"}, counts : Write, stock : Write]

Rebuilding == {r \in Rebuild : rebuild[r] # Idle}

Rows == {s \in StockId : stock[s] # Missing}

\* One type invariant.  The facts of a day are committed together: there is none
\* of the stock without those of the orders.
AnalyticsTypeOK ==
  /\ count \in Value
  /\ stock \in [StockId -> Value \cup {Missing}]
  /\ facts \in [counts : Value \cup {Missing}, stock : Value \cup {Missing}]
  /\ rebuild \in [Rebuild -> Plan \cup {Idle}]
  /\ disturbed \subseteq Rebuilding
  /\ settled \in BOOLEAN
  /\ facts.counts = Missing => facts.stock = Missing

AnalyticsInit ==
  /\ count = 0
  /\ stock = [s \in StockId |-> Missing]
  /\ facts = [counts |-> Missing, stock |-> Missing]
  /\ rebuild = [r \in Rebuild |-> Idle]
  /\ disturbed = {}
  /\ settled = FALSE

-----------------------------------------------------------------------------
(* What is summed up changes meanwhile: an order is created, an order of    *)
(* that day is updated on another and drops out of its counts, stock moves, *)
(* a second location gets a row, the warehouse is deleted.                  *)

Disturb ==
  /\ disturbed' = Rebuilding
  /\ settled' = FALSE
  /\ UNCHANGED <<facts, rebuild>>

Recount(n) ==
  /\ n # count
  /\ count' = n
  /\ Disturb
  /\ UNCHANGED stock

SetStock(s, q) ==
  /\ stock[s] # q
  /\ stock' = [stock EXCEPT ![s] = q]
  /\ Disturb
  /\ UNCHANGED count

DropStock ==
  /\ Rows # {}
  /\ stock' = [s \in StockId |-> Missing]
  /\ Disturb
  /\ UNCHANGED count

-----------------------------------------------------------------------------
\* Mutant: a fact is inserted and never updated.
InsertOnly(fact, v) == IF fact = Missing THEN [op |-> "insert", value |-> v] ELSE Keep

\* The session emits an UPDATE only for a value that differs from the loaded one.
Upsert(fact, v) ==
  IF fact = v THEN Keep ELSE [op |-> IF fact = Missing THEN "insert" ELSE "update", value |-> v]

\* _upsert_orders, _upsert_deliveries and _upsert_drivers.
CountUp(r) ==
  /\ rebuild[r] = Idle
  /\ rebuild' = [rebuild EXCEPT ![r] = [step |-> "counted", counts |-> Upsert(facts.counts, count)]]
  /\ UNCHANGED <<count, stock, facts, disturbed, settled>>

\* _upsert_inventory: of the rows, in any order, the last one stays in the fact
\* that is there.  If there is none, each row inserts one, since nothing is
\* flushed before the commit.
Upserts ==
  IF Rows = {} THEN {Keep}
  ELSE IF facts.stock = Missing /\ Cardinality(Rows) > 1 THEN {Refused}
  ELSE {Upsert(facts.stock, stock[s]) : s \in Rows}

ReadStock(r) ==
  /\ rebuild[r].step = "counted"
  /\ \E w \in Upserts :
       rebuild' = [rebuild EXCEPT ![r] = [step |-> "read", counts |-> @.counts, stock |-> w]]
  /\ UNCHANGED <<count, stock, facts, disturbed, settled>>

\* The unique constraints.
Fits(write, fact) == write.op \in {"keep", "update"} \/ (write.op = "insert" /\ fact = Missing)

Passes(plan) == Fits(plan.counts, facts.counts) /\ Fits(plan.stock, facts.stock)

Written(write, fact) == IF write = Keep THEN fact ELSE write.value

Ends(r) == rebuild' = [rebuild EXCEPT ![r] = Idle]

\* Mutant: the stock is committed on its own.
CommitStock(r) ==
  /\ rebuild[r].step = "read"
  /\ Passes(rebuild[r])
  /\ facts' = [facts EXCEPT !.stock = Written(rebuild[r].stock, @)]
  /\ disturbed' = Rebuilding \ {r}
  /\ settled' = (r \notin disturbed)
  /\ Ends(r)
  /\ UNCHANGED <<count, stock>>

Commit(r) ==
  /\ rebuild[r].step = "read"
  /\ Passes(rebuild[r])
  /\ facts' = [counts |-> Written(rebuild[r].counts, facts.counts),
               stock |-> Written(rebuild[r].stock, facts.stock)]
  /\ disturbed' = Rebuilding \ {r}
  /\ settled' = (r \notin disturbed)
  /\ Ends(r)
  /\ UNCHANGED <<count, stock>>

\* The commit is refused and nothing of the rebuild stays.
Fail(r) ==
  /\ rebuild[r].step = "read"
  /\ ~Passes(rebuild[r])
  /\ disturbed' = disturbed \ {r}
  /\ settled' = (settled \/ r \notin disturbed)
  /\ Ends(r)
  /\ UNCHANGED <<count, stock, facts>>

\* The worker or the server is lost.  Celery runs the task again.
Die(r) ==
  /\ r \in Rebuilding
  /\ disturbed' = disturbed \ {r}
  /\ Ends(r)
  /\ UNCHANGED <<count, stock, facts, settled>>

-----------------------------------------------------------------------------
Change ==
  \/ \E n \in Value : Recount(n)
  \/ \E s \in StockId, q \in Value : SetStock(s, q)
  \/ DropStock

RebuildDay(r) == CountUp(r) \/ ReadStock(r) \/ Commit(r) \/ Fail(r) \/ Die(r)

AnalyticsNext == Change \/ \E r \in Rebuild : RebuildDay(r)

AnalyticsSpec == AnalyticsInit /\ [][AnalyticsNext]_analyticsVars
-----------------------------------------------------------------------------
(* Properties.                                                              *)

\* A rebuild is an idempotent recomputation (docs/13-glossary.md:104): whatever
\* the facts were, after one that nothing was committed under they are what is
\* there now.  A product in two locations of the warehouse has to have a fact
\* already, or the whole day is refused; the fact then shows one of its rows.
FactsAgree ==
  settled /\ (facts.stock # Missing \/ Cardinality(Rows) <= 1) =>
    /\ facts.counts = count
    /\ Rows # {} => facts.stock \in {stock[s] : s \in Rows}
=============================================================================
