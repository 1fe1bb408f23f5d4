----------------------------- MODULE OrderBooks -----------------------------
(***************************************************************************)
(* What a synchronisation does to the orders of one store, in the storing  *)
(* transaction of sync_owned_store (sales_sync_service.py): each snapshot  *)
(* that Rakuten has sent is reconciled with the stored order, its lines    *)
(* and their adjustments, then the daily sales of the affected dates are   *)
(* rebuilt and what is older than the retention is pruned.  The lease lets *)
(* one such transaction act at a time (SalesSyncLease); one that fails     *)
(* leaves no trace, so only those that complete are steps here.            *)
(*                                                                         *)
(* Time passes in half days, the slots; a day has two of them.  Prices and *)
(* amounts are left out: an amount that no line accounts for is a reason   *)
(* to keep an adjustment open, like the flags of a partial refund.         *)
(***************************************************************************)
EXTENDS Integers, FiniteSets, FiniteSetsExt

CONSTANTS
  Orders, Lines,   (* order numbers; item_detail_ids, each one product      *)
  Reports,         (* what a snapshot may say of a line                     *)
  Terms,           (* what it may say of the order                          *)
  Versions,        (* bound: updateDatetime of a snapshot, 0 if it has none *)
  MaxSlot,         (* bound: slots                                          *)
  Retention,       (* ORDER_RETENTION_DAYS                                  *)
  WholeMoves       (* TRUE: an order whose date changes lists all its lines *)

VARIABLES
  now,     \* the slot that _now() reads
  order,   \* rows of lt_sales_orders
  item,    \* rows of lt_sales_order_items
  adj,     \* rows of lt_sales_item_adjustments, by source
  daily,   \* rows of lt_product_sales_daily
  open,    \* a storing transaction has begun
  dates    \* its affected_dates

bookVars == <<now, order, item, adj, daily, open, dates>>

Kinds == {"refunded", "returned"}
Sources == ({"confirmed"} \X {"canceled", "refunded", "returned"}) \cup ({"unresolved"} \X Kinds)
Slots == 0..MaxSlot
Day(slot) == slot \div 2
Days == 0..Day(MaxSlot)
Absent == "absent"

Report == [units : Nat, canceled : Nat, refund : Nat, return : Nat,
           both : BOOLEAN, deleted : BOOLEAN]
Term == [canceled : BOOLEAN, full : SUBSET Kinds, units : [Kinds -> Nat], partial : SUBSET Kinds]

(* What the constants are.                                                *)
BooksAssumption ==
  /\ IsFiniteSet(Lines)
  /\ Reports \subseteq Report
  /\ Terms \subseteq Term
  /\ Versions \subseteq Nat /\ MaxSlot \in Nat /\ Retention \in Nat \ {0}

Sums == {"ordered", "canceled", "refunded", "returned", "effective"}
NoOrder == [stored |-> FALSE, at |-> 0, version |-> 0, unresolved |-> FALSE]
NoItem == [stored |-> FALSE, at |-> 0, ordered |-> 0, canceled |-> 0, refunded |-> 0,
           returned |-> 0, effective |-> 0]
NoAdj == [status |-> "none", units |-> 0]
Reverted == [status |-> "reverted", units |-> 0]
NoAdjs == [l \in Lines |-> [src \in Sources |-> NoAdj]]
NoSale == [f \in Sums |-> 0]
NoSales == [l \in Lines |-> NoSale]

AtMost(a, b) == IF a < b THEN a ELSE b
AtLeast(a, b) == IF a < b THEN b ELSE a
Less(a, b) == IF a > b THEN a - b ELSE 0

-----------------------------------------------------------------------------
(* derive_adjustments: how the ordered units of a line divide into         *)
(* canceled, returned, refunded and effective ones.                        *)
Derived(ordered, latest, all, explicit, refund, return, both) ==
  LET refunds == IF both THEN Less(refund, return) ELSE refund
      implicit == Less(Less(ordered, latest), refunds + return)
      canceled == IF all THEN ordered ELSE AtMost(ordered, AtLeast(explicit, implicit))
      returned == AtMost(return, Less(ordered, canceled))
      refunded == AtMost(refunds, Less(Less(ordered, canceled), returned))
  IN [ordered |-> ordered, canceled |-> canceled, returned |-> returned, refunded |-> refunded,
      effective |-> Less(ordered, canceled + refunded + returned)]

(* A line that the snapshot lists: the units ordered are those of the first *)
(* snapshot that listed it.                                                *)
Listed(it, r, t) ==
  LET ordered == IF it.stored THEN it.ordered ELSE r.units
      refund == IF "refunded" \in t.full THEN AtLeast(r.refund, ordered) ELSE r.refund
      return == IF "returned" \in t.full THEN AtLeast(r.return, ordered) ELSE r.return
      both == \/ r.both
              \/ "refunded" \in t.full /\ return > 0
              \/ "returned" \in t.full /\ refund > 0
  IN Derived(ordered, r.units, t.canceled \/ (r.deleted /\ t.full = {}), r.canceled,
             refund, return, both)

(* A stored line that it does not list.                                     *)
Missing(it, t) ==
  Derived(it.ordered, 0, t.canceled \/ t.full = {}, 0,
          IF "refunded" \in t.full THEN it.ordered ELSE 0,
          IF "returned" \in t.full THEN it.ordered ELSE 0, t.full = Kinds)

(* What the snapshot makes of every line of its order.                      *)
Division(s) ==
  [l \in Lines |->
     IF l \in DOMAIN s.lines THEN Listed(item[s.order][l], s.lines[l], s.terms)
     ELSE Missing(item[s.order][l], s.terms)]

(* The row of a line.  One that is missing keeps its date.                  *)
Dated(division, stored, at) ==
  [stored |-> stored, at |-> at, ordered |-> division.ordered, canceled |-> division.canceled,
   refunded |-> division.refunded, returned |-> division.returned,
   effective |-> division.effective]
ItemRow(s, l) ==
  LET it == item[s.order][l] IN
  IF l \in DOMAIN s.lines THEN Dated(Division(s)[l], TRUE, s.at)
  ELSE IF it.stored THEN Dated(Division(s)[l], TRUE, it.at)
  ELSE NoItem

(* The refunded or returned units of the order that no line accounts for.   *)
Accounted(s, kind) == Cardinality(UNION {{l} \X (1..Division(s)[l][kind]) : l \in DOMAIN s.lines})
Residual(s, kind) ==
  IF kind \in s.terms.full THEN 0 ELSE Less(s.terms.units[kind], Accounted(s, kind))
Unresolved(s) == {kind \in Kinds : Residual(s, kind) > 0 \/ kind \in s.terms.partial}

-----------------------------------------------------------------------------
(* _reconcile_item_adjustments: a source that is not expected any more is   *)
(* reverted.  The line "trace" carries what is unresolved.                  *)
Expected(s, l, trace) ==
  [src \in Sources |->
     IF src[1] = "confirmed"
     THEN LET units == Division(s)[l][src[2]]
          IN IF units > 0 THEN [status |-> "confirmed", units |-> units] ELSE NoAdj
     ELSE IF l = trace /\ src[2] \in Unresolved(s)
     THEN [status |-> "unresolved", units |-> Residual(s, src[2])]
     ELSE NoAdj]

Adjusted(old, expected) ==
  [src \in Sources |->
     IF expected[src] # NoAdj \/ old[src] = NoAdj THEN expected[src]
     ELSE Reverted]

Stored(o) == {l \in Lines : item[o][l].stored}

(* The first line of the snapshot; if it lists none, a stored one.          *)
Traces(s) ==
  IF DOMAIN s.lines # {} THEN DOMAIN s.lines
  ELSE IF Stored(s.order) # {} THEN Stored(s.order)
  ELSE {Absent}

(* The snapshot is older than what is stored, or the same.                  *)
KnownIfSame(s) == order[s.order].version # 0 /\ s.version = order[s.order].version
Known(s) == order[s.order].version # 0 /\ s.version <= order[s.order].version

(* _reconcile_order_snapshot and _validated_order_item_pairs raise for a    *)
(* snapshot that is not complete, and the sync fails.                       *)
Complete(s) ==
  /\ order[s.order].version # 0 => s.version # 0
  /\ Known(s) \/ DOMAIN s.lines # {} \/ s.terms.canceled \/ s.terms.full # {}

(* Rakuten may send any snapshot, old ones too, in any order.               *)
Snapshots ==
  [order : Orders, version : Versions, at : 0..now, terms : Terms,
   lines : UNION {[L -> Reports] : L \in SUBSET Lines}]

(* The dates of which the daily sales are rebuilt.                          *)
AffectedNow(s) == {Day(s.at)}
Affected(s) == {Day(s.at)} \cup IF order[s.order].stored THEN {Day(order[s.order].at)} ELSE {}

Reconcile(s) ==
  /\ Complete(s)
  /\ WholeMoves /\ order[s.order].stored /\ s.at # order[s.order].at
       => Stored(s.order) \subseteq DOMAIN s.lines
  /\ open' = TRUE
  /\ IF Known(s)
     THEN UNCHANGED <<order, item, adj, dates>>
     ELSE /\ order' = [order EXCEPT ![s.order] =
                         [stored |-> TRUE, at |-> s.at, version |-> s.version,
                          unresolved |-> Unresolved(s) # {}]]
          /\ item' = [item EXCEPT ![s.order] = [l \in Lines |-> ItemRow(s, l)]]
          /\ \E trace \in Traces(s) :
               adj' = [adj EXCEPT ![s.order] =
                         [l \in Lines |->
                            IF l \in DOMAIN s.lines \cup Stored(s.order)
                            THEN Adjusted(adj[s.order][l], Expected(s, l, trace))
                            ELSE adj[s.order][l]]]
          /\ dates' = dates \cup Affected(s)
  /\ UNCHANGED <<now, daily>>

-----------------------------------------------------------------------------
(* rebuild_daily_sales for one date: a row for each product that was sold.  *)
Total(counts) == MapThenSumSet(LAMBDA o : counts[o], DOMAIN counts)
Sold(rows, l, day) == {o \in Orders : rows[o][l].stored /\ Day(rows[o][l].at) = day}
SalesOf(rows, day) ==
  [l \in Lines |->
     IF Sold(rows, l, day) = {} THEN NoSale
     ELSE [f \in Sums |-> Total([o \in Sold(rows, l, day) |-> rows[o][l][f]])]]

Between(S) == {d \in Days : \E a, b \in S : a <= d /\ d <= b}

(* prune_expired_sales_data: orders go with their lines, days as a whole,   *)
(* and the day of the cutoff is rebuilt.                                    *)
Cutoff == now - 2 * Retention
Expired(o) == order[o].stored /\ order[o].at < Cutoff

Finish ==
  /\ open
  /\ item' = [o \in Orders |-> IF Expired(o) THEN [l \in Lines |-> NoItem] ELSE item[o]]
  /\ daily' = [d \in Days |->
                 IF Cutoff >= 0 /\ d < Day(Cutoff) THEN NoSales
                 ELSE IF Cutoff >= 0 /\ d = Day(Cutoff) THEN SalesOf(item', d)
                 ELSE IF d \in Between(dates) THEN SalesOf(item, d)
                 ELSE daily[d]]
  /\ order' = [o \in Orders |-> IF Expired(o) THEN NoOrder ELSE order[o]]
  /\ adj' = [o \in Orders |-> IF Expired(o) THEN NoAdjs ELSE adj[o]]
  /\ open' = FALSE
  /\ dates' = {}
  /\ UNCHANGED now

TimePasses ==
  /\ ~open
  /\ now < MaxSlot
  /\ now' = now + 1
  /\ UNCHANGED <<order, item, adj, daily, open, dates>>

BooksInit ==
  /\ now = 0
  /\ order = [o \in Orders |-> NoOrder]
  /\ item = [o \in Orders |-> [l \in Lines |-> NoItem]]
  /\ adj = [o \in Orders |-> NoAdjs]
  /\ daily = [d \in Days |-> NoSales]
  /\ open = FALSE
  /\ dates = {}

BooksNext == Finish \/ TimePasses \/ \E s \in Snapshots : Reconcile(s)
BooksSpec == BooksInit /\ [][BooksNext]_bookVars

-----------------------------------------------------------------------------
BooksTypeOK ==
  /\ BooksAssumption
  /\ now \in Slots
  /\ order \in [Orders -> [stored : BOOLEAN, at : Slots, version : Versions \cup {0},
                           unresolved : BOOLEAN]]
  /\ \A o \in Orders, l \in Lines :
       /\ item[o][l].stored \in BOOLEAN /\ item[o][l].at \in Slots
       /\ \A f \in Sums : item[o][l][f] \in Nat
  /\ adj \in [Orders -> [Lines -> [Sources ->
       [status : {"none", "confirmed", "unresolved", "reverted"}, units : Nat]]]]
  /\ DOMAIN daily = Days
  /\ open \in BOOLEAN
  /\ dates \subseteq Days

(* derive_adjustments: every ordered unit of a line is canceled, refunded,  *)
(* returned or effective, and only one of them, whatever sequence of        *)
(* snapshots has reported them.                                             *)
UnitsAddUp ==
  \A o \in Orders, l \in Lines :
    LET it == item[o][l]
    IN it.ordered = it.canceled + it.refunded + it.returned + it.effective

(* rebuild_daily_sales: between two syncs the daily sales of every day are  *)
(* those of the lines stored for it, although a sync rebuilds only the days *)
(* it has touched, orders change their day and others expire.               *)
DailyAgrees == ~open => \A d \in Days : daily[d] = SalesOf(item, d)

(* _reconcile_item_adjustments: the adjustments in force are those of the   *)
(* columns of the line, and an order has unresolved ones, on one line only, *)
(* exactly if it says so.                                                   *)
AdjustmentsAgree ==
  \A o \in Orders :
    LET traced == {l \in Lines : \E k \in Kinds : adj[o][l][<<"unresolved", k>>].status = "unresolved"}
    IN /\ \A l \in Lines, f \in {"canceled", "refunded", "returned"} :
            item[o][l][f] = LET row == adj[o][l][<<"confirmed", f>>]
                            IN IF row.status = "confirmed" THEN row.units ELSE 0
       /\ Cardinality(traced) <= 1
       /\ Stored(o) # {} => (order[o].unresolved <=> traced # {})

(* A stored order never goes back to an older state, and the first ordered  *)
(* units of a line stay what they were.                                     *)
Newer ==
  \A o \in Orders :
    order[o].stored /\ order'[o].stored =>
      /\ order[o].version <= order'[o].version
      /\ \A l \in Stored(o) : item'[o][l].ordered = item[o][l].ordered
      /\ order[o].version # 0 /\ order'[o].version = order[o].version =>
           UNCHANGED <<order[o], item[o], adj[o]>>
SnapshotsNeverOlder == [][Newer]_bookVars

BooksAgree == UnitsAddUp /\ DailyAgrees /\ AdjustmentsAgree
=============================================================================
