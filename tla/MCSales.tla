------------------------------- MODULE MCSales -------------------------------
(***************************************************************************)
(* The synchronisation of a store's orders for one run of TLC: its lease   *)
(* (SalesSyncLease, the constants of the .cfg), and what it does to the    *)
(* orders (OrderBooks): an order of two lines; two orders over some days;  *)
(* snapshots without updateDatetime; and which orders it asks for          *)
(* (OrderSearch).  "part" says which one a behaviour is about, the         *)
(* variables of the others stay as they are.                               *)
(***************************************************************************)
EXTENDS MCSalesSync

CONSTANTS o1, o2, l1, l2

VARIABLES part, now, order, item, adj, daily, open, dates

bookVars == <<now, order, item, adj, daily, open, dates>>

OneOrder == {o1}
TwoOrders == {o1, o2}
OneLine == {l1}
TwoLines == {l1, l2}

LineOf(units, canceled, refund, return, both, deleted) ==
  [units |-> units, canceled |-> canceled, refund |-> refund, return |-> return,
   both |-> both, deleted |-> deleted]
Whole == LineOf(2, 0, 0, 0, FALSE, FALSE)
TakenBack == LineOf(1, 0, 1, 1, TRUE, FALSE)
Reduced == LineOf(0, 1, 2, 1, FALSE, FALSE)
WholeOrBack == {Whole, TakenBack}
BackOrReduced == {TakenBack, Reduced}
AnyReport == {Whole, TakenBack, Reduced}

TermOf(canceled, full, refunds, returns, partial) ==
  [canceled |-> canceled, full |-> full, units |-> [refunded |-> refunds, returned |-> returns],
   partial |-> partial]
Plain == TermOf(FALSE, {}, 0, 1, {})
PlainOnly == {Plain}
AnyTerm == {Plain, TermOf(TRUE, {}, 0, 0, {}), TermOf(FALSE, {"refunded"}, 0, 0, {}),
            TermOf(FALSE, {}, 2, 1, {"returned"})}
Ordered == {1, 2}
Unordered == {0, 1}

(* The days of a search.                                                    *)
OrderNumbers == OneOrder
Never == 9
RecentDays == 1
AdjustedDays == 2
CompletedDays == 3
InitialDays == 3
MaxRange == 2
OutagesShort == TRUE
MaxDay == 3

(* The instances are of the module with the theorems about both, OrderBooks *)
(* and OrderSearch: each uses the half it is for.                           *)
OrderLines == INSTANCE OrderProofs WITH
  Orders <- OneOrder, Lines <- TwoLines, Reports <- BackOrReduced, Terms <- AnyTerm,
  Versions <- Ordered, MaxSlot <- 0, Retention <- 1, WholeMoves <- TRUE,
  today <- now, remote <- order, local <- item, sync <- adj, state <- daily
OrderDays == INSTANCE OrderProofs WITH
  Orders <- TwoOrders, Lines <- OneLine, Reports <- WholeOrBack, Terms <- PlainOnly,
  Versions <- Ordered, MaxSlot <- 3, Retention <- 1, WholeMoves <- TRUE,
  today <- now, remote <- order, local <- item, sync <- adj, state <- daily
Undated == INSTANCE OrderProofs WITH
  Orders <- OneOrder, Lines <- OneLine, Reports <- AnyReport, Terms <- AnyTerm,
  Versions <- Unordered, MaxSlot <- 0, Retention <- 1, WholeMoves <- TRUE,
  today <- now, remote <- order, local <- item, sync <- adj, state <- daily
Asked == INSTANCE OrderProofs WITH
  Orders <- OneOrder, Lines <- OneLine, Reports <- WholeOrBack, Terms <- PlainOnly,
  Versions <- Ordered, MaxSlot <- 0, Retention <- 1, WholeMoves <- TRUE,
  today <- now, remote <- order, local <- item, sync <- adj, state <- daily

ASSUME OrdersAssumption ==
  /\ OrderLines!BooksAssumption /\ OrderDays!BooksAssumption /\ Undated!BooksAssumption
  /\ Asked!SearchConstants

SalesInit ==
  /\ Init
  /\ \/ part = "lease" /\ now = 0 /\ order = 0 /\ item = 0 /\ adj = 0 /\ daily = 0 /\ open = 0
                       /\ dates = 0
     \/ part = "lines" /\ OrderLines!BooksInit
     \/ part = "days" /\ OrderDays!BooksInit
     \/ part = "undated" /\ Undated!BooksInit
     \/ part = "search" /\ Asked!SearchInit /\ open = 0 /\ dates = 0

SalesNext ==
  /\ UNCHANGED part
  /\ \/ part = "lease" /\ Next /\ UNCHANGED bookVars
     \/ /\ \/ part = "lines" /\ OrderLines!BooksNext
           \/ part = "days" /\ OrderDays!BooksNext
           \/ part = "undated" /\ Undated!BooksNext
           \/ part = "search" /\ Asked!SearchNext /\ UNCHANGED <<open, dates>>
        /\ UNCHANGED vars

SalesSpec == SalesInit /\ [][SalesNext]_<<part, vars, bookVars>>

-----------------------------------------------------------------------------
(* sync_owned_store: whatever snapshots have been reconciled, the units of  *)
(* each line add up, its adjustments in force are those of its columns, and *)
(* between two syncs the daily sales of every day are those of its lines;   *)
(* no order of a covered day is missing, and none older than the rules of   *)
(* rechecking allow.                                                        *)
BooksAgree ==
  /\ part = "lines" => OrderLines!BooksTypeOK /\ OrderLines!BooksAgree
  /\ part = "days" => OrderDays!BooksTypeOK /\ OrderDays!BooksAgree
  /\ part = "undated" => Undated!BooksTypeOK /\ Undated!BooksAgree
  /\ part = "search" => Asked!SearchTypeOK /\ Asked!NothingMissed /\ Asked!NothingStale

(* _reconcile_order_snapshot: an older snapshot changes nothing, a newer    *)
(* one keeps the units first ordered.                                      *)
SnapshotsNeverOlder ==
  [][/\ part = "lines" => OrderLines!Newer
     /\ part = "days" => OrderDays!Newer
     /\ part = "undated" => Undated!Newer]_<<part, bookVars>>
=============================================================================
