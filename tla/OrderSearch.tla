---------------------------- MODULE OrderSearch ----------------------------
(***************************************************************************)
(* Which orders a sync of a store asks Rakuten for                         *)
(* (sales_sync_service.sync_owned_store, rakuten_order_service): those     *)
(* placed in a window before its start, found window by window, and stored *)
(* ones that have to be looked at again.  It needs the details of all of   *)
(* them, or it stores nothing.  What it stores of an order is OrderBooks,  *)
(* that syncs of a store do not overlap is SalesSyncLease.                 *)
(***************************************************************************)
EXTENDS Integers, FiniteSets

CONSTANTS
  OrderNumbers, Never,
  RecentDays,     \* INCREMENTAL_RECHECK_DAYS
  AdjustedDays,   \* INCOMPLETE_ADJUSTED_RECHECK_DAYS
  CompletedDays,  \* COMPLETED_RECHECK_MAX_DAYS
  InitialDays,    \* INITIAL_SYNC_DAYS
  MaxRange,       \* RAKUTEN_ORDER_SEARCH_MAX_RANGE
  OutagesShort,   \* TRUE: a store is not without a sync for longer than
                  \* RecentDays once it has been synchronised, and no
                  \* sync takes longer
  MaxDay, MaxVersion   \* bounds

VARIABLES
  today,   \* the day
  remote,  \* the orders at Rakuten
  local,   \* the rows of SalesOrderModel
  sync,    \* local variables of sync_owned_store
  state    \* the row of SalesSyncStateModel: initial_sync_completed; the
           \* start of the last sync that succeeded, and what was then to be
           \* known; the first day any sync has covered

(* What the proofs ask of the constants; the code has 7, 30, 90 and 365     *)
(* days, and windows of 63.                                                 *)
SearchConstants ==
  /\ {RecentDays, AdjustedDays, CompletedDays, InitialDays, MaxRange} \subseteq Nat \ {0}
  /\ RecentDays <= AdjustedDays /\ AdjustedDays <= CompletedDays /\ CompletedDays <= InitialDays
  /\ MaxDay \in Nat /\ MaxVersion \in Nat
  /\ Never \notin (0 - InitialDays)..MaxDay

searchVars == <<today, remote, local, sync, state>>

Nothing == [o \in OrderNumbers |-> 0]
NotStored == [there |-> FALSE, version |-> 0, done |-> FALSE, adjusted |-> FALSE, synced |-> 0]
AtRest == [pc |-> "idle", full |-> FALSE, day |-> 0, want |-> {}, got |-> {},
           known |-> Nothing, dawn |-> Nothing]
RemoteVersions == [o \in OrderNumbers |-> remote[o].version]
Placed(o) == remote[o].placed # Never

-----------------------------------------------------------------------------
(* Rakuten and its customers: an order is placed; it changes, is completed, *)
(* cancelled or partly refunded.                                            *)
Place(o) ==
  /\ ~Placed(o)
  /\ remote' = [remote EXCEPT ![o].placed = today]
  /\ UNCHANGED <<today, local, sync, state>>
Change(o, done, adjusted) ==
  /\ Placed(o) /\ remote[o].version < MaxVersion
  /\ remote[o].done => done
  /\ remote[o].adjusted => adjusted
  /\ remote' = [remote EXCEPT ![o] = [@ EXCEPT !.version = remote[o].version + 1, !.done = done,
                                               !.adjusted = adjusted]]
  /\ UNCHANGED <<today, local, sync, state>>
Tick ==
  /\ today < MaxDay
  /\ OutagesShort => /\ state.complete => today + 1 <= state.ok + RecentDays
                     /\ sync.pc # "idle" => today + 1 <= sync.day + RecentDays
  /\ today' = today + 1
  /\ state' = [state EXCEPT !.dawn = RemoteVersions]
  /\ UNCHANGED <<remote, local, sync>>

-----------------------------------------------------------------------------
(* search_order_numbers: adjacent windows of MaxRange days at most that     *)
(* share their ends; an order on a shared end is seen twice and kept once.  *)
Starts(first, last) == {d \in first..(last - 1) : (d - first) % MaxRange = 0}
Window(d, last) == d..(IF d + MaxRange < last THEN d + MaxRange ELSE last)
Found(first, last) ==
  {o \in OrderNumbers :
     Placed(o) /\ \E d \in Starts(first, last) : remote[o].placed \in Window(d, last)}

(* _completed_order_recheck_due, with COMPLETED_RECHECK_INTERVAL of a day   *)
RecheckDue(o, day) == local[o].synced <= day - 1
(* _local_recheck_order_numbers                                             *)
Recheck(day) ==
  {o \in OrderNumbers :
     /\ local[o].there /\ remote[o].placed >= day - CompletedDays
     /\ \/ /\ remote[o].placed >= day - AdjustedDays
           /\ ~local[o].done \/ local[o].adjusted
        \/ local[o].done /\ RecheckDue(o, day)}

(* The lease is acquired and the clock read: all days, or the recent ones.  *)
Begin(force) ==
  /\ sync.pc = "idle"
  /\ sync' = [AtRest EXCEPT !.pc = "search", !.full = (force \/ ~state.complete), !.day = today,
                            !.known = RemoteVersions, !.dawn = state.dawn]
  /\ UNCHANGED <<today, remote, local, state>>
WindowDays == IF sync.full THEN InitialDays ELSE RecentDays
Search ==
  /\ sync.pc = "search"
  /\ sync' = [sync EXCEPT !.pc = "details",
                !.want = Found(sync.day - WindowDays, sync.day)
                         \cup (IF sync.full THEN {} ELSE Recheck(sync.day))]
  /\ UNCHANGED <<today, remote, local, state>>
(* get_orders, _require_complete_order_details: of all orders wanted, or the *)
(* sync fails (Fail).                                                       *)
Details ==
  /\ sync.pc = "details"
  /\ sync' = [sync EXCEPT !.pc = "store",
       !.got = {[order |-> o, version |-> remote[o].version, done |-> remote[o].done,
                 adjusted |-> remote[o].adjusted] : o \in sync.want}]
  /\ UNCHANGED <<today, remote, local, state>>
Snapshot(o) == CHOOSE s \in sync.got : s.order = o
Store ==
  /\ sync.pc = "store"
  /\ local' = [o \in OrderNumbers |->
       IF o \in sync.want
       THEN [there |-> TRUE, version |-> Snapshot(o).version, done |-> Snapshot(o).done,
             adjusted |-> Snapshot(o).adjusted, synced |-> sync.day]
       ELSE local[o]]
  /\ state' = [state EXCEPT !.complete = TRUE, !.ok = sync.day,
                 !.first = IF state.complete /\ @ < sync.day - WindowDays THEN @
                           ELSE sync.day - WindowDays,
                 !.known = sync.known, !.begun = sync.dawn]
  /\ sync' = AtRest
  /\ UNCHANGED <<today, remote>>
(* An exception, as when details are missing, a crash, a lost lease.        *)
Fail ==
  /\ sync.pc # "idle"
  /\ sync' = AtRest
  /\ UNCHANGED <<today, remote, local, state>>

-----------------------------------------------------------------------------
SearchInit ==
  /\ today = 0
  /\ remote \in [OrderNumbers ->
       {[placed |-> d, version |-> 0, done |-> FALSE, adjusted |-> FALSE] :
          d \in {Never, 0 - InitialDays, 0}}]
  /\ local = [o \in OrderNumbers |-> NotStored]
  /\ sync = AtRest
  /\ state = [complete |-> FALSE, ok |-> 0, first |-> 0, known |-> Nothing, begun |-> Nothing,
              dawn |-> Nothing]

World ==
  \/ Tick
  \/ \E o \in OrderNumbers :
       Place(o) \/ \E done, adjusted \in BOOLEAN : Change(o, done, adjusted)
SearchNext ==
  \/ World
  \/ \E force \in BOOLEAN : Begin(force)
  \/ Search \/ Details \/ Store \/ Fail
SearchSpec == SearchInit /\ [][SearchNext]_searchVars

-----------------------------------------------------------------------------
SearchTypeOK ==
  /\ today \in 0..MaxDay
  /\ sync.pc \in {"idle", "search", "details", "store"} /\ sync.want \subseteq OrderNumbers
  /\ \A o \in OrderNumbers : local[o].there => Placed(o) /\ local[o].version <= remote[o].version
  /\ state.ok <= today

(* search_order_numbers, sync_owned_store: of the days that some sync has   *)
(* covered no order is missing, whatever syncs failed, and although the     *)
(* window of a sync does not depend on when the last one succeeded.         *)
NothingMissed ==
  \A o \in OrderNumbers :
    Placed(o) /\ state.complete /\ remote[o].placed \in state.first..(state.ok - 1) =>
      local[o].there

(* _local_recheck_order_numbers: after a sync the stored orders are not     *)
(* older than what Rakuten had when it began, if they are recent, or not    *)
(* completed, or adjusted and not too old; completed ones are not older     *)
(* than what it had a day before.                                           *)
NothingStale ==
  \A o \in OrderNumbers : local[o].there /\ state.complete =>
    LET age == state.ok - remote[o].placed IN
    /\ age <= RecentDays \/ (age <= AdjustedDays /\ (~local[o].done \/ local[o].adjusted)) =>
         local[o].version >= state.known[o]
    /\ age <= CompletedDays /\ local[o].done => local[o].version >= state.begun[o]
=============================================================================
