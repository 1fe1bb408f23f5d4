------------------------------- MODULE Upkeep -------------------------------
(***************************************************************************)
(* The periodic upkeep of one owner (crawler_service.py): his settings of  *)
(* time, the runner's rounds that synchronise the products of his stores,  *)
(* delete products not listed, and clean the images of deleted products,   *)
(* each at its due time, and the requests that change the settings or run  *)
(* a round at once.                                                        *)
(*                                                                         *)
(* The settings are two JSON values, each read, changed and written back   *)
(* as a whole: the row of all jobs, and a row of the image cleanup, which  *)
(* repeats that part of the first.  Time counts the periods of the jobs.   *)
(***************************************************************************)
EXTENDS Naturals, FiniteSets

CONSTANTS
  Runners, Requests,     (* schedule runners; requests under way            *)
  Records, CleanTasks,   (* deleted products; image cleanup tasks           *)
  NoTask,
  Choices,               (* what can be saved: "on", "off"                   *)
  SerialRows,            (* TRUE: transactions on the rows do not overlap   *)
  RowFirst,              (* TRUE: the image cleanup has a row with a due    *)
                         (* time before the runner's first round            *)
  MaxClock               (* bound: periods                                  *)

UpkeepConstants ==
  /\ Choices \subseteq {"on", "off"}
  /\ SerialRows \in BOOLEAN /\ RowFirst \in BOOLEAN
  /\ MaxClock \in Nat
ASSUME UpkeepAssumption == UpkeepConstants

VARIABLES
  data,    \* the two rows of settings, records and tasks of image cleanup
  clock,
  tx,      \* of each process: its transaction, and what that has read
  saved,   \* what the user has chosen last
  served,  \* how often a due time of a job has been served
  since,   \* when images were last cleaned, or their settings saved
  retried, \* records of tasks that a user has retried
  looked   \* the runner's last round of the image cleanup

upkeepVars == <<data, clock, tx, saved, served, since, retried, looked>>

Jobs == {"sync", "unlisted", "images"}
UpkeepProcs == Runners \cup Requests
NoTx == [job |-> "none", at |-> 0]

(* Rows of settings; a due time of 0 is one that the row does not have.     *)
NoTimes == [there |-> FALSE, choice |-> [j \in Jobs |-> "on"], next |-> [j \in Jobs |-> 0]]
NoOwn == [there |-> FALSE, choice |-> "on", next |-> 0]

(* load_deleted_product_image_cleanup_user_payload, load_time_settings_payload,
   initial_user_time_settings_payload                                       *)
Loaded(own, at) == [own EXCEPT !.there = TRUE, !.next = IF @ = 0 THEN at + 1 ELSE @]
Times(d, at) ==
  IF d.times.there THEN d.times
  ELSE [there |-> TRUE,
        choice |-> [NoTimes.choice EXCEPT !["images"] = d.own.choice],
        next |-> [[j \in Jobs |-> at + 1] EXCEPT
                    !["images"] = IF d.own.there THEN Loaded(d.own, at).next ELSE @]]

-----------------------------------------------------------------------------
(* Transactions: what each makes of the database it has read.               *)

(* save_time_settings: the due time of unlisted products stays.             *)
SavedTimes(d, choice, at) ==
  [d EXCEPT !.times = [there |-> TRUE, choice |-> choice,
                       next |-> [j \in Jobs |-> IF j = "unlisted" THEN Times(d, at).next[j]
                                                ELSE at + 1]],
            !.own = [there |-> TRUE, choice |-> choice["images"], next |-> at + 1]]
(* save_deleted_product_image_cleanup_settings                              *)
SavedOwn(d, c, at) ==
  [d EXCEPT !.own = [there |-> TRUE, choice |-> c, next |-> at + 1],
            !.times = [Times(d, at) EXCEPT !.choice["images"] = c, !.next["images"] = at + 1]]
(* get_time_settings, get_deleted_product_image_cleanup_settings            *)
Viewed(d, at) == [d EXCEPT !.times = Times(d, at)]
ViewedOwn(d, at) == IF d.own.there THEN d ELSE [d EXCEPT !.own = Loaded(NoOwn, at)]

(* run_due_store_product_syncs_once, cleanup_store_unlisted_products: the   *)
(* due time moves on with what is done for it.                              *)
TimeDue(d, j, at) == Times(d, at).choice[j] = "on" /\ Times(d, at).next[j] <= at
Advanced(times, j, at) == [times EXCEPT !.next[j] = at + 1]
Served(d, j, at) == [d EXCEPT !.times = Advanced(Times(d, at), j, at)]

(* cleanup_deleted_product_images_scope: a row that is missing is stored as *)
(* it is before the due time is looked at.                                  *)
OwnDue(d, at) == d.own.choice = "on" /\ Loaded(d.own, at).next <= at
NotDue(d) == [d EXCEPT !.own.there = TRUE]

(* create_deleted_product_image_cleanup_tasks: records of a task that is no *)
(* longer active are taken up again.                                        *)
UnderWay(t) == t.state \in {"queued", "running"}
Takeable(d) ==
  {r \in Records : \/ d.rec[r].state \in {"pending", "failed"}
                   \/ d.rec[r].state = "queued" /\ ~UnderWay(d.task[d.rec[r].task])}
NewTask(rs) == [state |-> "queued", recs |-> rs, have |-> {}]
Cleaned(d, t, at) ==
  LET rs == Takeable(d) IN
  [d EXCEPT !.own = [Loaded(@, at) EXCEPT !.next = at + 1],
            !.task[t] = IF rs = {} THEN @ ELSE NewTask(rs),
            !.rec = [r \in Records |->
                       IF r \in rs THEN [@[r] EXCEPT !.state = "queued", !.task = t] ELSE @[r]]]

-----------------------------------------------------------------------------
(* A transaction reads, then writes what it has changed.                    *)
Closed(p) == tx[p].job \in {"none", "create"}
BeginTx(p, job) ==
  /\ tx[p] = NoTx
  /\ SerialRows => \A q \in UpkeepProcs : Closed(q)
  /\ tx' = [tx EXCEPT ![p] = [job |-> job, at |-> clock, d |-> data]]
  /\ UNCHANGED <<data, clock, saved, served, since, retried, looked>>

At(p, job) == tx[p].job = job
Put(new, old, cur) == IF new = old THEN cur ELSE new
(* Of a row that two transactions insert the second fails.                  *)
BothInsert(old, cur, new) == ~old.there /\ cur.there /\ new.there
Merge(old, new) ==
  [times |-> Put(new.times, old.times, data.times),
   own   |-> Put(new.own, old.own, data.own),
   rec   |-> [r \in Records |-> Put(new.rec[r], old.rec[r], data.rec[r])],
   task  |-> [t \in CleanTasks |-> Put(new.task[t], old.task[t], data.task[t])]]
Commit(p, new) ==
  LET old == tx[p].d IN
  /\ ~BothInsert(old.times, data.times, new.times) /\ ~BothInsert(old.own, data.own, new.own)
  /\ data' = Merge(old, new)
  /\ tx' = [tx EXCEPT ![p] = NoTx]
Fails(p) ==
  /\ tx[p] # NoTx
  /\ tx' = [tx EXCEPT ![p] = NoTx]
  /\ UNCHANGED <<data, clock, saved, served, since, retried, looked>>

SaveTimes(p, choice) ==
  /\ At(p, "save")
  /\ Commit(p, SavedTimes(tx[p].d, choice, tx[p].at))
  /\ saved' = choice
  /\ since' = tx[p].at
  /\ UNCHANGED <<clock, served, retried, looked>>
SaveOwn(p, c) ==
  /\ At(p, "save own")
  /\ Commit(p, SavedOwn(tx[p].d, c, tx[p].at))
  /\ saved' = [saved EXCEPT !["images"] = c]
  /\ since' = tx[p].at
  /\ UNCHANGED <<clock, served, retried, looked>>
View(p) ==
  /\ At(p, "view")
  /\ Commit(p, Viewed(tx[p].d, tx[p].at))
  /\ UNCHANGED <<clock, saved, served, since, retried, looked>>
ViewOwn(p) ==
  /\ At(p, "view own")
  /\ Commit(p, ViewedOwn(tx[p].d, tx[p].at))
  /\ since' = IF tx[p].d.own.there THEN since ELSE tx[p].at
  /\ UNCHANGED <<clock, saved, served, retried, looked>>

Count(j, n) == served' = [served EXCEPT ![j][n] = @ + 1]
Unlisted(p) ==
  /\ At(p, "unlisted")
  /\ LET d == tx[p].d  at == tx[p].at  due == TimeDue(d, "unlisted", at) IN
       /\ Commit(p, IF due THEN Served(d, "unlisted", at) ELSE Viewed(d, at))
       /\ IF due THEN Count("unlisted", Times(d, at).next["unlisted"]) ELSE UNCHANGED served
  /\ UNCHANGED <<clock, saved, since, retried, looked>>
UnlistedNow(p) ==
  /\ At(p, "unlisted now")
  /\ Commit(p, Served(tx[p].d, "unlisted", tx[p].at))
  /\ UNCHANGED <<clock, saved, served, since, retried, looked>>

(* The sync tasks of the stores are created after the due time has moved    *)
(* on, then their number is recorded in the row, which is read again.       *)
SyncDue(p) ==
  /\ At(p, "sync")
  /\ LET d == tx[p].d  at == tx[p].at  due == TimeDue(d, "sync", at)
         new == IF due THEN Served(d, "sync", at) ELSE Viewed(d, at)
     IN /\ ~BothInsert(d.times, data.times, new.times)
        /\ data' = Merge(d, new)
        /\ tx' = [tx EXCEPT ![p] = IF due THEN [job |-> "create", at |-> at, d |-> d] ELSE NoTx]
  /\ UNCHANGED <<clock, saved, served, since, retried, looked>>
ReadBefore(p) == Served(tx[p].d, "sync", tx[p].at)
ReadAgain(p) == data
CreateSyncs(p) ==
  /\ At(p, "create")
  /\ SerialRows => \A q \in UpkeepProcs : Closed(q)
  /\ Count("sync", Times(tx[p].d, tx[p].at).next["sync"])
  /\ tx' = [tx EXCEPT ![p].job = "record", ![p].d = ReadAgain(p)]
  /\ UNCHANGED <<data, clock, saved, since, retried, looked>>
Recorded(p) ==
  /\ At(p, "record")
  /\ data' = [data EXCEPT !.times = tx[p].d.times]
  /\ tx' = [tx EXCEPT ![p] = NoTx]
  /\ UNCHANGED <<clock, saved, served, since, retried, looked>>

Clean(p, t) ==
  /\ tx[p].job \in {"clean", "clean now"}
  /\ LET d == tx[p].d  at == tx[p].at IN
       /\ Takeable(d) # {} => data.task[t].state = "none" /\ d.task[t].state = "none"
       /\ IF At(p, "clean") THEN OwnDue(d, at) /\ Count("images", Loaded(d.own, at).next)
          ELSE UNCHANGED served
       /\ Commit(p, Cleaned(d, t, at))
       /\ since' = at
       /\ looked' = IF At(p, "clean") THEN at ELSE looked
  /\ UNCHANGED <<clock, saved, retried>>
CleanNotDue(p) ==
  /\ At(p, "clean") /\ ~OwnDue(tx[p].d, tx[p].at)
  /\ Commit(p, NotDue(tx[p].d))
  /\ looked' = tx[p].at
  /\ UNCHANGED <<clock, saved, served, since, retried>>

-----------------------------------------------------------------------------
(* queue_deleted_product_image_cleanup, and the tasks.                      *)
OthersKept == UNCHANGED <<clock, tx, saved, served, since, retried, looked>>
QueueRecord(r) ==
  /\ data.rec[r].state = "absent"
  /\ \A t \in CleanTasks : r \notin data.task[t].recs
  /\ data' = [data EXCEPT !.rec[r] = [state |-> "pending", task |-> NoTask]]
  /\ OthersKept

StartTask(t) ==
  /\ data.task[t].state = "queued"
  /\ data' = [data EXCEPT !.task[t].state = "running",
                      !.task[t].have = {r \in data.task[t].recs : data.rec[r].state # "absent"}]
  /\ OthersKept

(* perform_deleted_product_image_cleanup: one transaction; of the records   *)
(* it has found some are cleaned and deleted, some fail, some are left by a *)
(* cancelled task.  If another task has deleted one of them all is undone.  *)
Performed(t, gone, left) ==
  [r \in Records |->
     CASE r \in gone -> [data.rec[r] EXCEPT !.state = "absent", !.task = NoTask]
       [] r \in left -> [data.rec[r] EXCEPT !.state = "pending", !.task = NoTask]
       [] r \in data.task[t].have \ (gone \cup left) -> [data.rec[r] EXCEPT !.state = "failed", !.task = t]
       [] OTHER -> data.rec[r]]
EndTask(t, gone, left) ==
  /\ data.task[t].state = "running"
  /\ gone \cup left \subseteq data.task[t].have /\ gone \cap left = {}
  /\ \A r \in data.task[t].have : data.rec[r].state # "absent"
  /\ data' = [data EXCEPT !.rec = Performed(t, gone, left),
                      !.task[t] = [state |-> "ended", recs |-> @.recs \ gone, have |-> {}]]
  /\ OthersKept

(* A task is cancelled, fails, or is lost: its records stay as they are.    *)
LoseTask(t) ==
  /\ UnderWay(data.task[t])
  /\ data' = [data EXCEPT !.task[t].state = "ended", !.task[t].have = {}]
  /\ OthersKept
(* retry_sync_task: with the records that are not done.                     *)
RetryTask(t) ==
  /\ data.task[t].state = "ended" /\ data.task[t].recs # {}
  /\ data' = [data EXCEPT !.task[t].state = "queued"]
  /\ retried' = retried \cup data.task[t].recs
  /\ UNCHANGED <<clock, tx, saved, served, since, looked>>
DeleteTask(t) ==
  /\ data.task[t].state = "ended"
  /\ data' = [data EXCEPT !.task[t] = [state |-> "none", recs |-> {}, have |-> {}]]
  /\ OthersKept

Tick ==
  /\ clock < MaxClock
  /\ \A p \in UpkeepProcs : Closed(p)
  /\ clock' = clock + 1
  /\ UNCHANGED <<data, tx, saved, served, since, retried, looked>>

-----------------------------------------------------------------------------
UpkeepInit ==
  /\ \E times \in {NoTimes, [NoTimes EXCEPT !.there = TRUE, !.next = [j \in Jobs |-> 1]]} :
       data = [times |-> times,
             own |-> IF RowFirst THEN Loaded(NoOwn, 0) ELSE NoOwn,
             rec |-> [r \in Records |-> [state |-> "absent", task |-> NoTask]],
             task |-> [t \in CleanTasks |-> [state |-> "none", recs |-> {}, have |-> {}]]]
  /\ clock = 0
  /\ tx = [p \in UpkeepProcs |-> NoTx]
  /\ saved = NoTimes.choice
  /\ served = [j \in Jobs |-> [n \in 1..MaxClock |-> 0]]
  /\ since = 0 /\ retried = {} /\ looked = 0

Round(p) ==
  \/ BeginTx(p, "sync") \/ SyncDue(p) \/ CreateSyncs(p) \/ Recorded(p)
  \/ BeginTx(p, "unlisted") \/ Unlisted(p)
  \/ BeginTx(p, "clean") \/ CleanNotDue(p)
Request(p) ==
  \/ \E job \in {"save", "save own", "view", "view own", "unlisted now", "clean now"} : BeginTx(p, job)
  \/ \E choice \in [Jobs -> Choices] : SaveTimes(p, choice)
  \/ \E c \in Choices : SaveOwn(p, c)
  \/ View(p) \/ ViewOwn(p) \/ UnlistedNow(p)
UpkeepNext ==
  \/ Tick
  \/ \E p \in UpkeepProcs : Fails(p) \/ \E t \in CleanTasks : Clean(p, t)
  \/ \E p \in Runners : Round(p)
  \/ \E p \in Requests : Request(p)
  \/ \E r \in Records : QueueRecord(r)
  \/ \E t \in CleanTasks :
       \/ StartTask(t) \/ LoseTask(t) \/ RetryTask(t) \/ DeleteTask(t)
       \/ \E gone, left \in SUBSET Records : EndTask(t, gone, left)
UpkeepSpec == UpkeepInit /\ [][UpkeepNext]_upkeepVars

-----------------------------------------------------------------------------
UpkeepTypeOK ==
  /\ data.times.choice \in [Jobs -> {"on", "off"}] /\ data.own.choice \in {"on", "off"}
  /\ data.times.next \in [Jobs -> 0..MaxClock + 1] /\ data.own.next \in 0..MaxClock + 1
  /\ \A r \in Records : data.rec[r].state = "queued" => data.rec[r].task \in CleanTasks
  /\ \A t \in CleanTasks : data.task[t].have \subseteq data.task[t].recs
  /\ retried \subseteq Records

(* save_time_settings: both rows hold what the user has chosen last,        *)
(* although rounds and requests keep writing them as a whole.               *)
ChoicesKept ==
  /\ data.times.there => data.times.choice = saved
  /\ data.own.there => data.own.choice = saved["images"]

(* A due time is served once at most.                                       *)
DueOnce == \A j \in Jobs, n \in 1..MaxClock : served[j][n] <= 1

(* cleanup_deleted_product_images: while the cleanup is switched on, no     *)
(* round finds a whole period gone by since the last one.                   *)
CleanedInTime == data.own.there /\ data.own.choice = "on" => looked <= since

(* create_deleted_product_image_cleanup_tasks: unless a user has retried an *)
(* earlier task, one task at most is at work on a record.                   *)
OneCleanup ==
  \A r \in Records \ retried :
    Cardinality({t \in CleanTasks : UnderWay(data.task[t]) /\ r \in data.task[t].recs}) <= 1
=============================================================================
