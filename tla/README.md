# TLA+ models of lt-backend

lt-backend is the server of a back office for Rakuten shops: it crawls products, lists them in stores, synchronises
store products and sales orders, and does all of this in background tasks. API processes (FastAPI), RQ workers and a
schedule runner share one MySQL database and one Redis. What is hard to get right is the life of tasks and records
across these processes, and that is what the modules here describe. Paths below are relative to `src/app/`.

## Inventory

| component | code | state | operations | correct when |
|---|---|---|---|---|
| crawl task queue | `services/crawler_service.py`, `core/task_queue.py` | rows of `lt_crawl_tasks` (status, `queue_job_id`, cancel marker, `updated_at`), RQ jobs, a Redis lock | create, re-run, cancel, delete, dispatch under the lock, `run_task`, reconcile, retention | a lane keeps its limit, a task has one worker, cancelled stays cancelled, live runs are not given up, nothing is stuck |
| sales sync lease, run history | `sales_sync_service.py`, `sales_order_sync_history_service.py` | the store's sync state with its lease, one row per run, the heartbeat thread | queue, acquire or take over, heartbeat, read and store orders, finish or fail, recover, delete, stop | one owner commits at a time; a lost lease stops its owner; a run ends once, as success exactly if its orders were stored |
| order search | `sales_sync_service.py`, `rakuten_order_service.py` | window of a sync, start of the last one, list of rechecks | search range by range, recheck by age | no order of a covered day is missing, none is older than the rules of rechecking allow |
| order reconciliation | `sales_sync_service.py` | orders, lines, adjustments, daily sales | reconcile a snapshot, rebuild days, prune | units of a line add up; adjustments and daily sales agree with the lines; older snapshots change nothing |
| task control | `task_control_service.py` | control row with phase and snapshot of stopped tasks | stop, cancel rows, stop jobs, count, resume, dispatch | "may deploy" means that nothing moves; a stopped task is remembered and given back once |
| sync task queue | `crawler_service.py` | rows of `lt_sync_tasks`, RQ jobs | create, dispatch, sweep, run, retry, cancel | tasks whose resources conflict do not run together |
| listing task queue | `crawler_service.py` | rows of `lt_listing_tasks`, product locks, payload | create, dispatch, run per product, retry, delete | a product belongs to one task; locks are freed on every end; no product is forgotten |
| store products, replacement | `crawler_service.py` | rows, marks, images, cleanup records, replacement tasks; items at Rakuten | list, delete, sync, clean up, replace | a mark stands for a listed product, no task takes the images of another's item, a sync repairs its store |
| schedules | `crawler_service.py` | crawl, listing and deletion schedules, queue of manual tasks | save, come due, execute, dispatch, recover | a store has one manual task in flight, a due time is used once, nothing stays running |
| start of the database layer | `db/database.py` | schema, migrated columns, seeded rows | create, add, fill, move to owners, seed | a process that serves has a complete database; a new start undoes no decision |
| announcements | `announcement_service.py` | posts, read marks, image files | upload, edit, delete, list, mark | images that are referred to exist; read means shown |
| settings and upkeep | `crawler_service.py` | two JSON rows of settings, cleanup records and tasks | save, view, rounds of three jobs, clean | choices stay, a due time is served once, a record has one cleanup |
| titles | `ai_title_service.py`, `crawler_service.py` | title of a product, its versions, settings of the model | write, save, edit, delete, sync, test | the chosen title is the product's; verified settings were tested |
| Rakuten clients, crawling, parsing, image storage, genres, sensitive words | several | none, or files and caches | I/O and text | data transformations |
| users, sessions, maintenance mode, HTTP API, scripts | several | record keeping | CRUD | - |

The parts interact through the database (rows read in one transaction and written in another), through RQ jobs (lost,
delayed, doubled by a second dispatch, or moved to the failed registry when a worker dies), through Redis locks that
expire, and through sweeps that compare rows with jobs. `PROJECT.json` lists the hazards with their lines.

## Modules

| module | what it is |
|---|---|
| `CrawlQueue` | crawl tasks: dispatch, run, reconcile, retention |
| `StoreOrders` | what the synchronisation of a store's orders promises: syncs act one at a time |
| `SalesSyncLease` | the sync of a store under its lease, and its runs; implements `StoreOrders` |
| `OrderBooks`, `OrderSearch` | what a sync does to the orders, and which orders it asks for |
| `TaskControl` | stop of all tasks and their resumption |
| `SyncTasks`, `ListingTasks` | the two task queues |
| `StoreProducts` | what the tasks do to products, items and images |
| `Schedules` | everything that runs at a time |
| `Startup`, `Announcements`, `Upkeep`, `ProductTitles` | the services of these names |
| `MC*` | instances for TLC; the `.cfg` files give the constants (the instances of `MCServices` are defined at the end of `ServicesProofs`) |
| `CrawlProofs` | proofs about `CrawlQueue` |
| `SalesSyncProofs` | proofs about `SalesSyncLease` |
| `OrderProofs` | proofs about `OrderBooks` and `OrderSearch` |
| `SyncTasksProofs` | proofs about `SyncTasks` |
| `StoreProductsProofs` | proofs about `StoreProducts` |
| `ServicesProofs` | proofs about `TaskControl`, `Startup`, `Announcements`, `Upkeep` and `ProductTitles`, and about the run `services` |
| `ScheduleProofs` | proofs about `Schedules` |
| `ListingProofs` | proofs about `ListingTasks` |

How a module reads: variables are rows, jobs and local state of processes; an action is a transaction, a pass over Redis or a
call of Rakuten, whichever the code makes in one piece. `session_scope` runs at the database's default isolation, reads
rows without locking them and, with `autoflush=False`, writes at its commit only the columns it has changed. A
transaction between whose reads and writes something else can matter is therefore two actions, the second of which commits what the
first has planned; a short one that reads and writes a row by its key is one. What must never happen, or must happen in the end, is
stated at the end of each module.

### CrawlQueue

- `row[t]` is the row of task t; tasks are numbered by `created_at`. Of the columns it keeps the status, `queue_job_id`,
  whether `error_detail` starts with the cancel marker, and whether `updated_at` is older than the reconciler's cut-offs. A
  lane is an owner and a mode (manual or scheduled). A partial success counts as `success`.
- `jobs[j]` is what Redis holds of a job id: queued, started, failed or nothing. `lock` is the dispatcher's Redis lock,
  `paused` what the task control has stopped.
- `pc`, `hold`, `plan`, `slots`, `todo`, `scope` belong to a process: its next step, the job it executes, the columns its
  open transaction will write, the capacity counted, the reservations to enqueue, the owners it dispatches for.

`CountSlots` to `DispatchSkipped` are `dispatch_queued_crawl_tasks`; `TakeJob` to `FailTask` are the RQ worker and
`run_task`; `CreateTask`, `RerunTask`, `CancelTask`, `DeleteTask` with `CommitApi` the API; `ReadRunning`, `ProbeRedis`,
`CommitReconcile` the two reconcilers, whose look into Redis is a step between their SELECT and their commit;
`CleanupScheduled` the retention. `Crash`, `JobFails`, `FailedJobExpires`, `LoseJob`, `LockExpires`, `RowGoesStale`, `PauseOwner`
are what the environment does.

### SalesSyncLease, StoreOrders

One store. A user, `retry_run` or the schedule calls `queue_sales_order_sync`, which marks the state row as queued, creates a
run row and enqueues a job. The job takes the lease by a conditional UPDATE that writes a fresh token, starts the heartbeat
thread, reads orders from Rakuten, and stores them in a transaction that ends with a second conditional UPDATE. A run has
one job and a job one token, so the model names all three by the run.

- `state` is the row of `lt_sales_sync_states` (queued, running under the token of `holder`, idle, error; ticks since
  `updated_at`), `run[r]` that of `lt_sales_order_sync_runs`. `beat[r]` is the heartbeat thread; `stopping` the open
  transaction of `stop_all_tasks`.
- `remote`, `stored`, `seen[r]` are versions of the store's orders, `seen[r]` forgotten when the job has stored or failed; `committed` is a history variable.
- A number in `Runs` is used for a new run once nothing refers to the old one (`Unused`).

`QueueSync`, `Enqueue`, `EnqueueFails` are the queue call; `TakeJob` to `FailOwnRun` are `sync_owned_store`; `Repair`, `Settle`,
`LastFail` the exception handlers of call and job. `RecoverStale`, `DeleteRun`, `ReadStop`, `CommitStop` are the other writers, but for the
resumption, which sets cancelled runs back to queued (`_prepare_snapshot_for_resume`) and is part of `TaskControl`: `RunEndsOnce` therefore speaks of runs that have succeeded or failed. A `Tick` is the
heartbeat's interval, a third of the lease's timeout. With `Slow` the clock runs freely, so each step may take arbitrarily long;
without it a tick finds every job at a step that waits for a worker or for Rakuten (`Patient`) and every heartbeat done.

`StoreOrders` has at most one active sync, which reads a version and stores it, or is displaced and leaves no trace. The
refinement mapping takes the holder of a running lease as the active sync and what it has `seen` as what was read; the steps of a
displaced owner are invisible.

### OrderBooks, OrderSearch

`OrderBooks` is the storing transaction: a snapshot of an order is reconciled with the stored order, its lines and its
adjustments by source (`Reconcile`), then the daily sales of the affected dates are rebuilt and old days pruned (`Finish`). Time passes in half days, so that a
date can differ from the day of the sync. Amounts are left out, but for keeping an adjustment open ("partial"); the units of an adjustment that was
reverted, and the column `unresolved_refunded_units`, which nothing reads, are left out too. A sync that fails leaves no trace, so only complete ones are steps.

`OrderSearch` counts days. A sync searches the window of its kind (365 days at first, 7 then), looks again at stored orders by age,
completion and adjustments, and stores all details or nothing. Two consequences of the rules: the window is seven days however long ago the last sync was, so a
longer outage, or a first sync that takes longer, loses orders (hence `OutagesShort`); and an order not completed after thirty days is never looked at again.

### TaskControl

`ctl` is the row of `SystemTaskControlModel`, `adm` the local variables of the administrator's call, `row[t]` the status of a task, `queue[t]` its
jobs in Redis, `worker[w]` the job of a work-horse and how far it is (popped, registered, has read its row, at work), `disp` a dispatcher that has chosen a task
and not yet asked whether its owner is paused. `owed` is a ghost: the tasks a stop has cancelled and nothing has given back. `StopCall`, `CancelRound`,
`KillJobs`, `CountRows`, `ScanJobs`, `CloseStop` are `stop_all_tasks`, whose rounds repeat until `StableChecks` of them were quiet; `ResumeCall` to `Report` are
`resume_all_tasks`. A worker's start check reads the pause; a job between queue and registry is seen by no scan.

### SyncTasks, ListingTasks

`SyncTasks` has the ordinary sync tasks (dispatched from their rows as capacity and resource scopes allow) and those enqueued by the call that
creates them (titles, image cleanup, uploads), with the sweep of lost tasks and the start checks of `run_sync_task`. `Clash` and `Alike` say which tasks' scopes conflict.

In `ListingTasks`, `row[t]`, `lock[x]`, `listed[x]` are the database: a task with its payload, the lock of a product, the stores it is recorded in. `run[w]` holds the
variables of `_run_listing_task` and `att[w][x]` the thread of product x. Attempts are two actions that overlap everything, as they last as long as Rakuten
does. `Create` makes all tasks of a group, as one call does. Waiting for a sync task is nondeterministic (`HeldBySync`); preflight checks are left out: a created task has the
products that passed.

### StoreProducts

`live` are the items Rakuten has, `row` the rows that copy them, `master` the products with their marks, `files` the items whose images are in the cabinet, `trash` the
images that wait for cleanup, `swap` the replacement tasks, `work` what each worker's transaction has read. A listing is `StartList`, `Upload`, `Put`, then
`CommitList` or one of the failures with `RollBack`; a replacement goes the same way and ends in `CommitSwap`; `StartDelete` to `CommitDelete` delete an item, `StartSync` to `CommitSync`
are a store sync, `Clean` the weekly cleanup. `fetch_rakuten_store_items_with_total` returns the number of items it has fetched as the total, so `remote_listing_complete`
(`crawler_service.py:11675`) is always true and a page cut short removes rows: `ShortListings`.

### Schedules

One module for listing, deletion and crawl schedules; `kind` says how a schedule runs: "auto" in the runner's round, "manual" and "once" through the queue of
their store, "crawl" as an RQ job. `row` has the status, whether it is enabled and whether its time has come; `waiting` and `broken` are its jobs; `proc` is what a thread does: executing (`run`, `made`, `raised`), dispatching (`next`,
`read`, `enqueue`), or in a round (`crawls`, `due`). `seen` is the snapshot of a dispatcher's transaction, `owed` and `made` count how often a schedule came due or was
asked for and how often its tasks were created. Short transactions are one action; the order of a queue is left out (any eligible task is chosen); `ExecuteDue` looks at
neither the due time nor `enabled` again, as the code does not; paused owners are left to `TaskControl`.

### Startup, Announcements, Upkeep, ProductTitles

`Startup` is `init_database` in several processes over a database of any earlier version: `db` is what is committed, `pend` what the migrating process has written since MySQL's last
implicit commit, `stage` where each process is. Of columns treated alike there is one. Default words deleted by a user are added again at every start, which is what the code means to do; a NULL in `permissions_json` does no harm;
`wait_for_database_ready` looks at `lt_user_accounts` alone; processes of the previous version that still run are left out.

`Announcements` has editors with open forms, images deleted by a request after the commit, and readers. `Upkeep` has the two JSON rows of an owner's settings, written as a whole by rounds, saves and views, and the
records and tasks of image cleanup, all in `data`, and the open transactions in `tx`; `served` counts the rounds that used a due time. `ProductTitles` has the title, its versions, and the three long transactions (`doing`, `read`) that write a version, synchronise a store
and test a model; a failed test, and the `last_error` written before a `raise`, are rolled back.

### Several components in one run

`MCSales`, `MCListings` and `MCServices` hold instances of several components, or several instances of one, that share no state. The variable `part` is
chosen in the initial state and says which of them a behaviour is about; the others keep their values. The states TLC visits are the sum, not the product, of those of the parts, and an
invariant such as `BooksAgree` says for each of them what is to hold of it. In the run `services` the components of which there is one instance (`TaskControl`, `Startup`, `Announcements`,
`Upkeep`, `ProductTitles`) keep their own variables and constants; the instances of the others share `m1` to `m12`. What is instanced
is the module with a component's proofs, so that its theorems speak of the very instances TLC checks; the assumptions on its constants become an `ASSUME` of the module that instances it. That of `services` is
`ServicesProofs` itself, which `MCServices` extends: the proofs of the five components come first and the instances last, because the provers are slow in a module with many instances.

## Runs

| run | instance | what it checks |
|---|---|---|
| `safety` | `CrawlQueue`: 2 tasks of a lane with limit 1, 2 workers, 1 API thread, the runner, 1 fault, 1 re-run, `Serial` | `TypeOK`, `CapacityRespected`, `ExclusiveRun`, `CancelSticks`, `LiveRunKeepsItsRow`, `MarkerKept` |
| `live` | `CrawlQueue`: 1 task, 1 worker, 1 API thread, 1 fault, overlapping transactions, `FairSpec` | `QueuedIsServed`, `RunningEnds` |
| `sales_fenced` | `SalesSyncLease`: 2 runs, slow processes, 1 fault, overlapping transactions, 2 versions; three instances of `OrderBooks`; `OrderSearch` | `TypeOK`, the refinement `ActsSerially`, `OrdersNeverOlder`; `RunEndsOnce`; `BooksAgree`, `SnapshotsNeverOlder` |
| `sales_live` | `SalesSyncLease`: 2 runs, processes in time, 1 fault, `Serial`, `FairSpec` | `OutcomeAgrees`, `LiveLeaseKept`, `LeaseEnds`, `ActiveRunEnds`, `QueuedStarts` |
| `listing_overlap` | `ListingTasks`: 2 tasks for one product (2 stores, 1 store), 2 workers, 1 retry; a group of two tasks; one task of 2 products and 2 stores with 1 fault and 1 retry; `Serial` | `OneLister`, `LimitsKept`, `ProductsKept`, `CancelSticks` |
| `listing_live` | `ListingTasks`: 1 task, 1 worker, 1 fault, 1 retry, late failures, overlapping transactions, `FairSpec` | `QueuedIsServed`, `RunningEnds` |
| `services` | the parts of `MCServices`, see below | `ServicesTypeOK`, `SafeMeansStill`, `StopRemembers`, `OneExecution`, `TasksApart`, `MarkMeansProduct`, `ImagesKept`, `RecordsAgree`, `SyncRepairs`, `DecisionsKept` |
| `schedules` | `Schedules`: of one store two manual schedules, or an automatic one and a crawl; 1 runner, 1 worker, 1 request, 1 mishap, `FairSchedules` | `SchedTypeOK`, `OneInFlight`, `RunsOnce`, `QueueMoves`, `ScheduleEnds` |
| `manual_race` | `Schedules`: two manual schedules, dispatchers overlap | violated: `OneDispatcher` |
| `control_stuck` | `TaskControl`: 1 fault | violated: `StopMayBeRepeated` |
| `listed_twice` | `StoreProducts`: one product, one store, three days | violated: `ListedOnce` |
| `listing_locks` | `ListingTasks`: one task | violated: `LocksAreActive` |

The parts of `services`: `control` is `TaskControl` with two tasks of two users, two workers, one fault and two quiet rounds. `Syncs`,
`Titles`, `Beside` and `Between` are `SyncTasks` with two ordinary tasks, two title tasks, a listing task beside a sync task, and
one beside a title task. `Days`, `Shops`, `Follow` and `Among` are `StoreProducts` over two days, with two stores, with two
replacements that follow each other, and with one among other work. `Expiry` is `CrawlQueue` with a dispatch lock that
expires under its holder: it over-reserves, but runs no more than the limit (`RunningWithinLimit`); nobody cancels or deletes its tasks (`ExpiryNext`), as the run `safety` has that. `rounds` and `cleanups` are `Upkeep`, `upgrade` is
`Startup`, `news` is `Announcements`, `texts` and `models` are `ProductTitles`.

### Bounds and why they are enough

- Crawl tasks. Two tasks and limit 1 are the smallest instance in which a lane is full while another task waits, and in which
  two jobs of one task and a job of another exist together. Two job ids are enough, as an id is used again only when nothing refers to
  it. One re-run lets an old job meet a newer run.
- Faults. `MaxFaults` and `MaxMishaps` count crashes, lost jobs, failed enqueues and the like together: one per behaviour. What goes
  wrong only when two faults meet is not seen by TLC; where a theorem covers the property it holds for any number.
- Sales sync. One run holds the lease and one takes it over; their numbers are reused, so a behaviour may have any number of runs.
  `Timeout` 1 is the shortest in which a lease in time and a stale one differ. Two versions are enough for an older
  snapshot to meet a newer one. In `OrderBooks` a line has two units, so that it can be divided between cancelled, refunded and
  returned; the instance with two lines has two of the three reports (partly taken back, reduced), the one without dates has all of
  them, with every term of an order, on one line; two orders and four half days are enough for an order to move from a day to another, kept or pruned one. The days of
  `OrderSearch` are scaled down in their order (1, 2, 3 for 7, 30, 90).
- Listing tasks. Two tasks where tasks compete, one where the question is what becomes of a task's products. The limits are 1 per
  user, store and group and 2 globally: each can be exceeded by two tasks, and the global limit alone does not hide the
  others. Two stores are needed because a product is unlocked after the first: only then can a second task take it while
  the first goes on.
- Task control. Two tasks of two users: a stop of one user must leave the other alone. Two workers: one to be in the middle of a start while the other
  works. `StableChecks` has the value of the code, 2 (`services/task_control_service.py:32`).
- Schedules. Two schedules of one store: one to be in flight while the other waits. One due time or request each, as `owed`
  counts them and only the difference to what was made matters. One runner, worker and request at a time, each for any number of rounds.
- Store products. Two days are enough for a number to come back on the same or another day; two stores for marks of one product that must
  not be mixed up; two replacements for one that starts where the other has ended.

Symmetry (workers, jobs, runs) is used in runs without liveness only. Deadlock is not checked where the system may stop: when no user makes a request, or the
bounds are used up. It is checked in the two sales runs, whose clock and schedule never stop.

### Behaviours that are excluded

The code runs most transactions at the database's default isolation and does not prevent the following. Nothing in the repository promises
that they do no harm, so they are assumptions that a constant names, and hazards in `PROJECT.json`, and not findings. With the constant set the other way TLC
finds the property in question violated.

| constant | assumed | without it |
|---|---|---|
| `Serial` (`CrawlQueue`, `SalesSyncLease`, `ListingTasks`) | transactions that read rows unlocked and write them later do not overlap | a cancel is overwritten by the start of its task; a run completed meanwhile is cancelled; two tasks pass a start check together |
| `SlowRuns` FALSE | a live run touches its row before the reconciler's cut-off, as each item does | a live run is given up as interrupted |
| `LockMayExpire` FALSE | a dispatch ends within the lock's timeout | two dispatchers count the same slots (a part of `services` sets it); what runs stays within its limit (`RunningCapacity`) |
| `Slow` FALSE | heartbeats, queue and Redis are in time | a lease is taken from a live owner, which is safe (`sales_fenced`), but its run's outcome may be wrong |
| `LateFailures`, `LateEnqueues` FALSE | an enqueue fails only if the job was not stored and nobody else has enqueued the task | a running task is marked failed, and its retry runs next to it |
| `UserLimit` 1 (`ListingTasks`) | the default of `core/config.py:83`, one task per user | the sweep enqueues without comparing tasks, and `listing_task_start_wait_reason` (`services/crawler_service.py:5426`) does not compare products: two workers list a product (`OneLister`) |
| `SerialStarts` | start checks of sync tasks that count without a lock do not overlap | conflicting tasks start together |
| `LateChecks` FALSE | a stop does not begin between a dispatcher's choice of a task and its pause check | the task the stop has cancelled is failed and not given back |
| `OneTick` | the runner's lock outlives its round | a due schedule is executed by two runners |
| `SerialReads` | dispatchers of manual tasks do not overlap | finding `manual_race` |
| `RunManual` FALSE | "run now" is called for automatic schedules only, as the frontend does | a manual task runs beside its store's queue |
| `WholeMoves` | an order whose date changes lists all its lines | lines stay on the old day, and so do the daily sales |
| `OutagesShort` | no store is without a sync for longer than the window | orders of the outage are never asked for |
| `NoLostUpdates` | overlapping transactions do not write the same product | the marks of a product lose or regain a store |
| `FreshNumbers`, `CodeOf` injective | no two listings have the same manage number | the cleanup of one deletes the images of the other |
| `ShortListings` FALSE | Rakuten's pages are complete | a sync removes rows of items that exist (two parts set it TRUE) |
| `SerialRows`, `RowFirst` | settings are not written by two transactions at once; the cleanup has a row with a due time before its first round | a saved choice is overwritten; `cleanup_deleted_product_images_scope` (9527-9543) stores an empty row, after which the cleanup is never due until the settings are saved |
| `TornColumns` FALSE | a start does not die between adding and filling a column | the column is never filled |
| `FreshForms`, `PromptReads` | announcements do not change under an open form or list | an image still used is deleted; a change counts as read |
| `PromptWriters`, `SyncsAlone`, `FreshTexts`, `TestsAlone` | titles and model settings do not change under the long transactions that read them | a saved title is written over, untested settings count as verified |

### Fairness

Only what processes do by themselves is fair; users owe nothing and faults are bounded.

- `CrawlQueue`, `ListingTasks`: workers, API threads and the runner run continuously, restarted by their supervisor; their steps are fair,
  strongly where a step waits for its turn in the database, as a waiting transaction is let through however many
  others start. The loops over items, products and stores run over finite plans. Redis and RQ act on their timeouts. A paused
  owner is resumed. The runner comes to every queued row that is old enough (`ReadSweep(MaxTasks)`; it looks at
  `task_queue_queued_requeue_limit` rows, taken to be enough).
- `SalesSyncLease`: jobs, callers and handlers go on unless they crash, the heartbeat runs, the runner recovers stale runs in each round and
  queues a store that is due (`WF(\E r : QueueSync(r))`). `Tick` is strongly fair: time passes, however often a job is
  between two steps.
- `Schedules`: the runner's rounds and the steps of each process are weakly fair; reading a store's queue is strongly fair, since with
  `SerialReads` dispatchers wait for each other. Workers take jobs. `Abandon`, weakly fair, is RQ's maintenance, which
  moves the job of a dead worker to the failed registry.

### Findings

- `listing_locks`. `delete_listing_tasks` (`services/crawler_service.py:21853`) deletes rows of any status and leaves the lock of their
  products. The products are refused to every later listing task (10268) and hidden from the approved ones (10467).
- `control_stuck`. `stop_all_tasks` returns early while the phase is "stopping" (`services/task_control_service.py:88`), which only the call that wrote it can
  end: if that process dies, neither a stop nor a resumption, which asks for another stop (220), is possible.
- `listed_twice`. The mark of a store is taken from a product whatever row is deleted or missing, also that of an earlier item
  (`services/crawler_service.py:19117`, 11505). The product is then listed there again, which 21930 means to refuse.
- `manual_race`. The second look of the manual queue's dispatcher under the lock of the store (`services/crawler_service.py:15613`) reads
  its old snapshot and the object already loaded, and dispatches the task a second time.

## Proofs

The theorems hold for every number of tasks, users, lanes, stores, workers, API threads, jobs and runs, and for every bound. Their assumptions are
the `ASSUME`s of the modules (types of the constants, disjoint sets of processes) and, where stated, the values of the constants of the table above.

**Several components.** `SalesSyncProofs` extends `MCSales`, `ScheduleProofs` `MCListings`, and `ServicesProofs` defines what `MCServices` runs: after the proofs about their components they end with theorems
about the composition, `SalesBooksAgree`, `SalesNeverBack`, `ListingsOnce`, `ListingLimits`, `ListingsForgetNothing`, `ListingsStayCancelled`, `ServicesApart`, `ServicesMarks`, `ServicesImages`, `ServicesSyncs`, `ServicesRecords`, `ServicesDecisions`, `ServicesTyping`. The last three assume of the
constants what `MCServices.cfg` gives them (`~TornColumns`, `FreshForms`, `PromptReads`, `SerialRows`, `RowFirst` and the four of titles). The argument is the same for
all: `part` never changes, so a behaviour of the composition with `part = "days"`, say, is a behaviour of `Days`, of which the theorem of its own module says the rest.

**`CrawlQueue`.** `Typing`: `Spec => []TypeOK`. The invariant adds that a job a process holds is started and held by
it alone, that a reservation yet to be enqueued refers to no job in Redis and belongs to one process, and that a process without a job
is at a step that needs none; `EXCEPT` and `TaskOf` are only typed when the job a worker holds exists.

`Capacity` (with `Serial`, without `LockMayExpire`): `Spec => []CapacityRespected`. The slots counted in a snapshot stay free until the reservation
commits (`SlotsFree`), because the holder of the lock alone reserves and every other step moves a task from reserved to running, or out of both, or
makes a new task wait; a planned `start` finds its row still reserved (`StartsReserved`) as no other transaction is open (`OneTxn`).

`RunningCapacity` (with `Serial` alone): `Spec => []RunningWithinLimit`, whether or not the dispatch lock expires under its holder. Nothing about the lock, the slots or the reservations is
used: the transaction that starts a task has counted the running ones without it, it starts that task only (`StartsFit`), no other step sets a row running, and no other
start can commit in between (`OneTxn`).

`Exclusion`, `Cancellation`, `LiveRunsKept`, `MarkersKept` (with `Serial`, without `SlowRuns`). One invariant carries the four: whoever has planned a write is in
the one open transaction (`PlansOpen`); the row of a task in execution is running or deleted, holds that worker's job and is not stale
(`LiveRowsCalm`); a planned write relies only on what cannot change while its transaction is open (`PlansSafe`).
`LiveRowsCalm` gives exclusion, since two workers on a task would hold the same job; `PlansSafe` gives the three action properties.

**`SalesSyncLease`.** `SyncTyping`, `NeverOlder`, `SerialSyncs` assume nothing about timing or isolation. The invariant
`VersionInv` says that a job that has not taken the lease has read nothing, one past `GetOrders` has read something, and what the holder has read is at
least what is stored: only the holder stores, and the lease is given to runs that have read nothing. This fails if the final UPDATE does not compare the
token. Each action is then shown to be a step of `StoreOrders` or invisible to it; what a failing job forgets is invisible because a running lease names a run (`HolderInv`), and not this one.

`FinalOutcome`: `Spec => RunEndsOnce`, with no assumption on time or isolation. Every writer of run rows but `CommitStop` compares the status in its UPDATE;
what a stop writes, over whatever status, is "cancelled", of which the property does not speak.

`LeaseKept`, `OutcomeTold` (with `Serial`, without `Slow`): `LiveLeaseKept` and `[]OutcomeAgrees`. `SerialInv` says that what an open transaction has read still holds. `PlaceInv` says that a call under way has no job yet, and that the
heartbeat thread is on exactly from `start()` to the end of the reconciliation. `TimeInv` says that the lease of a live owner, and its run row once it is marked as running, are at
most one tick old, and fresh if it has beaten since the last tick; a timeout has at least one tick and more than that must have passed for
a takeover or `RecoverStale`. `OutcomeTold` needs processes in time, because a run
recovered while its job is merely slow may still store its orders.

**`TaskControl`.** `ControlTyping`: types, and that the control row says where the administrator's call is (`CallsOK`).

`StopIsQuiet` (`StableChecks >= 2`): `Spec => []SafeMeansStill`. One quiet round is not enough: a job may have left the queue before the queue was scanned and
enter the registry of started jobs after that was. After one quiet round the tasks are at rest (`Quiet`: no job waits, no row is
queued, no worker has begun), as the pause keeps workers and dispatchers from starting any; but a row may still say running, of a worker that was ended after the rows had been
counted. The next round cancels it, and with the second quiet one none is active (`NoneActive`).

`StopForgetsNone` (without `LateChecks`): `Spec => []StopRemembers`. `OwedInv` says that a resumption prepares with the snapshot that is stored, and that nothing is owed when it
unpauses; `DispInv` that a dispatcher under way has chosen no task of a paused owner, whom it would otherwise fail.

`NoTaskTwice` (both): `Spec => []OneExecution`. `WorkInv`: one worker at most has begun a task (`OneBegun`); a task that could be started has nobody at work on it, but
for a cancelled one while the stop that cancelled it is not done (`IdleRows`); the snapshot names tasks of the selected owners only (`OwnSnapshot`). A resumption restores rows only after a
verdict, so that `StopIsQuiet` is needed for `IdleRows`.

**`Schedules`.** `SchedTyping`: `SchedSpec => []SchedTypeOK`, without assumptions on the constants that exclude behaviours.

`OneTaskOfAStore`: `QueueKept => (SchedSpec => []OneInFlight)`, where `QueueKept` is `~RunManual /\ SerialReads /\ ~LateEnqueues`. A manual task that a dispatcher is
about to enqueue, or whose job waits, is on its way (`SentInv`): its row is idle, or deleted by now, it has one job at most, and nobody executes it. What the one
dispatcher between its read and its commit has in its snapshot is still right (`ReadInv`): nothing became in flight since,
and what it will choose is still queued; every step that puts a task in flight or takes it from the queue is a dispatch itself.

`DueRunsOnce`: with `OnceKept`, that is `QueueKept /\ OneTick`, `SchedSpec => []RunsOnce`. Counting what was made does not carry over a step; the
invariant `OwesInv` counts claims: what a schedule has made, the executions under way that have not made theirs, the places in the runner's lists that will lead to one, the
jobs that wait, and the pending request together never exceed what it is owed. Every step moves a claim on, gives it up, or comes with a new
due time or request. `RoundInv` says that one runner at a time has a list, that each schedule on it is due, and that a due schedule has no other claim.

**`ListingTasks`.** `ListingTyping`: `Spec => []TypeOK`, without assumptions. `TypedInv` adds that a job in the hands of a worker is a started one
of an existing task, and that a worker in its loop has a job and a store.

`CancellationLasts` (with `Serial`, without `LateFailures`): `Spec => CancelSticks`. `SafeInv` says that one long transaction is open at a time
(`OneTxn`) and relies only on rows that cannot change while it is (`PlansSafe`), and that a running row has one run at most (`OneRunner`). The lemma `RowEffects` says once what a step may do to a row: begin it, end it, return
it to the queue, create it, delete it, or leave its status; the properties follow from these cases and not from the actions.

`RunningTasksFit` (also with `UserLimit` and `StoreLimit` 1): `Spec => []RunningFits`, the limits of user, store, group and system. The start
check counts what is running when it reads; what it counted still fits when it commits (`StartsFit`), as only one transaction is open. That a new task fits does not say that
the others still do: with a limit of one the relation is symmetric and becomes a property of pairs (`OwnersApart`, `StoresApart`, with `GroupsFit` for a group), with larger limits an older task
may have one neighbour too many.

`ProductHasOneLister` (also with `UserLimit` 1): `Spec => []OneLister`, if two tasks with a product in common are of one owner and not of one group; a product belongs to an owner,
and the tasks of a group are chunks of one selection (`services/crawler_service.py:22008`). Two attempts at a product have two tasks, or two workers on one; the first are both running, by `RunningRows`, and kept apart by the
limit of the user, not by the lock, which is released in the first of several stores.

`ReportedIsListed`: `Spec => []SuccessIsListed`, without assumptions. `ListedInv` says it of what is not in a row yet: the reports a run has collected and the attempts that
succeeded, whose product was recorded in the store first. Records are never taken back, and a row gets its successes from the reports of its own task alone (`SuccessesMove`).

`NoProductForgotten` (with `Serial`, without `LateFailures`): `Spec => []NothingForgotten`. `CoverInv` accounts for every product of a task: in an active row it is a
success or will be tried again, in an ended one a success or a failure, and in a run it has been reported, is being tried, or is left for the stores to come. The reconciler fails what is neither
reported nor failed, so the row it leaves accounts for a dead worker's products; only a worker at a running row writes its reports (`RunningRows`), so no late writer undoes that.
The two theorems are the two parts of `ProductsKept`.

**`SyncTasks`.** `SyncTyping`: `Spec => []SyncTypeOK`, under `SyncConstants`: there are finitely many tasks, none conflicts with itself or is
alike itself, both relations are symmetric, as the queries of the code are, and ordinary tasks are alike none.

`TasksKeepApart` (with `SerialStarts`, without `LateEnqueues`): `Spec => []TasksApart`, from `SyncHasOneWorker`, `RunningTasksApart`, `OneOfAKind`. A worker decides to
start a task from rows it has read earlier. The decision stays good because what runs now ran when it read, but for tasks alike, which it reads again with a locking read, and because whoever else is
about to start a task starts one that is alike (`StartsOne`): `SerialStarts` puts the other start checks one after the other. `WorkRecorded` and `WorkedOnce` say that a task worked on is recorded as running, or
deleted, and has one worker, however often it was enqueued. A sync task asks for sync and listing tasks only, a listing task for title and upload tasks too: the relation is not symmetric, and a sync task may start beside a title task. The
invariant, and `RunningApart`, therefore speak of pairs that ask for each other.

**`StoreProducts`.** `ProductTyping`: `Spec => []ProductsTypeOK`, under `ProductConstants` (there are a product, a store and a day, drafts are products, no two products share their code).

`MarksMeanProducts`, `ImagesAreKept`, `SyncsTellTheTruth` (with `FreshNumbers` and `NoLostUpdates`): `[]MarkMeansProduct`, `ImagesKept`, `SyncRepairs`. One invariant carries the three.
`ImagesKept` has two parts. Items shown as those of a product have their images, but for targets of replacements not done. And any item that is shown, with a row or without, loses its images only when what works on it is
rolled back, a listing only before the item has a row (`ImagesLost`). Items of no product may be without images: the answer to a put is lost, the listing is rolled back, the item stays at Rakuten, and the next sync gives it an active row without
a parent (`services/crawler_service.py:18577`). That is what the code does, and the first part does not speak of them.
`WorkInv` says what each worker may rely on: the item of a listing has no row yet and no images that wait for cleanup, that of a deletion or replacement has a row to the end, what the calls have done to Rakuten is
still so, the parents and marks that were read are those of the rows, or gone; and that two workers are apart (`Apart`), as their resource scopes are. `Kept` names what a step must leave to the workers that do not take
it. `DataInv` says that an item whose images wait for cleanup is gone, that an item of a product has its images, unless a replacement of it is pending (`Shown`), and that every mark has its witness, a row that is
active or was the target of a replacement. The
exceptions are real: the images of a failed replacement overwrite the old ones and its rollback deletes both, and an item the store has lost can be replaced while its row says removed.

**`OrderSearch`.** `SearchTyping`, `NoOrderMissed`, `StoredIsRecent`: under `SearchConstants` (the days are ordered as in the code: those of a recent search, of rechecking adjusted orders, of
rechecking completed ones, and of the first search) and with `OutagesShort`. That the windows of a search cover its days is arithmetic on where they start; `ClockInv` says that the last success, and the beginning of the sync under way, are at most the recent days ago, so
that the days of successive searches overlap. `WantInv` and `GotInv` say what a sync holds between its steps: the orders of its days and those due for a recheck, each at least as new as when it began. Completed orders are rechecked once a day, so for them the promise is the version at the beginning of the day (`dawn`).

**`OrderBooks`.** `BooksTyping`: `BooksSpec => []BooksTypeOK`. The units of an unresolved adjustment are those of all lines less those accounted for (`ResidualUnits`); they are counted as a set of pairs
of a line and a number, so that their sum needs no induction.

`LinesAgree`: `BooksSpec => [](UnitsAddUp /\ AdjustmentsAgree)`, under `BooksAssumption` (what a report may say, and that
versions and the retention are numbers). The division of a line's units among cancelled, refunded, returned and effective adds up for any report (`Divides`), and each confirmed adjustment is the column of its kind; what is
unresolved is on one line, if there is any (`AdjInv`).

`BooksAreRight` (with `WholeMoves`): `BooksSpec => []BooksAgree`. The invariant adds that a stored line has the date of its order (`DatesInv`), and that every day agrees with its lines but for those between the first and the last date a transaction has
touched, of which there are none outside a transaction (`SalesInv`). The daily sales are folds over lines; no sum has to be computed, since a day whose lines have not changed sums an equal function (`SameSales`), and a day without lines has no sales (`NoRowsNoSales`).
Orders that expire lie before every day that is rebuilt.

`NeverBack`: `BooksSpec => SnapshotsNeverOlder`, from the same typing: only a snapshot newer than the stored one, or the first, writes anything.

**`Startup`.** `StartsComplete`, `StartsTyped` (without `TornColumns`): `StartSpec => [](ReadyIsComplete /\ WordsKept)`; `StartsKeepDecisions`: `StartKeeps`. One process at a time is
past the lock (`OneHolder`), and `HolderInv` says for each stage what it has behind it: which tables and columns are there (`SchemaOf`), which columns are being filled (`TornOf`), what it has written since the last implicit commit
(`PendOf`). When nobody holds the lock, nothing is pending and nothing is half filled; so a start that finds an interrupted one may begin anywhere and still ends with the whole. `DbInv` says that the mark
of the moved settings, which is set last, is found on whole databases only, `UsersInv` that nobody is served before it, which is why what a migration does to settings and words undoes no decision. `ListsInv` follows the words of the shared
list: each is there still or in the list of every account there was; the copies are complete (`first.accounts \subseteq pd.copies`) before the shared rows are deleted.

**`Announcements`.** `PostsTyped`: `PostSpec => []PostTypeOK`. `ImagesStay` (with `FreshForms`): `[]ImagesThere`. An image belongs to one announcement, and one that a request is about to delete to none
(`PostImages`); a form that may still be saved (`Hopeful`: its announcement is as it was) holds images that are there and that no other form can bring into another announcement (`FormImages`). A form that is too late
may hold anything; with `FreshForms` it is not saved. `ReadIsShown` (with `PromptReads`): `[]ReadMeansShown`. That the version of an announcement grows at each change rests on a greatest version (`GreatestNumber`), from the
well-foundedness of the natural numbers.

**`Upkeep`.** `UpkeepIsTyped`: `UpkeepSpec => []UpkeepTypeOK`. `UpkeepKept` (with `SerialRows`, `RowFirst`): `ChoicesKept`, `DueOnce`, `CleanedInTime`, `OneCleanup`. A transaction on the rows has the settings as they are
(`SnapshotInv`), since one is open at a time, so what it writes as a whole brings back nothing old. `ServedInv` says that a due time that was served lies before the present one. The creation of sync tasks is between two transactions, one that
has moved the due time on and one that records the outcome: `CreateInv` says that the time it serves is passed, not yet counted, and served by nobody else. For image cleanup, a task under way is the one its records name (`TasksInv`), and whoever takes records
up finds them as read and in no task (`TakenInv`); records of a task that a user has retried are excepted.

**`ProductTitles`.** `TitlesKept`, `TitlesAreTyped` (with `PromptWriters`, `SyncsAlone`, `FreshTexts`, `TestsAlone`): `[](ChosenStays /\ ApprovedKeepsOne /\ VerifiedWasTested)`. The rows of versions have ids given once, two with the same text are both written by a model,
and one is in use (`RowsInv`); what a user has chosen is the text of the product and of the version in use (`ChosenInv`). A sync has read that choice, if there is one (`SyncInv`), a version is written only while the product is not approved (`WriteInv`), a test has read the model of the
settings (`TestInv`): each is what its long transaction relies on when it writes.

### What is only model-checked

- Liveness (`QueuedIsServed`, `RunningEnds`, `LeaseEnds`, `ActiveRunEnds`, `QueuedStarts`, `QueueMoves`, `ScheduleEnds`): the prover does not reason about fairness and
  `ENABLED`.
- The limits of listing tasks where more than one task per user or store is allowed.

## Not modelled

I/O with Rakuten, crawling and parsing, image storage, text classification, the record keeping of users, sessions and maintenance mode, request validation and
routing, one-shot scripts, and the thread fallback that is used when no Redis is configured. `PROJECT.json` says for each component what is left out.

## Plan

1. Proofs about the limits of listing tasks beyond one task per user and store.
