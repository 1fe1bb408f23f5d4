---------------------------- MODULE ListingTasks ----------------------------
(***************************************************************************)
(* Listing tasks of app/services/crawler_service.py in Redis mode: rows of *)
(* lt_listing_tasks with their payload of product ids, the lock            *)
(* (listing_task_id) a task holds on its products, the RQ jobs, the        *)
(* workers with one thread per product, the dispatcher and the reconciler. *)
(*                                                                         *)
(* A transaction that takes long, because it counts rows and asks Redis    *)
(* about jobs (run start, dispatch, reconciliation) or calls Rakuten       *)
(* (a product's attempt), is two actions: one reads, one commits.  A       *)
(* transaction that reads and writes a row by key is one action.           *)
(***************************************************************************)
EXTENDS Naturals, FiniteSets, Sequences

CONSTANTS
  MaxTasks,        (* tasks are numbered in the order of created_at         *)
  Products, Stores,
  OwnerOf,         (* owner of each task                                    *)
  ProductsOf,      (* productIds of each task                               *)
  StoresOf,        (* storeIds of each task, in order                       *)
  GroupOf, NoGroup,(* task_group_id of each task: tasks created together    *)
  GlobalLimit, UserLimit, StoreLimit, GroupLimit,
                   (* settings.max_running_listing_tasks_...                *)
  Jobs, NoJob,     (* RQ job ids                                            *)
  Workers, Api,    (* RQ workers; threads serving API requests              *)
  Runner,          (* the schedule runner's maintenance thread              *)
  Serial,          (* TRUE: the long transactions, attempts apart, overlap  *)
                   (* no other transaction                                  *)
  LateFailures,    (* TRUE: an enqueue may fail after another process has   *)
                   (* enqueued the task, or its owner cancelled it          *)
  MaxRetries,      (* bound: calls of the retry endpoints                   *)
  MaxFaults        (* bound: crashes, exceptions, lost jobs, failed enqueues, *)
                   (* stores unavailable, waits for sync tasks              *)

Tasks == 1..MaxTasks
NoTask == 0
Procs == Workers \cup Api \cup {Runner}
StoreSet(t) == {StoresOf[t][i] : i \in 1..Len(StoresOf[t])}

ASSUME ConstantsAssumption ==
  /\ MaxTasks \in Nat \ {0}
  /\ DOMAIN OwnerOf = Tasks
  /\ ProductsOf \in [Tasks -> (SUBSET Products) \ {{}}]
  /\ StoresOf \in [Tasks -> Seq(Stores)] /\ \A t \in Tasks : StoresOf[t] # <<>>
  /\ DOMAIN GroupOf = Tasks
  /\ GlobalLimit \in Nat \ {0} /\ UserLimit \in Nat \ {0}
  /\ StoreLimit \in Nat \ {0} /\ GroupLimit \in Nat \ {0}
  /\ NoJob \notin Jobs
  /\ Workers \cap Api = {} /\ Runner \notin Workers \cup Api
  /\ Serial \in BOOLEAN /\ LateFailures \in BOOLEAN
  /\ MaxRetries \in Nat /\ MaxFaults \in Nat

VARIABLES
  row,      \* the listing-task rows
  lock,     \* listing_task_id of each product
  listed,   \* the stores each product is recorded as listed in
  jobs,     \* what Redis holds of each job id
  pc,       \* what each process is about to do
  hold,     \* the job a worker is executing
  plan,     \* row writes of each process's open transaction
  todo,     \* tasks each dispatcher is still to enqueue
  run,      \* local variables of _run_listing_task in each worker
  att,      \* a worker's attempt at each product, for the current store
  retries, faults

vars == <<row, lock, listed, jobs, pc, hold, plan, todo, run, att, retries, faults>>
budget == <<retries, faults>>
local == <<hold, plan, todo, run, att>>

(***************************************************************************)
(* Rows.  ok, failed and retry are successIds, failedIds and retryIds of   *)
(* product_ids_json.  marked: error_detail starts with the cancel marker.  *)
(* stale: updated_at is older than the cut-offs of the reconciler.         *)
(***************************************************************************)
Statuses == {"new", "queued", "running", "success", "partial", "failed", "cancelled",
             "deleted"}
Row == [status : Statuses, marked : BOOLEAN, stale : BOOLEAN,
        ok : SUBSET Products, failed : SUBSET Products, retry : SUBSET Products]
NewRow == [status |-> "new", marked |-> FALSE, stale |-> FALSE,
           ok |-> {}, failed |-> {}, retry |-> {}]
Exists(t) == row[t].status \notin {"new", "deleted"}

JobState == {"none", "queued", "started", "failed"}
Job == [state : JobState, task : 0..MaxTasks]
GoneJob == [state |-> "none", task |-> NoTask]

Writes == {"none", "start", "cancel", "interrupt"}
NoPlan == [t \in Tasks |-> "none"]

(* store: position in StoresOf; ok, failed: success_product_ids and         *)
(* failed_product_ids; lost: failed_attempt_count > 0; stopping: a          *)
(* cancellation was noticed while attempts were running.                    *)
Run == [store : Nat, ok : SUBSET Products, failed : SUBSET Products,
        retry : SUBSET Products, lost : BOOLEAN, stopping : BOOLEAN]
NoRun == [store |-> 0, ok |-> {}, failed |-> {}, retry |-> {}, lost |-> FALSE,
          stopping |-> FALSE]

(* own, free: the attempt's transaction is open; it has read the product as *)
(* locked by its task, or as unlocked.                                      *)
Attempts == {"none", "ready", "own", "free", "done", "failed", "stopped"}
Open == {"own", "free"}
NoAtt == [x \in Products |-> "none"]

RunPC == {"store", "attempt", "abort", "fault"}
TxnPC == {"begun", "selected", "sweep"}
PCs == {"idle", "begin", "dispatch", "enqueue"} \cup RunPC \cup TxnPC

TaskOf(p) == jobs[hold[p]].task
Runs(p, t) == p \in Workers /\ pc[p] \in RunPC /\ TaskOf(p) = t
LiveRun(t) == \E p \in Workers : Runs(p, t)
Running == {t \in Tasks : row[t].status = "running"}

(* No other process is inside a long transaction, if those are serial. *)
Turn(p) == Serial => \A q \in Procs \ {p} : pc[q] \notin TxnPC

Goto(p, label) == pc' = [pc EXCEPT ![p] = label]

(* is_task_cancel_requested; a deleted row does not count as cancelled. *)
CancelSeen(t) == row[t].status = "cancelled" \/ (Exists(t) /\ row[t].marked)

-----------------------------------------------------------------------------
(***************************************************************************)
(* Helpers on payloads and locks.                                          *)
(***************************************************************************)

(* release_listing_task_locks for the tasks in S: products not yet listed   *)
(* are freed.                                                               *)
Released(S) ==
  [x \in Products |-> IF lock[x] \in S /\ x \in ProductsOf[lock[x]] \ row[lock[x]].ok
                      THEN NoTask ELSE lock[x]]

(* listing_task_retry_product_ids *)
RetryIds(t) ==
  IF row[t].status \in {"partial", "failed"} /\ row[t].failed # {}
  THEN row[t].failed ELSE ProductsOf[t]

(* The products a run works on: retryIds, or else all. *)
ActiveIds(t) == IF row[t].retry # {} THEN row[t].retry ELSE ProductsOf[t]

(* finalize_interrupted_listing_task: what was not handled has failed. *)
InterruptedForgetful(t) ==
  [row[t] EXCEPT !.status = IF row[t].ok # {} THEN "partial" ELSE "failed",
                 !.retry = {}, !.marked = FALSE, !.stale = FALSE]
Interrupted(t) ==
  LET r == row[t]
      unfinished == ActiveIds(t) \ (r.ok \cup r.failed)
  IN [r EXCEPT !.status = IF r.ok # {} THEN "partial" ELSE "failed",
               !.failed = r.failed \cup unfinished, !.retry = {},
               !.marked = FALSE, !.stale = FALSE]

Started(t) == [row[t] EXCEPT !.status = "running", !.marked = FALSE, !.stale = FALSE]
CancelledRow(t) == [row[t] EXCEPT !.status = "cancelled", !.marked = FALSE, !.stale = FALSE]

Written(t, w) == CASE w = "start"     -> Started(t)
                   [] w = "cancel"    -> CancelledRow(t)
                   [] w = "interrupt" -> Interrupted(t)
                   [] OTHER           -> row[t]

(* An UPDATE of a row another transaction deleted raises StaleDataError.    *)
(* (Updates of the message alone, of tasks that wait, are left out.)        *)
RowVanished(p) == \E t \in Tasks : plan[p][t] # "none" /\ row[t].status = "deleted"

CommitPlan(p) ==
  /\ ~RowVanished(p)
  /\ row' = [t \in Tasks |-> Written(t, plan[p][t])]
  /\ lock' = Released({t \in Tasks : plan[p][t] \in {"cancel", "interrupt"}})
  /\ plan' = [plan EXCEPT ![p] = NoPlan]

Abandon(p) == plan' = [plan EXCEPT ![p] = NoPlan] /\ UNCHANGED <<row, lock>>

(* redis_task_states *)
HasJob(t, states) == \E j \in Jobs : jobs[j].task = t /\ jobs[j].state \in states
HasLiveJob(t) == HasJob(t, {"queued", "started"})
HasFailedJob(t) == HasJob(t, {"failed"}) /\ ~HasLiveJob(t)
HasNoJobButFailed(t) == HasFailedJob(t)
HasNoJob(t) == ~HasJob(t, {"queued", "started", "failed"})

(* finalize_stale_cancel_requested_tasks and                                 *)
(* reconcile_interrupted_running_tasks: what they may write to a row.  Their *)
(* cut-offs differ; a stale row may be past either.                          *)
UpkeepWritesOfRedis(t) ==
  IF row[t].status = "running" /\ HasFailedJob(t) THEN {"interrupt"} ELSE {"none"}
UpkeepWrites(t) ==
  LET cancel == IF row[t].marked /\ row[t].stale THEN {"cancel"} ELSE {}
      missing == IF HasNoJob(t) /\ row[t].stale THEN {"interrupt"} ELSE {}
  IN IF row[t].status # "running" THEN {"none"}
     ELSE IF HasFailedJob(t) THEN {"interrupt"}
     ELSE IF cancel \cup missing = {} THEN {"none"} ELSE cancel \cup missing
Upkeep ==
  LET allowed == [t \in Tasks |-> UpkeepWrites(t)]
  IN {u \in [Tasks -> Writes] : \A t \in Tasks : u[t] \in allowed[t]}

(* listing_task_capacity_counts: the active tasks A leave room for t, which *)
(* those of its own group do not compete with for the user and the store.   *)
GroupMates(A, t) ==
  {u \in A \ {t} : /\ GroupOf[t] # NoGroup /\ GroupOf[u] = GroupOf[t]
                   /\ OwnerOf[u] = OwnerOf[t]}
FitsBesideGroup(A, t) ==
  LET others == (A \ {t}) \ GroupMates(A, t) IN
  /\ Cardinality({u \in others : OwnerOf[u] = OwnerOf[t]}) < UserLimit
  /\ Cardinality({u \in others : StoreSet(u) \cap StoreSet(t) # {}}) < StoreLimit
Fits(A, t) ==
  /\ GroupOf[t] # NoGroup => Cardinality(GroupMates(A, t)) < GroupLimit
  /\ FitsBesideGroup(A, t)

(* task_resource_scopes_conflict between listing tasks. *)
Conflict(t, u) == OwnerOf[t] = OwnerOf[u] /\ ActiveIds(t) \cap ActiveIds(u) # {}

-----------------------------------------------------------------------------
(***************************************************************************)
(* dispatch_next_listing_task, run after every API call that changes a     *)
(* task and at the end of every job.                                       *)
(***************************************************************************)

(* The process is done; RQ drops a worker's job from the started registry. *)
Done(p) ==
  /\ jobs' = IF hold[p] = NoJob THEN jobs ELSE [jobs EXCEPT ![hold[p]] = GoneJob]
  /\ hold' = [hold EXCEPT ![p] = NoJob]
  /\ Goto(p, "idle")

Active == {t \in Tasks : row[t].status = "running" \/ (row[t].status = "queued" /\ HasLiveJob(t))}

(* The queued tasks to enqueue, picked one by one in the order of           *)
(* created_at; those in held wait for a sync task.                          *)
Picks(held) ==
  LET candidates == {t \in Tasks : row[t].status = "queued" /\ ~row[t].marked}
                      \ (Active \cup held)
      picked[n \in 0..MaxTasks] ==
        IF n = 0 THEN {}
        ELSE LET S == picked[n - 1]
                 A == Active \cup S
             IN IF /\ n \in candidates
                   /\ Cardinality(A) < GlobalLimit
                   /\ Fits(A, n)
                   /\ \A u \in A : ~Conflict(n, u)
                THEN S \cup {n} ELSE S
  IN {t \in candidates : t \in picked[t]}

(* Scopes of active sync tasks are outside this module: any tasks may have  *)
(* to wait for one.                                                         *)
HeldBySync(held) == IF held = {} THEN faults' = faults
                    ELSE faults < MaxFaults /\ faults' = faults + 1

SelectNext(p) ==
  /\ pc[p] = "dispatch"
  /\ Turn(p)
  /\ \E held \in SUBSET Tasks :
       /\ HeldBySync(held)
       /\ todo' = [todo EXCEPT ![p] = Picks(held)]
  /\ \E up \in Upkeep :
       plan' = [plan EXCEPT ![p] = [t \in Tasks |->
                  IF row[t].status = "queued" /\ row[t].marked THEN "cancel" ELSE up[t]]]
  /\ Goto(p, "selected")
  /\ UNCHANGED <<row, lock, listed, jobs, hold, run, att, retries>>

CommitSelect(p) ==
  /\ pc[p] = "selected"
  /\ CommitPlan(p)
  /\ Goto(p, "enqueue")
  /\ UNCHANGED <<listed, jobs, hold, todo, run, att, budget>>

CommitSelectFails(p) ==
  /\ pc[p] = "selected"
  /\ RowVanished(p)
  /\ Abandon(p)
  /\ todo' = [todo EXCEPT ![p] = {}]
  /\ Goto(p, "enqueue")
  /\ UNCHANGED <<listed, jobs, hold, run, att, budget>>

(* A job id never handed out before: uuid4. *)
Fresh(j) == jobs[j].state = "none" /\ \A p \in Procs : hold[p] # j

First(S) == CHOOSE t \in S : \A u \in S : t <= u

(* dispatch_listing_task *)
Enqueue(p) ==
  /\ pc[p] \in {"enqueue", "sweep"}
  /\ todo[p] # {}
  /\ \E j \in Jobs :
       /\ Fresh(j)
       /\ jobs' = [jobs EXCEPT ![j] = [state |-> "queued", task |-> First(todo[p])]]
  /\ todo' = [todo EXCEPT ![p] = @ \ {First(todo[p])}]
  /\ UNCHANGED <<row, lock, listed, pc, hold, plan, run, att, budget>>

(* The enqueue raises, with or without having stored the job.               *)
(* mark_background_task_dispatch_failed marks the row as failed, whatever   *)
(* its status is, and the exception ends the dispatch; the reconciler's     *)
(* transaction is rolled back.                                              *)
EnqueueFails(p) ==
  /\ pc[p] \in {"enqueue", "sweep"}
  /\ Turn(p)
  /\ todo[p] # {}
  /\ faults < MaxFaults
  /\ faults' = faults + 1
  /\ LET t == First(todo[p]) IN
     /\ LateFailures \/ row[t].status = "deleted" \/ (row[t].status = "queued" /\ ~HasLiveJob(t))
     /\ \E j \in Jobs :
          /\ Fresh(j)
          /\ jobs' \in {jobs, [jobs EXCEPT ![j] = [state |-> "queued", task |-> t]]}
     /\ IF Exists(t)
        THEN /\ row' = [row EXCEPT ![t].status = "failed", ![t].marked = FALSE,
                                   ![t].stale = FALSE]
             /\ lock' = Released({t})
        ELSE UNCHANGED <<row, lock>>
  /\ todo' = [todo EXCEPT ![p] = {}]
  /\ plan' = [plan EXCEPT ![p] = NoPlan]
  /\ Goto(p, IF pc[p] = "sweep" THEN "idle" ELSE "enqueue")
  /\ UNCHANGED <<listed, hold, run, att, retries>>

EndDispatch(p) ==
  /\ pc[p] = "enqueue"
  /\ todo[p] = {}
  /\ Done(p)
  /\ UNCHANGED <<row, lock, listed, plan, todo, run, att, budget>>

Dispatch(p) ==
  \/ SelectNext(p) \/ CommitSelect(p) \/ CommitSelectFails(p)
  \/ Enqueue(p) \/ EnqueueFails(p) \/ EndDispatch(p)

-----------------------------------------------------------------------------
(* The worker: run_listing_task. *)

TakeJob(w) ==
  /\ pc[w] = "idle"
  /\ \E j \in Jobs :
       /\ jobs[j].state = "queued"
       /\ jobs' = [jobs EXCEPT ![j].state = "started"]
       /\ hold' = [hold EXCEPT ![w] = j]
  /\ Goto(w, "begin")
  /\ UNCHANGED <<row, lock, listed, plan, todo, run, att, budget>>

(* listing_task_start_wait_reason: capacity among the running tasks. *)
MayStartGlobally(t) == Cardinality(Running) < GlobalLimit
MayStartBesideGroup(t) ==
  Cardinality(Running) < GlobalLimit /\ FitsBesideGroup(Running, t)
MayStart(t) == Cardinality(Running) < GlobalLimit /\ Fits(Running, t)

StartableAnyway(t) == row[t].status \notin {"running", "deleted"} /\ ~row[t].marked
Startable(t) == row[t].status = "queued" /\ ~row[t].marked

(* The task is gone or not queued any more, or was cancelled. *)
NotStarted(w) ==
  /\ pc[w] = "begin"
  /\ Turn(w)
  /\ ~Startable(TaskOf(w))
  /\ Goto(w, IF row[TaskOf(w)].status = "queued" THEN "abort" ELSE "dispatch")
  /\ UNCHANGED <<row, lock, listed, jobs, local, budget>>

(* The first transaction reads the row and the rows it may have to wait for. *)
ReadStart(w) ==
  /\ pc[w] = "begin"
  /\ Turn(w)
  /\ LET t == TaskOf(w) IN
     /\ Startable(t)
     /\ \E up \in Upkeep, held \in {{}, {t}} :
          /\ HeldBySync(held)
          /\ plan' = [plan EXCEPT ![w] =
                        IF MayStart(t) /\ held = {} THEN [up EXCEPT ![t] = "start"] ELSE up]
     /\ run' = [run EXCEPT ![w] =
                  [NoRun EXCEPT !.store = 1, !.retry = row[t].retry,
                     !.ok = IF row[t].retry # {} THEN row[t].ok \ row[t].retry ELSE {}]]
  /\ Goto(w, "begun")
  /\ UNCHANGED <<row, lock, listed, jobs, hold, todo, att, retries>>

(* ... and commits: the task runs, or its job ends and leaves it queued. *)
CommitStart(w) ==
  /\ pc[w] = "begun"
  /\ CommitPlan(w)
  /\ IF plan[w][TaskOf(w)] = "start"
     THEN Goto(w, "store") /\ UNCHANGED run
     ELSE Goto(w, "dispatch") /\ run' = [run EXCEPT ![w] = NoRun]
  /\ UNCHANGED <<listed, jobs, hold, todo, att, budget>>

CommitStartFails(w) ==
  /\ pc[w] = "begun"
  /\ RowVanished(w)
  /\ Abandon(w)
  /\ Goto(w, "fault")
  /\ UNCHANGED <<listed, jobs, hold, todo, run, att, budget>>

StoreLeft(w) == run[w].store <= Len(StoresOf[TaskOf(w)])
CurrentStore(w) == StoresOf[TaskOf(w)][run[w].store]
RunIds(w) == IF run[w].retry # {} THEN run[w].retry ELSE ProductsOf[TaskOf(w)]

(* raise_if_task_cancelled, before each store and after the last. *)
NoticeCancel(w) ==
  /\ pc[w] = "store"
  /\ CancelSeen(TaskOf(w))
  /\ Goto(w, "abort")
  /\ UNCHANGED <<row, lock, listed, jobs, local, budget>>

(* The attempts at the current store are submitted to the thread pool. *)
OpenStore(w) ==
  /\ pc[w] = "store"
  /\ ~CancelSeen(TaskOf(w)) /\ StoreLeft(w)
  /\ att' = [att EXCEPT ![w] = [x \in Products |-> IF x \in RunIds(w) THEN "ready" ELSE "none"]]
  /\ Goto(w, "attempt")
  /\ UNCHANGED <<row, lock, listed, jobs, hold, plan, todo, run, budget>>

(* The store is gone, disabled or without credentials: every product fails  *)
(* there, and update_task_progress touches the row.                         *)
StoreUnavailable(w) ==
  /\ pc[w] = "store"
  /\ Turn(w)
  /\ ~CancelSeen(TaskOf(w)) /\ StoreLeft(w)
  /\ faults < MaxFaults
  /\ faults' = faults + 1
  /\ run' = [run EXCEPT ![w].store = @ + 1, ![w].failed = @ \cup RunIds(w), ![w].lost = TRUE]
  /\ row' = [row EXCEPT ![TaskOf(w)].stale = FALSE]
  /\ UNCHANGED <<lock, listed, jobs, pc, hold, plan, todo, att, retries>>

(* run_listing_product_attempt reads the product: it belongs to another     *)
(* task, is listed already, or is going to be listed.                       *)
BeginAttempt(w, x) ==
  /\ pc[w] = "attempt"
  /\ att[w][x] = "ready"
  /\ att' = [att EXCEPT ![w][x] =
               IF lock[x] \notin {NoTask, TaskOf(w)} THEN "failed"
               ELSE IF CurrentStore(w) \in listed[x] THEN "done"
               ELSE IF lock[x] = TaskOf(w) THEN "own" ELSE "free"]
  /\ UNCHANGED <<row, lock, listed, jobs, pc, hold, plan, todo, run, budget>>

(* Its transaction commits after the calls of Rakuten.  listing_task_id is  *)
(* set to NULL, which is a write only if it was read as the task's own.     *)
(* (The record of stores is rebuilt from the payload read at the beginning: *)
(* the same set, as long as OneLister holds and no task is deleted.)        *)
EndAttempt(w, x) ==
  /\ pc[w] = "attempt"
  /\ Turn(w)
  /\ att[w][x] \in Open
  /\ \/ /\ att' = [att EXCEPT ![w][x] = "done"]
        /\ listed' = [listed EXCEPT ![x] = @ \cup {CurrentStore(w)}]
     \/ /\ att' = [att EXCEPT ![w][x] = "failed"]
        /\ UNCHANGED listed
  /\ lock' = IF att[w][x] = "own" THEN [lock EXCEPT ![x] = NoTask] ELSE lock
  /\ UNCHANGED <<row, jobs, pc, hold, plan, todo, run, budget>>

(* Its transaction fails as a whole, as when the commit raises. *)
AttemptRaises(w, x) ==
  /\ pc[w] = "attempt"
  /\ att[w][x] \in Open
  /\ faults < MaxFaults
  /\ faults' = faults + 1
  /\ att' = [att EXCEPT ![w][x] = "failed"]
  /\ UNCHANGED <<row, lock, listed, jobs, pc, hold, plan, todo, run, retries>>

(* The attempt sees the cancellation between two calls and rolls back. *)
StopAttempt(w, x) ==
  /\ pc[w] = "attempt"
  /\ att[w][x] \in Open
  /\ CancelSeen(TaskOf(w))
  /\ att' = [att EXCEPT ![w][x] = "stopped"]
  /\ UNCHANGED <<row, lock, listed, jobs, pc, hold, plan, todo, run, budget>>

(* A cancellation drops the attempts that have not begun. *)
Remaining(w, x) == [y \in Products |-> IF y = x \/ att[w][y] = "ready" THEN "none"
                                       ELSE att[w][y]]

Succeeded(w, x) == att[w][x] = "done"

(* The main thread notes a result in the row, and stops on a cancellation. *)
CollectResult(w, x) ==
  /\ pc[w] = "attempt"
  /\ Turn(w)
  /\ ~run[w].stopping
  /\ att[w][x] \in {"done", "failed"}
  /\ LET t == TaskOf(w)
         good == Succeeded(w, x)
         ok == IF good THEN run[w].ok \cup {x} ELSE run[w].ok
         failed == IF good THEN run[w].failed \ {x} ELSE run[w].failed \cup {x}
     IN
     /\ run' = [run EXCEPT ![w].ok = ok, ![w].failed = failed,
                           ![w].lost = @ \/ ~good, ![w].stopping = CancelSeen(t)]
     /\ row' = IF ~Exists(t) THEN row
               ELSE [row EXCEPT ![t].ok = ok, ![t].failed = failed \ ok,
                                ![t].retry = run[w].retry, ![t].stale = FALSE]
     /\ att' = [att EXCEPT ![w] = IF CancelSeen(t) THEN Remaining(w, x)
                                  ELSE [@ EXCEPT ![x] = "none"]]
  /\ UNCHANGED <<lock, listed, jobs, pc, hold, plan, todo, budget>>

CollectStopped(w, x) ==
  /\ pc[w] = "attempt"
  /\ ~run[w].stopping
  /\ att[w][x] = "stopped"
  /\ run' = [run EXCEPT ![w].stopping = TRUE]
  /\ att' = [att EXCEPT ![w] = Remaining(w, x)]
  /\ UNCHANGED <<row, lock, listed, jobs, pc, hold, plan, todo, budget>>

(* The pool has finished the attempts under way. *)
StoreStopped(w) ==
  /\ pc[w] = "attempt"
  /\ run[w].stopping
  /\ \A x \in Products : att[w][x] \notin Open
  /\ att' = [att EXCEPT ![w] = NoAtt]
  /\ Goto(w, "abort")
  /\ UNCHANGED <<row, lock, listed, jobs, hold, plan, todo, run, budget>>

StoreDone(w) ==
  /\ pc[w] = "attempt"
  /\ ~run[w].stopping
  /\ att[w] = NoAtt
  /\ run' = [run EXCEPT ![w].store = @ + 1]
  /\ Goto(w, "store")
  /\ UNCHANGED <<row, lock, listed, jobs, hold, plan, todo, att, budget>>

(* The last transaction of _run_listing_task. *)
FinalStatus(w) ==
  IF run[w].ok = {} THEN "failed" ELSE IF run[w].lost THEN "partial" ELSE "success"

Leave(w) ==
  /\ run' = [run EXCEPT ![w] = NoRun]
  /\ Goto(w, "dispatch")

(* No store is left: the products still locked by the task are freed and    *)
(* the results written.  For a deleted row nothing is done.                 *)
Finish(w) ==
  /\ pc[w] = "store"
  /\ Turn(w)
  /\ ~StoreLeft(w)
  /\ LET t == TaskOf(w) IN
     /\ ~CancelSeen(t)
     /\ IF ~Exists(t) THEN UNCHANGED <<row, lock>>
        ELSE /\ row' = [row EXCEPT ![t] =
                          [NewRow EXCEPT !.status = FinalStatus(w), !.ok = run[w].ok,
                                         !.failed = run[w].failed \ run[w].ok]]
             /\ lock' = [x \in Products |-> IF x \in ProductsOf[t] /\ lock[x] = t
                                             THEN NoTask ELSE lock[x]]
  /\ Leave(w)
  /\ UNCHANGED <<listed, jobs, hold, plan, todo, att, budget>>

(* cancel_listing_task_from_worker, whatever the status of the row is *)
Abort(w) ==
  /\ pc[w] = "abort"
  /\ Turn(w)
  /\ LET t == TaskOf(w) IN
     IF Exists(t) THEN row' = [row EXCEPT ![t] = CancelledRow(t)] /\ lock' = Released({t})
                  ELSE UNCHANGED <<row, lock>>
  /\ Leave(w)
  /\ UNCHANGED <<listed, jobs, hold, plan, todo, att, budget>>

(* The main thread gets an exception, as from a lost connection; inside a   *)
(* store it first waits for the thread pool.                                *)
RunRaises(w) ==
  /\ pc[w] \in {"store", "attempt"}
  /\ faults < MaxFaults
  /\ faults' = faults + 1
  /\ \A x \in Products : att[w][x] \notin Open \cup {"ready"}
  /\ att' = [att EXCEPT ![w] = NoAtt]
  /\ Goto(w, "fault")
  /\ UNCHANGED <<row, lock, listed, jobs, hold, plan, todo, run, retries>>

(* fail_listing_task_unexpectedly: what was to be retried, or else every    *)
(* product, has failed; a cancelled row is left alone.                      *)
Fail(w) ==
  /\ pc[w] = "fault"
  /\ Turn(w)
  /\ LET t == TaskOf(w)
         ids == ActiveIds(t)
         ok == row[t].ok \ ids
     IN
     IF ~Exists(t) \/ row[t].status = "cancelled" THEN UNCHANGED <<row, lock>>
     ELSE /\ row' = [row EXCEPT ![t] =
                       [NewRow EXCEPT !.status = IF ok # {} THEN "partial" ELSE "failed",
                                      !.ok = ok, !.failed = ids]]
          /\ lock' = [x \in Products |-> IF x \in ids /\ lock[x] = t THEN NoTask ELSE lock[x]]
  /\ Leave(w)
  /\ UNCHANGED <<listed, jobs, hold, plan, todo, att, budget>>

Attempt(w, x) ==
  BeginAttempt(w, x) \/ EndAttempt(w, x) \/ AttemptRaises(w, x) \/ StopAttempt(w, x)
  \/ CollectResult(w, x) \/ CollectStopped(w, x)

Worker(w) ==
  \/ TakeJob(w) \/ NotStarted(w) \/ ReadStart(w) \/ CommitStart(w) \/ CommitStartFails(w)
  \/ NoticeCancel(w) \/ OpenStore(w) \/ StoreUnavailable(w)
  \/ (\E x \in Products : Attempt(w, x))
  \/ StoreStopped(w) \/ StoreDone(w) \/ Finish(w) \/ Abort(w) \/ RunRaises(w) \/ Fail(w)

-----------------------------------------------------------------------------
(* API calls.  Each commits and then dispatches, but for the deletion. *)

(* The tasks one call creates together: a large selection is split into    *)
(* the tasks of a group.                                                    *)
Batch(t) == {t} \cup GroupMates(Tasks, t)

(* create_listing_task: the products, read FOR UPDATE, belong to no task.   *)
(* That they are new to the stores is not asked with skip_preflight.        *)
Create(a) ==
  /\ pc[a] = "idle"
  /\ Turn(a)
  /\ \E t \in Tasks :
       /\ row[t].status = "new" /\ \A u \in 1..(t - 1) : row[u].status # "new"
       /\ \A u \in Batch(t) : \A x \in ProductsOf[u] : lock[x] = NoTask
       /\ row' = [u \in Tasks |-> IF u \in Batch(t) THEN [NewRow EXCEPT !.status = "queued"]
                                  ELSE row[u]]
       /\ lock' = [x \in Products |->
                     IF \E u \in Batch(t) : x \in ProductsOf[u]
                     THEN CHOOSE u \in Batch(t) : x \in ProductsOf[u] ELSE lock[x]]
  /\ Goto(a, "dispatch")
  /\ UNCHANGED <<listed, jobs, local, budget>>

(* request_task_cancel: a queued task is cancelled at once, a running one   *)
(* is marked.                                                               *)
Cancel(a) ==
  /\ pc[a] = "idle"
  /\ Turn(a)
  /\ \E t \in Tasks :
       \/ /\ row[t].status = "queued"
          /\ row' = [row EXCEPT ![t] = CancelledRow(t)]
          /\ lock' = Released({t})
       \/ /\ row[t].status = "running"
          /\ row' = [row EXCEPT ![t].marked = TRUE, ![t].stale = @ /\ row[t].marked]
          /\ UNCHANGED lock
  /\ Goto(a, "dispatch")
  /\ UNCHANGED <<listed, jobs, local, budget>>

(* _prepare_listing_task_retry, for one task or the tasks of a group that   *)
(* have not succeeded.                                                      *)
Retried(t) ==
  [NewRow EXCEPT !.status = "queued", !.failed = RetryIds(t), !.retry = RetryIds(t),
     !.ok = IF row[t].status \in {"partial", "failed"} /\ row[t].failed # {}
            THEN row[t].ok \ RetryIds(t) ELSE {}]

Retry(a) ==
  /\ pc[a] = "idle"
  /\ Turn(a)
  /\ retries < MaxRetries
  /\ retries' = retries + 1
  /\ \E R \in SUBSET {t \in Tasks : row[t].status \in {"partial", "failed", "cancelled"}} :
       LET takers(x) == {t \in R : x \in RetryIds(t)} IN
       /\ R # {} /\ \A t, u \in R : OwnerOf[t] = OwnerOf[u]
       /\ row' = [t \in Tasks |-> IF t \in R THEN Retried(t) ELSE row[t]]
       /\ lock' = [x \in Products |-> IF lock[x] = NoTask /\ takers(x) # {}
                                      THEN First(takers(x)) ELSE lock[x]]
  /\ Goto(a, "dispatch")
  /\ UNCHANGED <<listed, jobs, local, faults>>

(* delete_listing_tasks: rows of any status; the products keep their locks. *)
Delete(a) ==
  /\ pc[a] = "idle"
  /\ Turn(a)
  /\ \E t \in Tasks :
       /\ Exists(t)
       /\ row' = [row EXCEPT ![t] = [NewRow EXCEPT !.status = "deleted"]]
  /\ UNCHANGED <<lock, listed, jobs, pc, local, budget>>

(* list_listing_tasks dispatches before it reads (and reconciles once more, *)
(* as the dispatch has just done).                                          *)
Poll(a) ==
  /\ pc[a] = "idle"
  /\ Goto(a, "dispatch")
  /\ UNCHANGED <<row, lock, listed, jobs, local, budget>>

Request(a) == Create(a) \/ Cancel(a) \/ Retry(a) \/ Delete(a) \/ Poll(a)

-----------------------------------------------------------------------------
(***************************************************************************)
(* The schedule runner: reconcile_interrupted_running_tasks and            *)
(* reconcile_missing_queued_tasks.                                         *)
(***************************************************************************)

(* Running rows are judged and the queued rows without a job, of those      *)
(* created before queued_task_missing_cutoff, enqueued again (at most       *)
(* task_queue_queued_requeue_limit rows are looked at, taken here to be     *)
(* enough for all).                                                         *)
ReadSweep(ripe) ==
  /\ pc[Runner] = "idle"
  /\ Turn(Runner)
  /\ LET missing == {t \in 1..ripe : row[t].status = "queued" /\ HasNoJob(t)} IN
     \E up \in Upkeep :
       /\ \A t \in Tasks : up[t] # "cancel"
       /\ plan' = [plan EXCEPT ![Runner] = [t \in Tasks |->
                      IF t \in missing /\ row[t].marked THEN "cancel" ELSE up[t]]]
       /\ todo' = [todo EXCEPT ![Runner] = {t \in missing : ~row[t].marked}]
  /\ Goto(Runner, "sweep")
  /\ UNCHANGED <<row, lock, listed, jobs, hold, run, att, budget>>

CommitSweep ==
  /\ pc[Runner] = "sweep"
  /\ todo[Runner] = {}
  /\ CommitPlan(Runner)
  /\ Goto(Runner, "idle")
  /\ UNCHANGED <<listed, jobs, hold, todo, run, att, budget>>

CommitSweepFails ==
  /\ pc[Runner] = "sweep"
  /\ todo[Runner] = {}
  /\ RowVanished(Runner)
  /\ Abandon(Runner)
  /\ Goto(Runner, "idle")
  /\ UNCHANGED <<listed, jobs, hold, todo, run, att, budget>>

Sweep ==
  \/ (\E ripe \in Tasks : ReadSweep(ripe))
  \/ Enqueue(Runner) \/ EnqueueFails(Runner) \/ CommitSweep \/ CommitSweepFails

-----------------------------------------------------------------------------
(* Time and failures. *)

(* A process dies; its open transactions are rolled back.  RQ keeps its job *)
(* in the started registry for now.                                         *)
Crash(p) ==
  /\ pc[p] # "idle"
  /\ faults < MaxFaults
  /\ faults' = faults + 1
  /\ Goto(p, "idle")
  /\ hold' = [hold EXCEPT ![p] = NoJob]
  /\ plan' = [plan EXCEPT ![p] = NoPlan]
  /\ todo' = [todo EXCEPT ![p] = {}]
  /\ run' = [run EXCEPT ![p] = NoRun]
  /\ att' = [att EXCEPT ![p] = NoAtt]
  /\ UNCHANGED <<row, lock, listed, jobs, retries>>

(* RQ moves the job of a dead worker to the failed registry ... *)
JobFails(j) ==
  /\ jobs[j].state = "started"
  /\ \A w \in Workers : hold[w] # j
  /\ jobs' = [jobs EXCEPT ![j].state = "failed"]
  /\ UNCHANGED <<row, lock, listed, pc, local, budget>>

(* ... and forgets it after failure_ttl. *)
FailedJobExpires(j) ==
  /\ jobs[j].state = "failed"
  /\ jobs' = [jobs EXCEPT ![j] = GoneJob]
  /\ UNCHANGED <<row, lock, listed, pc, local, budget>>

(* Redis loses a queued job, as in a restart without persistence. *)
LoseJob(j) ==
  /\ jobs[j].state = "queued"
  /\ faults < MaxFaults
  /\ faults' = faults + 1
  /\ jobs' = [jobs EXCEPT ![j] = GoneJob]
  /\ UNCHANGED <<row, lock, listed, pc, local, retries>>

(* updated_at of a running row falls behind the cut-offs: nobody runs the   *)
(* task.  (A live run touches its row after every product.)                 *)
RowGoesStale(t) ==
  /\ row[t].status = "running" /\ ~row[t].stale
  /\ ~LiveRun(t)
  /\ row' = [row EXCEPT ![t].stale = TRUE]
  /\ UNCHANGED <<lock, listed, jobs, pc, local, budget>>

-----------------------------------------------------------------------------
Init ==
  /\ row = [t \in Tasks |-> NewRow]
  /\ lock = [x \in Products |-> NoTask]
  /\ listed = [x \in Products |-> {}]
  /\ jobs = [j \in Jobs |-> GoneJob]
  /\ pc = [p \in Procs |-> "idle"]
  /\ hold = [p \in Procs |-> NoJob]
  /\ plan = [p \in Procs |-> NoPlan]
  /\ todo = [p \in Procs |-> {}]
  /\ run = [p \in Procs |-> NoRun]
  /\ att = [p \in Procs |-> NoAtt]
  /\ retries = 0 /\ faults = 0

Environment ==
  \/ \E p \in Procs : Crash(p)
  \/ \E j \in Jobs : JobFails(j) \/ FailedJobExpires(j) \/ LoseJob(j)
  \/ \E t \in Tasks : RowGoesStale(t)

Next ==
  \/ \E p \in Workers \cup Api : Dispatch(p)
  \/ \E w \in Workers : Worker(w)
  \/ \E a \in Api : Request(a)
  \/ Sweep
  \/ Environment

Spec == Init /\ [][Next]_vars

(* Fairness.  Workers, API threads and the schedule runner keep running     *)
(* (the supervisor restarts a dead one) and the database lets a waiting     *)
(* transaction through: strong where a step waits for its turn.  The runner *)
(* comes to every old row, RQ acts on its timeouts, time passes.  Users and *)
(* faults owe nothing.                                                      *)
Fairness ==
  /\ \A p \in Workers \cup Api : SF_vars(Dispatch(p))
  /\ \A w \in Workers : SF_vars(Worker(w))
  /\ SF_vars(Sweep) /\ SF_vars(ReadSweep(MaxTasks))
  /\ \A j \in Jobs : WF_vars(JobFails(j)) /\ WF_vars(FailedJobExpires(j))
  /\ \A t \in Tasks : WF_vars(RowGoesStale(t))

FairSpec == Spec /\ Fairness

-----------------------------------------------------------------------------
(* Properties. *)

(* Every variable holds values of its kind. *)
TypeOK ==
  /\ row \in [Tasks -> Row]
  /\ lock \in [Products -> Tasks \cup {NoTask}]
  /\ listed \in [Products -> SUBSET Stores]
  /\ jobs \in [Jobs -> Job]
  /\ pc \in [Procs -> PCs]
  /\ hold \in [Procs -> Jobs \cup {NoJob}]
  /\ plan \in [Procs -> [Tasks -> Writes]]
  /\ todo \in [Procs -> SUBSET Tasks]
  /\ run \in [Procs -> Run]
  /\ att \in [Procs -> [Products -> Attempts]]
  /\ retries \in 0..MaxRetries /\ faults \in 0..MaxFaults

(* run_listing_product_attempt: no two workers are listing the same product *)
(* at the same time, through cancellations, retries and dead workers,       *)
(* although a product is unlocked once it is listed in the first of several *)
(* stores.  (A task that is deleted while it runs goes on unseen.)          *)
Lists(w, x) == att[w][x] \in Open /\ Exists(TaskOf(w))
OneLister ==
  \A v, w \in Workers : \A x \in Products : Lists(v, x) /\ Lists(w, x) => v = w

(* listing_task_start_wait_reason: the running tasks fit next to each other *)
(* in the limits per user, store and group and in the global one, although  *)
(* the dispatcher enqueues by stale counts and the runner without counting. *)
RunningFits ==
  /\ Cardinality(Running) <= GlobalLimit
  /\ \A t \in Running : Fits(Running, t)

(* No run, interruption, failure or retry loses a product: in a finished    *)
(* task each one is a success or will be retried, and a task reported as    *)
(* successful has none left.                                                *)
NothingForgotten ==
  \A t \in Tasks :
    /\ row[t].status \in {"partial", "failed"} => ProductsOf[t] = row[t].ok \cup RetryIds(t)
    /\ row[t].status = "success" => ProductsOf[t] = row[t].ok

(* What a task reports as listed has been listed in one of its stores.      *)
SuccessIsListed ==
  \A t \in Tasks : \A x \in row[t].ok : listed[x] \cap StoreSet(t) # {}

(* request_task_cancel: a cancelled task stays cancelled until its owner    *)
(* retries or deletes it, whatever job, worker or dispatcher still refers   *)
(* to it.                                                                   *)
StaysCancelled ==
  \A t \in Tasks :
    row[t].status = "cancelled" /\ row'[t].status # "cancelled" =>
      \/ row'[t].status = "deleted"
      \/ row'[t].status = "queued" /\ retries' > retries
CancelSticks == [][StaysCancelled]_vars

(* A queued task is eventually started, cancelled or deleted.               *)
QueuedIsServed ==
  \A t \in Tasks : row[t].status = "queued" ~> row[t].status # "queued"

(* A running task eventually ends.                                          *)
RunningEnds ==
  \A t \in Tasks : row[t].status = "running" ~> row[t].status # "running"

(* listing_preflight and create_listing_task take the lock of a product to  *)
(* mean that a task is queued or running for it.                            *)
LocksAreActive ==
  \A x \in Products :
    lock[x] # NoTask => row[lock[x]].status \in {"queued", "running"}
=============================================================================
