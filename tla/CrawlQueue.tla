----------------------------- MODULE CrawlQueue -----------------------------
(***************************************************************************)
(* The crawl-task queue of app/services/crawler_service.py in Redis mode:  *)
(* rows of lt_crawl_tasks, the RQ jobs that execute them, the capacity     *)
(* dispatcher behind its Redis lock, the workers that execute run_task,    *)
(* the API calls of users and the reconciler of the schedule runner.       *)
(*                                                                         *)
(* A transaction that reads rows without locking them and writes them      *)
(* later is two actions: the first stores in "plan" the columns it is      *)
(* about to write, the second commits them.  The constant Serial says      *)
(* whether such transactions may overlap.                                  *)
(***************************************************************************)
EXTENDS Naturals, FiniteSets

CONSTANTS
  MaxTasks,        (* tasks are numbered in the order of created_at          *)
  Lanes,           (* a lane is one owner's tasks of one mode                *)
  LaneOf,          (* lane of each task                                      *)
  OwnerOf,         (* owner of each lane                                     *)
  ScheduledLanes,  (* the lanes whose mode is "scheduled"                    *)
  Limit,           (* crawl_task_concurrency_limit of each lane              *)
  RequeueLimit,    (* settings.task_queue_queued_requeue_limit               *)
  Jobs, NoJob,     (* RQ job ids                                             *)
  Workers, Api,    (* RQ workers; threads serving API requests               *)
  Runner, NoProc,  (* the schedule runner's maintenance thread               *)
  Serial,          (* TRUE: unlocked read-write transactions do not overlap  *)
  LockMayExpire,   (* TRUE: the dispatch lock can time out under its holder  *)
  SlowRuns,        (* TRUE: a live run can leave its row untouched so long   *)
                   (* that the reconciler takes it for dead                  *)
  MaxReruns,       (* bound: re-runs of finished tasks                       *)
  MaxFaults        (* bound: crashes, lost jobs, failed or mistimed enqueues, pauses *)

Tasks == 1..MaxTasks
Owners == {OwnerOf[l] : l \in Lanes}
Procs == Workers \cup Api \cup {Runner}

ASSUME ConstantsAssumption ==
  /\ MaxTasks \in Nat \ {0}
  /\ LaneOf \in [1..MaxTasks -> Lanes]
  /\ DOMAIN OwnerOf = Lanes
  /\ ScheduledLanes \subseteq Lanes
  /\ Limit \in [Lanes -> Nat \ {0}]
  /\ RequeueLimit \in Nat \ {0}
  /\ NoJob \notin Jobs
  /\ Workers \cap Api = {}
  /\ Runner \notin Workers \cup Api
  /\ NoProc \notin Workers \cup Api \cup {Runner}
  /\ Serial \in BOOLEAN /\ LockMayExpire \in BOOLEAN /\ SlowRuns \in BOOLEAN
  /\ MaxReruns \in Nat /\ MaxFaults \in Nat

VARIABLES
  row,     \* the crawl-task rows
  jobs,    \* what Redis holds of each job id
  lock,    \* holder of the Redis lock CRAWL_DISPATCH_LOCK_NAME
  paused,  \* owners whose dispatch is paused by the system task control
  pc,      \* what each process is about to do
  hold,    \* the job a worker is executing
  plan,    \* column writes of each process's open transaction, per row
  slots,   \* free capacity per lane, as the dispatcher counted it
  todo,    \* reservations the dispatcher has committed and not yet enqueued
  scope,   \* owners a dispatch is restricted to
  reruns, faults

vars == <<row, jobs, lock, paused, pc, hold, plan, slots, todo, scope,
          reruns, faults>>
local == <<hold, plan, slots, todo, scope>>

(***************************************************************************)
(* Rows and jobs.  "new" rows are not created yet; "partial" results count *)
(* as "success".  marked: error_detail starts with the cancel marker.      *)
(* stale: updated_at is older than the reconciler's cut-offs.              *)
(***************************************************************************)
Statuses == {"new", "queued", "running", "success", "failed", "cancelled", "deleted"}
Terminal == {"success", "failed", "cancelled"}
Live == {"queued", "running"} \cup Terminal
Row == [status : Statuses, job : Jobs \cup {NoJob}, marked : BOOLEAN, stale : BOOLEAN]
NewRow == [status |-> "new", job |-> NoJob, marked |-> FALSE, stale |-> FALSE]
JobState == {"none", "queued", "started", "failed"}
Job == [state : JobState, task : 0..MaxTasks]
GoneJob == [state |-> "none", task |-> 0]

Probes == {"probe", "probeStale", "probeMarked", "probeMarkedStale"}
Writes == {"none", "start", "drop", "cancel", "cancelDrop", "mark", "requeue", "fail",
           "delete", "progress", "progressMarked", "progressPlain"} \cup Probes
NoPlan == [t \in Tasks |-> "none"]
NoSlots == [l \in Lanes |-> 0]

RunPC == {"check", "work", "progress", "finish", "abort", "fault"}
TxnPC == {"begun", "progress", "apply", "probe", "settle"}
LockPC == {"reserve", "enqueue"}
PCs == {"idle", "begin", "lock"} \cup RunPC \cup TxnPC \cup LockPC

TaskOf(p) == jobs[hold[p]].task
OwnerOfTask(t) == OwnerOf[LaneOf[t]]

(* Worker p is executing task t: run_task is past the commit that made it  *)
(* running and has not yet written the final status.                       *)
Runs(p, t) == p \in Workers /\ pc[p] \in RunPC /\ TaskOf(p) = t
LiveRun(t) == \E p \in Workers : Runs(p, t)

(* The tasks of lane l that count against its limit. *)
Running(l) == {t \in Tasks : LaneOf[t] = l /\ row[t].status = "running"}
Reserved(l) == {t \in Tasks : LaneOf[t] = l /\ row[t].status = "queued"
                                            /\ row[t].job # NoJob}
Waiting(l) == {t \in Tasks : LaneOf[t] = l /\ row[t].status = "queued"
                                           /\ row[t].job = NoJob}

(* No other process is inside an unlocked transaction, if those are serial. *)
Turn(p) == Serial => \A q \in Procs \ {p} : pc[q] \notin TxnPC

Goto(p, label) == pc' = [pc EXCEPT ![p] = label]

-----------------------------------------------------------------------------
(***************************************************************************)
(* What a transaction writes to a row.  Every update refreshes updated_at. *)
(***************************************************************************)
Written(r, w) ==
  CASE w = "start"      -> [r EXCEPT !.status = "running", !.job = NoJob,
                                     !.marked = FALSE, !.stale = FALSE]
    [] w = "drop"       -> [r EXCEPT !.job = NoJob, !.stale = FALSE]
    [] w = "cancel"     -> [r EXCEPT !.status = "cancelled", !.marked = FALSE, !.stale = FALSE]
    [] w = "cancelDrop" -> [r EXCEPT !.status = "cancelled", !.job = NoJob,
                                     !.marked = FALSE, !.stale = FALSE]
    [] w = "mark"       -> [r EXCEPT !.marked = TRUE, !.stale = FALSE]
    [] w = "requeue"    -> [r EXCEPT !.status = "queued", !.job = NoJob,
                                     !.marked = FALSE, !.stale = FALSE]
    [] w = "fail"       -> [r EXCEPT !.status = "failed", !.marked = FALSE, !.stale = FALSE]
    [] w = "delete"     -> [NewRow EXCEPT !.status = "deleted"]
    [] w = "progress"       -> [r EXCEPT !.stale = FALSE]
    [] w = "progressMarked" -> [r EXCEPT !.marked = TRUE, !.stale = FALSE]
    [] w = "progressPlain"  -> [r EXCEPT !.marked = FALSE, !.stale = FALSE]
    [] OTHER -> r

(* An UPDATE of a row another transaction deleted raises StaleDataError. *)
RowVanished(p) ==
  \E t \in Tasks : plan[p][t] \notin {"none", "delete"} /\ row[t].status = "deleted"

CommitPlan(p) ==
  /\ ~RowVanished(p)
  /\ row' = [t \in Tasks |-> Written(row[t], plan[p][t])]
  /\ plan' = [plan EXCEPT ![p] = NoPlan]

Abandon(p) == plan' = [plan EXCEPT ![p] = NoPlan] /\ UNCHANGED row

(* The process is done; RQ drops a worker's job from the started registry. *)
JobReturns(p) ==
  /\ jobs' = IF hold[p] = NoJob THEN jobs ELSE [jobs EXCEPT ![hold[p]] = GoneJob]
  /\ hold' = [hold EXCEPT ![p] = NoJob]
  /\ scope' = [scope EXCEPT ![p] = {}]
  /\ Goto(p, "idle")

(* run_task, the API call or the maintenance goes on to dispatch, for the  *)
(* given owners.                                                           *)
ThenDispatch(p, owners) ==
  /\ Goto(p, "lock")
  /\ scope' = [scope EXCEPT ![p] = owners]

-----------------------------------------------------------------------------
(* The dispatcher: dispatch_queued_crawl_tasks. *)

(* Nothing is dispatched: the owner is paused, or the lock was not obtained *)
(* within its blocking timeout.                                             *)
DispatchSkipped(p) ==
  /\ pc[p] = "lock"
  /\ lock # NoProc \/ (scope[p] \subseteq paused /\ p # Runner)
  /\ JobReturns(p)
  /\ UNCHANGED <<row, lock, paused, plan, slots, todo, reruns, faults>>

(* crawl_dispatch_available_slots *)
FreeSlotsOfQueued(l) ==
  Limit[l] - Cardinality({t \in Tasks : LaneOf[t] = l /\ row[t].status \in {"queued", "running"}})
FreeSlotsNoReserved(l) == LET n == Cardinality(Running(l))
                          IN IF n >= Limit[l] THEN 0 ELSE Limit[l] - n
FreeSlots(l) == LET n == Cardinality(Running(l)) + Cardinality(Reserved(l))
                IN IF n >= Limit[l] THEN 0 ELSE Limit[l] - n

(* The lock is obtained and the counting queries of                         *)
(* reserve_queued_crawl_tasks read a snapshot.                              *)
CountSlots(p) ==
  /\ pc[p] = "lock"
  /\ lock = NoProc
  /\ p # Runner => ~(scope[p] \subseteq paused)
  /\ lock' = p
  /\ slots' = [slots EXCEPT ![p] = [l \in Lanes |->
                  IF OwnerOf[l] \in scope[p] \ paused THEN FreeSlots(l) ELSE 0]]
  /\ Goto(p, "reserve")
  /\ UNCHANGED <<row, jobs, paused, hold, plan, todo, scope, reruns, faults>>

(* S holds the n oldest elements of E, or all of them: ORDER BY created_at, *)
(* id LIMIT n.                                                              *)
Oldest(S, E, n) ==
  /\ S \subseteq E
  /\ Cardinality(S) <= n
  /\ S = E \/ Cardinality(S) = n
  /\ \A t \in S, u \in E \ S : t < u

(* A job id never handed out before: uuid4. *)
Fresh(j) ==
  /\ jobs[j].state = "none"
  /\ \A t \in Tasks : row[t].job # j
  /\ \A p \in Procs : hold[p] # j /\ \A e \in todo[p] : e[2] # j

(* The locking SELECT of the oldest waiting rows and the commit of their    *)
(* reservations, in every lane.                                             *)
ReserveTasks(p) ==
  /\ pc[p] = "reserve"
  /\ Turn(p)
  /\ \E S \in SUBSET {t \in Tasks : row[t].status = "queued" /\ row[t].job = NoJob} :
       /\ \A l \in Lanes : Oldest({t \in S : LaneOf[t] = l}, Waiting(l), slots[p][l])
       /\ \E id \in [S -> {j \in Jobs : Fresh(j)}] :
            /\ \A t, u \in S : id[t] = id[u] => t = u
            /\ row' = [t \in Tasks |->
                         IF t \in S THEN [row[t] EXCEPT !.job = id[t]] ELSE row[t]]
            /\ todo' = [todo EXCEPT ![p] = {<<t, id[t]>> : t \in S}]
  /\ slots' = [slots EXCEPT ![p] = NoSlots]
  /\ Goto(p, "enqueue")
  /\ UNCHANGED <<jobs, lock, paused, hold, plan, scope, reruns, faults>>

(* dispatch_crawl_task enqueues run_task under the reserved id. *)
EnqueueReserved(p) ==
  /\ pc[p] = "enqueue"
  /\ \E e \in todo[p] :
       /\ OwnerOfTask(e[1]) \notin paused
       /\ jobs' = [jobs EXCEPT ![e[2]] = [state |-> "queued", task |-> e[1]]]
       /\ todo' = [todo EXCEPT ![p] = @ \ {e}]
  /\ UNCHANGED <<row, lock, paused, pc, hold, plan, slots, scope, reruns, faults>>

(* enqueue raises: the owner was paused meanwhile, or Redis failed, with or *)
(* without having stored the job.  The reservation is taken back if the row *)
(* still holds it.                                                          *)
EnqueueFails(p) ==
  /\ pc[p] = "enqueue"
  /\ Turn(p)
  /\ \E e \in todo[p] :
       LET t == e[1] j == e[2] IN
       /\ \/ /\ OwnerOfTask(t) \in paused
             /\ UNCHANGED <<jobs, faults>>
          \/ /\ faults < MaxFaults
             /\ faults' = faults + 1
             /\ jobs' \in {jobs, [jobs EXCEPT ![j] = [state |-> "queued", task |-> t]]}
       /\ row' = IF row[t].status = "queued" /\ row[t].job = j
                 THEN [row EXCEPT ![t] = Written(row[t], "drop")] ELSE row
       /\ todo' = [todo EXCEPT ![p] = @ \ {e}]
  /\ UNCHANGED <<lock, paused, pc, hold, plan, slots, scope, reruns>>

(* The lock is released only by the holder of its token. *)
ReleaseLock(p) ==
  /\ pc[p] = "enqueue"
  /\ todo[p] = {}
  /\ lock' = IF lock = p THEN NoProc ELSE lock
  /\ JobReturns(p)
  /\ UNCHANGED <<row, paused, plan, slots, todo, reruns, faults>>

Dispatch(p) ==
  \/ DispatchSkipped(p) \/ CountSlots(p) \/ ReserveTasks(p) \/ EnqueueReserved(p)
  \/ EnqueueFails(p) \/ ReleaseLock(p)

-----------------------------------------------------------------------------
(* The worker: run_task. *)

TakeJob(w) ==
  /\ pc[w] = "idle"
  /\ \E j \in Jobs :
       /\ jobs[j].state = "queued"
       /\ jobs' = [jobs EXCEPT ![j].state = "started"]
       /\ hold' = [hold EXCEPT ![w] = j]
  /\ Goto(w, "begin")
  /\ UNCHANGED <<row, lock, paused, plan, slots, todo, scope, reruns, faults>>

(* finalize_stale_cancel_requested_tasks for one owner. *)
StaleCancelled(owner) ==
  {t \in Tasks : OwnerOfTask(t) = owner /\ row[t].status = "running"
                                        /\ row[t].stale /\ row[t].marked}

(* crawl_task_start_wait_reason: the lane is full, not counting this task. *)
(* The session does not flush by itself, so the runs finalised just before *)
(* still count.                                                            *)
MustWait(t) == Cardinality(Running(LaneOf[t]) \ {t}) >= Limit[LaneOf[t]]

BeginPlanIgnoringStatus(j, t) ==
  IF row[t].job # j THEN NoPlan
  ELSE [u \in Tasks |-> IF u # t THEN "none" ELSE IF MustWait(t) THEN "drop" ELSE "start"]

BeginPlan(j, t) ==
  IF row[t].job # j THEN NoPlan
  ELSE IF row[t].status # "queued" THEN [NoPlan EXCEPT ![t] = "drop"]
  ELSE IF row[t].marked THEN [NoPlan EXCEPT ![t] = "cancelDrop"]
  ELSE [u \in Tasks |-> IF u \in StaleCancelled(OwnerOfTask(t)) THEN "cancel"
                        ELSE IF u # t THEN "none"
                        ELSE IF MustWait(t) THEN "drop" ELSE "start"]

(* The first transaction of run_task reads the row ... *)
BeginTask(w) ==
  /\ pc[w] = "begin"
  /\ Turn(w)
  /\ row[TaskOf(w)].status # "deleted"
  /\ plan' = [plan EXCEPT ![w] = BeginPlan(hold[w], TaskOf(w))]
  /\ scope' = [scope EXCEPT ![w] = {OwnerOfTask(TaskOf(w))}]
  /\ Goto(w, "begun")
  /\ UNCHANGED <<row, jobs, lock, paused, hold, slots, todo, reruns, faults>>

BeginDeleted(w) ==
  /\ pc[w] = "begin"
  /\ Turn(w)
  /\ row[TaskOf(w)].status = "deleted"
  /\ JobReturns(w)
  /\ UNCHANGED <<row, lock, paused, plan, slots, todo, reruns, faults>>

(* ... and commits: the task runs, or the worker refills the queue. *)
CommitBegin(w) ==
  /\ pc[w] = "begun"
  /\ CommitPlan(w)
  /\ Goto(w, IF plan[w][TaskOf(w)] = "start" THEN "check" ELSE "lock")
  /\ UNCHANGED <<jobs, lock, paused, hold, slots, todo, scope, reruns, faults>>

CommitBeginFails(w) ==
  /\ pc[w] = "begun"
  /\ RowVanished(w)
  /\ Abandon(w)
  /\ jobs' = [jobs EXCEPT ![hold[w]].state = "failed"]
  /\ hold' = [hold EXCEPT ![w] = NoJob]
  /\ Goto(w, "idle")
  /\ scope' = [scope EXCEPT ![w] = {}]
  /\ UNCHANGED <<lock, paused, slots, todo, reruns, faults>>

(* raise_if_task_cancelled; a deleted row does not stop the run. *)
CheckCancel(w) ==
  /\ pc[w] = "check"
  /\ LET r == row[TaskOf(w)] IN
     Goto(w, IF r.status = "cancelled" \/ (r.status # "deleted" /\ r.marked)
             THEN "abort" ELSE "work")
  /\ UNCHANGED <<row, jobs, lock, paused, local, reruns, faults>>

(* update_task_progress reads the row.  error_detail is written only if the *)
(* errors changed, and then with the cancel marker if the row read had one. *)
(* Nothing is updated for a deleted row.                                    *)
ProgressWritesPlain(t) ==
  IF row[t].status = "deleted" THEN {"none"} ELSE {"progress", "progressPlain"}
ProgressWrites(t) ==
  IF row[t].status = "deleted" THEN {"none"}
  ELSE IF row[t].marked THEN {"progressMarked"} ELSE {"progress", "progressPlain"}

(* The plan is collected or an item saved, and the progress noted. *)
WorkItem(w) ==
  /\ pc[w] = "work"
  /\ Turn(w)
  /\ \E write \in ProgressWrites(TaskOf(w)) : plan' = [plan EXCEPT ![w][TaskOf(w)] = write]
  /\ Goto(w, "progress")
  /\ UNCHANGED <<row, jobs, lock, paused, hold, slots, todo, scope, reruns, faults>>

WorkRaises(w) ==
  /\ pc[w] = "work"
  /\ Goto(w, "fault")
  /\ UNCHANGED <<row, jobs, lock, paused, local, reruns, faults>>

(* Progress is committed; another item follows, or none is left. *)
CommitProgress(w, label) ==
  /\ pc[w] = "progress"
  /\ label \in {"check", "finish"}
  /\ CommitPlan(w)
  /\ Goto(w, label)
  /\ UNCHANGED <<jobs, lock, paused, hold, slots, todo, scope, reruns, faults>>

CommitProgressFails(w) ==
  /\ pc[w] = "progress"
  /\ RowVanished(w)
  /\ Abandon(w)
  /\ Goto(w, "fault")
  /\ UNCHANGED <<jobs, lock, paused, hold, slots, todo, scope, reruns, faults>>

(* The last transaction of run_task: the final status, whatever the row     *)
(* says now; then the refill.                                               *)
Finalise(w, statuses) ==
  /\ Turn(w)
  /\ LET t == TaskOf(w) IN
     \/ row[t].status = "deleted" /\ UNCHANGED row
     \/ /\ row[t].status # "deleted"
        /\ \E s \in statuses :
             row' = [row EXCEPT ![t] =
                       [@ EXCEPT !.status = s, !.marked = FALSE, !.stale = FALSE]]
  /\ Goto(w, "lock")
  /\ UNCHANGED <<jobs, lock, paused, local, reruns, faults>>

FinishTask(w) == pc[w] = "finish" /\ Finalise(w, {"success", "failed"})

AbortTask(w) == pc[w] = "abort" /\ Finalise(w, {"cancelled"})

(* The exception handler leaves a cancelled row alone. *)
FailTask(w) ==
  /\ pc[w] = "fault"
  /\ Finalise(w, IF row[TaskOf(w)].status = "cancelled" THEN {"cancelled"} ELSE {"failed"})

Worker(w) ==
  \/ TakeJob(w) \/ BeginTask(w) \/ BeginDeleted(w) \/ CommitBegin(w) \/ CommitBeginFails(w)
  \/ CheckCancel(w) \/ WorkItem(w) \/ WorkRaises(w)
  \/ (\E label \in {"check", "finish"} : CommitProgress(w, label))
  \/ CommitProgressFails(w) \/ FinishTask(w) \/ AbortTask(w) \/ FailTask(w)

-----------------------------------------------------------------------------
(* API calls. *)

(* create_task and recreate_crawl_task insert a row and dispatch. *)
CreateTask(a) ==
  /\ pc[a] = "idle"
  /\ \E t \in Tasks :
       /\ row[t].status = "new"
       /\ \A u \in 1..(t - 1) : row[u].status # "new"
       /\ OwnerOfTask(t) \notin paused
       /\ row' = [row EXCEPT ![t] = [NewRow EXCEPT !.status = "queued"]]
       /\ ThenDispatch(a, {OwnerOfTask(t)})
  /\ UNCHANGED <<jobs, lock, paused, hold, plan, slots, todo, reruns, faults>>

(* run_existing_task: only a finished task may be run again. *)
RerunnableAnyway(t) == row[t].status \in Live
Rerunnable(t) == row[t].status \in Terminal

RerunTask(a) ==
  /\ pc[a] = "idle"
  /\ Turn(a)
  /\ reruns < MaxReruns
  /\ reruns' = reruns + 1
  /\ \E t \in Tasks :
       /\ Rerunnable(t)
       /\ OwnerOfTask(t) \notin paused
       /\ plan' = [plan EXCEPT ![a][t] = "requeue"]
       /\ scope' = [scope EXCEPT ![a] = {OwnerOfTask(t)}]
  /\ Goto(a, "apply")
  /\ UNCHANGED <<row, jobs, lock, paused, hold, slots, todo, faults>>

(* request_task_cancel: a queued task is cancelled at once and keeps its    *)
(* reservation, a running one is marked.  Marking it again changes nothing. *)
CancelTask(a) ==
  /\ pc[a] = "idle"
  /\ Turn(a)
  /\ \E t \in Tasks :
       /\ row[t].status \in {"queued", "running"}
       /\ plan' = [plan EXCEPT ![a][t] =
                     IF row[t].status = "queued" THEN "cancel"
                     ELSE IF row[t].marked THEN "none" ELSE "mark"]
  /\ scope' = [scope EXCEPT ![a] = {}]
  /\ Goto(a, "apply")
  /\ UNCHANGED <<row, jobs, lock, paused, hold, slots, todo, reruns, faults>>

(* delete_tasks deletes rows of any status. *)
DeleteTask(a) ==
  /\ pc[a] = "idle"
  /\ Turn(a)
  /\ \E t \in Tasks :
       /\ row[t].status \in Live
       /\ plan' = [plan EXCEPT ![a][t] = "delete"]
  /\ scope' = [scope EXCEPT ![a] = {}]
  /\ Goto(a, "apply")
  /\ UNCHANGED <<row, jobs, lock, paused, hold, slots, todo, reruns, faults>>

CommitApi(a) ==
  /\ pc[a] = "apply"
  /\ CommitPlan(a)
  /\ Goto(a, IF scope[a] = {} THEN "idle" ELSE "lock")
  /\ UNCHANGED <<jobs, lock, paused, hold, slots, todo, scope, reruns, faults>>

CommitApiFails(a) ==
  /\ pc[a] = "apply"
  /\ RowVanished(a)
  /\ Abandon(a)
  /\ Goto(a, "idle")
  /\ scope' = [scope EXCEPT ![a] = {}]
  /\ UNCHANGED <<jobs, lock, paused, hold, slots, todo, reruns, faults>>

-----------------------------------------------------------------------------
(* The reconciler: reconcile_interrupted_running_tasks and                  *)
(* reconcile_missing_queued_tasks, run by the schedule runner; list_tasks   *)
(* of the API runs the first one only, after finalising stale cancels.      *)

InRedis(t, states) == \E j \in Jobs : jobs[j].task = t /\ jobs[j].state \in states

(* redis_task_states: an active job hides an older failed one. *)
RedisStateFailedFirst(t) ==
  IF InRedis(t, {"failed"}) THEN "failed"
  ELSE IF InRedis(t, {"queued", "started"}) THEN "active" ELSE "missing"
RedisState(t) ==
  IF InRedis(t, {"queued", "started"}) THEN "active"
  ELSE IF InRedis(t, {"failed"}) THEN "failed" ELSE "missing"

(* The running rows are read first.  list_tasks looks at those it has just  *)
(* finalised again, since nothing is flushed yet; of these, the ones in     *)
(* late are past the longer cut-off of a missing job, too.                  *)
ReadRunning(p) ==
  /\ pc[p] = "idle"
  /\ Turn(p)
  /\ \E late \in SUBSET Tasks :
       plan' = [plan EXCEPT ![p] = [t \in Tasks |->
         IF row[t].status # "running" THEN "none"
         ELSE IF p # Runner /\ row[t].stale /\ row[t].marked
              THEN IF t \in late THEN "probeMarkedStale" ELSE "probeMarked"
         ELSE IF row[t].stale THEN "probeStale" ELSE "probe"]]
  /\ scope' = [scope EXCEPT ![p] = IF p = Runner THEN Owners ELSE {}]
  /\ Goto(p, "probe")
  /\ UNCHANGED <<row, jobs, lock, paused, hold, slots, todo, reruns, faults>>

(* The verdict on a row read as running. *)
RunningVerdictOfRedis(t, read) ==
  IF read \in Probes
  THEN IF RedisState(t) = "failed" THEN "fail" ELSE "none" ELSE read
RunningVerdict(t, read) ==
  CASE read = "probe" -> IF RedisState(t) = "failed" THEN "fail" ELSE "none"
    [] read = "probeStale" -> IF RedisState(t) = "active" THEN "none" ELSE "fail"
    [] read = "probeMarked" -> IF RedisState(t) = "failed" THEN "fail" ELSE "cancel"
    [] read = "probeMarkedStale" -> IF RedisState(t) = "active" THEN "cancel" ELSE "fail"
    [] OTHER -> read

(* The verdict on a queued row that holds a reservation. *)
ReservationVerdictKeep(t) == "none"
ReservationVerdict(t) ==
  IF jobs[row[t].job].state \in {"queued", "started"} THEN "none"
  ELSE IF row[t].marked THEN "cancelDrop" ELSE "drop"

(* Redis is read; the schedule runner also reads the oldest reserved rows   *)
(* of those created before queued_task_missing_cutoff, tasks 1..ripe.  The  *)
(* cut-off is of created_at, not of the reservation: one that a dispatcher  *)
(* has not enqueued yet is taken for lost, a coincidence that costs a fault.*)
ProbeRedis(p, ripe) ==
  /\ pc[p] = "probe"
  /\ \E S \in SUBSET (1..ripe) :
       /\ IF p = Runner
          THEN Oldest(S, {t \in 1..ripe : row[t].status = "queued" /\ row[t].job # NoJob},
                      RequeueLimit)
          ELSE S = {}
       /\ plan' = [plan EXCEPT ![p] = [t \in Tasks |->
                     IF t \in S THEN ReservationVerdict(t)
                     ELSE RunningVerdict(t, plan[p][t])]]
       /\ IF \E t \in S : \E q \in Procs : <<t, row[t].job>> \in todo[q]
          THEN faults < MaxFaults /\ faults' = faults + 1
          ELSE UNCHANGED faults
  /\ Goto(p, "settle")
  /\ UNCHANGED <<row, jobs, lock, paused, hold, slots, todo, scope, reruns>>

CommitReconcile(p) ==
  /\ pc[p] = "settle"
  /\ CommitPlan(p)
  /\ Goto(p, IF p = Runner THEN "lock" ELSE "idle")
  /\ UNCHANGED <<jobs, lock, paused, hold, slots, todo, scope, reruns, faults>>

(* The exception ends this maintenance round before its dispatch. *)
CommitReconcileFails(p) ==
  /\ pc[p] = "settle"
  /\ RowVanished(p)
  /\ Abandon(p)
  /\ Goto(p, "idle")
  /\ scope' = [scope EXCEPT ![p] = {}]
  /\ UNCHANGED <<jobs, lock, paused, hold, slots, todo, reruns, faults>>

Reconcile(p) ==
  \/ ReadRunning(p)
  \/ \E ripe \in 0..MaxTasks : ProbeRedis(p, ripe)
  \/ CommitReconcile(p) \/ CommitReconcileFails(p)

(* cleanup_completed_scheduled_crawl_tasks: finished scheduled tasks past   *)
(* their retention are deleted, with their queued and failed jobs.          *)
CleanupScheduled ==
  /\ pc[Runner] = "idle"
  /\ Turn(Runner)
  /\ \E S \in SUBSET {t \in Tasks : row[t].status \in Terminal
                                    /\ LaneOf[t] \in ScheduledLanes} :
       /\ S # {}
       /\ row' = [t \in Tasks |-> IF t \in S THEN Written(row[t], "delete") ELSE row[t]]
       /\ jobs' = [j \in Jobs |-> IF jobs[j].task \in S /\ jobs[j].state \in {"queued", "failed"}
                                  THEN GoneJob ELSE jobs[j]]
  /\ UNCHANGED <<lock, paused, pc, local, reruns, faults>>

-----------------------------------------------------------------------------
(* Time, failures and the operator. *)

(* A process dies.  RQ keeps its job in the started registry for now. *)
Crash(p) ==
  /\ pc[p] # "idle"
  /\ faults < MaxFaults
  /\ faults' = faults + 1
  /\ Goto(p, "idle")
  /\ hold' = [hold EXCEPT ![p] = NoJob]
  /\ plan' = [plan EXCEPT ![p] = NoPlan]
  /\ slots' = [slots EXCEPT ![p] = NoSlots]
  /\ todo' = [todo EXCEPT ![p] = {}]
  /\ scope' = [scope EXCEPT ![p] = {}]
  /\ UNCHANGED <<row, jobs, lock, paused, reruns>>

(* RQ moves the job of a dead worker to the failed registry ... *)
JobFails(j) ==
  /\ jobs[j].state = "started"
  /\ \A w \in Workers : hold[w] # j
  /\ jobs' = [jobs EXCEPT ![j].state = "failed"]
  /\ UNCHANGED <<row, lock, paused, pc, local, reruns, faults>>

(* ... and forgets it after failure_ttl. *)
FailedJobExpires(j) ==
  /\ jobs[j].state = "failed"
  /\ jobs' = [jobs EXCEPT ![j] = GoneJob]
  /\ UNCHANGED <<row, lock, paused, pc, local, reruns, faults>>

(* Redis loses a queued job, as in a restart without persistence. *)
LoseJob(j) ==
  /\ jobs[j].state = "queued"
  /\ faults < MaxFaults
  /\ faults' = faults + 1
  /\ jobs' = [jobs EXCEPT ![j] = GoneJob]
  /\ UNCHANGED <<row, lock, paused, pc, local, reruns>>

(* The lock's timeout passes: its holder is gone, or slower than the timeout. *)
LockExpires ==
  /\ lock # NoProc
  /\ LockMayExpire \/ pc[lock] \notin LockPC
  /\ lock' = NoProc
  /\ UNCHANGED <<row, jobs, paused, pc, local, reruns, faults>>

(* updated_at of a running row falls behind the cut-offs. *)
RowGoesStale(t) ==
  /\ row[t].status = "running"
  /\ ~row[t].stale
  /\ SlowRuns \/ ~LiveRun(t)
  /\ row' = [row EXCEPT ![t].stale = TRUE]
  /\ UNCHANGED <<jobs, lock, paused, pc, local, reruns, faults>>

(* The paused flag of the system task control. *)
PauseOwner(o) ==
  /\ o \notin paused
  /\ faults < MaxFaults
  /\ faults' = faults + 1
  /\ paused' = paused \cup {o}
  /\ UNCHANGED <<row, jobs, lock, pc, local, reruns>>

ResumeOwner(o) ==
  /\ o \in paused
  /\ paused' = paused \ {o}
  /\ UNCHANGED <<row, jobs, lock, pc, local, reruns, faults>>

-----------------------------------------------------------------------------
Init ==
  /\ row = [t \in Tasks |-> NewRow]
  /\ jobs = [j \in Jobs |-> GoneJob]
  /\ lock = NoProc
  /\ paused = {}
  /\ pc = [p \in Procs |-> "idle"]
  /\ hold = [p \in Procs |-> NoJob]
  /\ plan = [p \in Procs |-> NoPlan]
  /\ slots = [p \in Procs |-> NoSlots]
  /\ todo = [p \in Procs |-> {}]
  /\ scope = [p \in Procs |-> {}]
  /\ reruns = 0
  /\ faults = 0

Request(a) ==
  \/ CreateTask(a) \/ RerunTask(a) \/ CancelTask(a) \/ DeleteTask(a)
  \/ CommitApi(a) \/ CommitApiFails(a)

Environment ==
  \/ \E p \in Procs : Crash(p)
  \/ \E j \in Jobs : JobFails(j) \/ FailedJobExpires(j) \/ LoseJob(j)
  \/ LockExpires
  \/ \E t \in Tasks : RowGoesStale(t)
  \/ \E o \in Owners : PauseOwner(o) \/ ResumeOwner(o)

Next ==
  \/ \E p \in Procs : Dispatch(p)
  \/ \E w \in Workers : Worker(w)
  \/ \E a \in Api : Request(a)
  \/ \E p \in Api \cup {Runner} : Reconcile(p)
  \/ CleanupScheduled
  \/ Environment

Spec == Init /\ [][Next]_vars

(* Fairness.  Workers, API threads and the schedule runner keep running     *)
(* (the supervisor restarts a dead one), and the database lets a waiting    *)
(* transaction through however many others start: strong where a step waits *)
(* for its turn.  The loop over the finite item plan comes to its end,      *)
(* Redis and RQ act on their timeouts, time passes, and the operator        *)
(* resumes a paused owner.  Users and faults owe nothing.                   *)
Fairness ==
  /\ \A p \in Procs : SF_vars(Dispatch(p))
  /\ \A w \in Workers : SF_vars(Worker(w)) /\ SF_vars(CommitProgress(w, "finish"))
  /\ \A a \in Api : WF_vars(CommitApi(a) \/ CommitApiFails(a))
                    /\ WF_vars(Reconcile(a) /\ pc[a] # "idle")
  /\ SF_vars(Reconcile(Runner))
  /\ \A j \in Jobs : WF_vars(JobFails(j)) /\ WF_vars(FailedJobExpires(j))
  /\ WF_vars(LockExpires)
  /\ \A t \in Tasks : WF_vars(RowGoesStale(t))
  /\ SF_vars(ProbeRedis(Runner, MaxTasks))
  /\ \A o \in Owners : WF_vars(ResumeOwner(o))

FairSpec == Spec /\ Fairness

-----------------------------------------------------------------------------
(* Properties. *)

(* Every variable holds values of its kind; a process with a job or a plan  *)
(* is at a step that uses it.                                               *)
TypeOK ==
  /\ row \in [Tasks -> Row]
  /\ jobs \in [Jobs -> Job]
  /\ lock \in Procs \cup {NoProc}
  /\ paused \subseteq Owners
  /\ pc \in [Procs -> PCs]
  /\ hold \in [Procs -> Jobs \cup {NoJob}]
  /\ plan \in [Procs -> [Tasks -> Writes]]
  /\ slots \in [Procs -> [Lanes -> Nat]]
  /\ todo \in [Procs -> SUBSET (Tasks \X Jobs)]
  /\ scope \in [Procs -> SUBSET Owners]
  /\ reruns \in 0..MaxReruns
  /\ faults \in 0..MaxFaults

(* reserve_queued_crawl_tasks: the running and the reserved tasks of a lane *)
(* together never exceed its concurrency limit, although they are counted   *)
(* in a snapshot that workers, users and the reconciler make stale.         *)
CapacityRespected ==
  \A l \in Lanes : Cardinality(Running(l) \cup Reserved(l)) <= Limit[l]

(* crawl_task_start_wait_reason: even when the dispatch lock has timed out  *)
(* under its holder and too many tasks were reserved, or a slow run was     *)
(* given up, no more tasks run than the lane's limit.                       *)
RunningWithinLimit ==
  \A l \in Lanes : Cardinality(Running(l)) <= Limit[l]

(* run_task: two workers never execute the same task, through re-runs,      *)
(* crashes, re-issued reservations and stale jobs.                          *)
ExclusiveRun ==
  \A v, w \in Workers : \A t \in Tasks : Runs(v, t) /\ Runs(w, t) => v = w

(* request_task_cancel: a cancelled task stays cancelled until its owner    *)
(* runs it again or deletes it, whatever job, worker or reconciler still    *)
(* refers to it.                                                            *)
CancelSticks ==
  [][\A t \in Tasks :
       row[t].status = "cancelled" /\ row'[t].status # "cancelled" =>
         \/ row'[t].status = "deleted"
         \/ \E a \in Api : plan[a][t] = "requeue"]_vars

(* reconcile_interrupted_running_tasks: a task that a worker is executing   *)
(* is never given up as interrupted; its status changes only by that worker *)
(* or by a deletion.                                                        *)
LiveRunKeepsItsRow ==
  [][\A t \in Tasks : \A w \in Workers :
       Runs(w, t) /\ row'[t].status # row[t].status =>
         pc'[w] # pc[w] \/ row'[t].status = "deleted"]_vars

(* The cancel marker of a running task is not lost: once set, it stays      *)
(* until the run ends.                                                      *)
MarkerKept ==
  [][\A t \in Tasks : row[t].marked => row'[t].marked \/ row'[t].status # "running"]_vars

(* A queued task is eventually started, cancelled or deleted, through lost  *)
(* jobs, dead dispatchers and failed enqueues.                              *)
QueuedIsServed ==
  \A t \in Tasks : row[t].status = "queued" ~> row[t].status # "queued"

(* A running task eventually ends, by its worker or by the reconciler.      *)
RunningEnds ==
  \A t \in Tasks : row[t].status = "running" ~> row[t].status # "running"
=============================================================================
