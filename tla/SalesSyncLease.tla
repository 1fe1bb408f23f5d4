--------------------------- MODULE SalesSyncLease ---------------------------
(***************************************************************************)
(* The synchronisation of one store's orders: the lease that               *)
(* sync_owned_store keeps in the store's row of lt_sales_sync_states, its  *)
(* heartbeat thread, the run rows of lt_sales_order_sync_runs, the queue   *)
(* call and the due schedule that start runs, and the recovery of runs     *)
(* whose process is gone.                                                  *)
(*                                                                         *)
(* A run has one RQ job and a job one lease token, so the run stands for   *)
(* all three.  Ages count the ticks since updated_at, as far as they       *)
(* matter; a tick is the interval of the heartbeat.                        *)
(***************************************************************************)
EXTENDS Naturals, FiniteSets

CONSTANTS
  Runs, NoRun,
  Timeout,      (* SALES_SYNC_LEASE_TIMEOUT, in ticks                       *)
  MaxVersion,   (* bound: versions of the orders held by Rakuten            *)
  MaxFaults,    (* bound: crashes, lost jobs, failed enqueues, stops        *)
  Slow,         (* TRUE: processes and Redis may be arbitrarily slow        *)
  Serial        (* TRUE: read-then-write transactions do not overlap others *)

ASSUME ConstantsAssumption ==
  /\ NoRun \notin Runs
  /\ Timeout \in Nat \ {0}
  /\ MaxVersion \in Nat \ {0}
  /\ MaxFaults \in Nat
  /\ Slow \in BOOLEAN /\ Serial \in BOOLEAN

VARIABLES
  state,      \* the store's sync state: status, the run whose lease it names, age
  run,        \* the run rows
  pc,         \* what each process is about to do
  beat,       \* the heartbeat thread of each job
  beaten,     \* the jobs whose thread has pulsed since the last tick
  seen,       \* the version of the orders a job has read
  remote, stored,
  committed,  \* history: the runs whose orders were stored, of those with a row
  stopping,   \* the open transaction of stop_all_tasks
  faults

vars == <<state, run, pc, beat, beaten, seen, remote, stored, committed, stopping,
          faults>>
orders == <<seen, remote, stored, committed>>

(* A run is started by a call of queue_sales_order_sync, executed by a job. *)
Procs == {"call", "job"} \X Runs
Call(r) == <<"call", r>>
Job(r) == <<"job", r>>

Ages == 0..(Timeout + 1)
StateRow == [status : {"idle", "queued", "running", "error"}, holder : Runs \cup {NoRun},
             age : Ages]
RunStatus == {"gone", "queued", "running", "success", "failed", "cancelled"}
RunRow == [status : RunStatus, age : Ages]
ActiveRun == {"queued", "running"}
EndedRun == {"success", "failed", "cancelled"}

NoStop == [runs |-> {}, reset |-> FALSE]
Fresh(status, holder) == [status |-> status, holder |-> holder, age |-> 0]

Goto(p, label) == pc' = [pc EXCEPT ![p] = label]

(* The WHERE clause sync_status == lease_status of the holder's statements. *)
Held(r) == state.status = "running" /\ state.holder = r

(* The steps at which a job relies on the lease it took.                    *)
Working == {"mark", "start", "search", "get", "pulse", "open", "reconcile", "finish"}

-----------------------------------------------------------------------------
(* Starting a run: queue_sales_order_sync, called by a user at any time, by *)
(* retry_run, and by run_due_sales_order_syncs_once for stores that are due.*)

(* _sales_order_sync_status_is_active *)
ActiveForever == state.status \in {"queued", "running"}
ActiveIfQueued ==
  \/ state.status = "queued"
  \/ state.status = "running" /\ state.age <= Timeout
Active == state.status \in {"queued", "running"} /\ state.age <= Timeout

(* The number of a run nothing refers to any more stands for a new one.     *)
Unused(r) ==
  /\ pc[Call(r)] = "idle" /\ pc[Job(r)] = "idle"
  /\ run[r].status \notin ActiveRun
  /\ ~Held(r)
  /\ r \notin stopping.runs

(* The state row is locked from the decision to the commit.                 *)
QueueSync(r) ==
  /\ Unused(r)
  /\ ~Active
  /\ state' = Fresh("queued", NoRun)
  /\ run' = [run EXCEPT ![r] = [status |-> "queued", age |-> 0]]
  /\ seen' = [seen EXCEPT ![r] = 0]
  /\ committed' = committed \ {r}
  /\ Goto(Call(r), "dispatch")
  /\ UNCHANGED <<beat, beaten, remote, stored, stopping, faults>>

Enqueue(r) ==
  /\ pc[Call(r)] = "dispatch"
  /\ pc' = [pc EXCEPT ![Call(r)] = "idle", ![Job(r)] = "waiting"]
  /\ UNCHANGED <<state, run, beat, beaten, orders, stopping, faults>>

(* The enqueueing fails; a slow Redis may have stored the job.              *)
EnqueueFails(r) ==
  /\ pc[Call(r)] = "dispatch"
  /\ faults < MaxFaults
  /\ faults' = faults + 1
  /\ \E label \in (IF Slow THEN {"idle", "waiting"} ELSE {"idle"}) :
       pc' = [pc EXCEPT ![Call(r)] = "repair", ![Job(r)] = label]
  /\ UNCHANGED <<state, run, beat, beaten, orders, stopping>>

-----------------------------------------------------------------------------
(* The exception handlers of queue_sales_order_sync and of                  *)
(* run_sales_order_sync_task: a queued state becomes an error, whichever    *)
(* run queued it, then the run fails.                                       *)

Repair(p) ==
  /\ pc[p] = "repair"
  /\ Goto(p, IF state.status = "queued" THEN "settle" ELSE "lastFail")
  /\ UNCHANGED <<state, run, beat, beaten, orders, stopping, faults>>

(* The row read as queued is written by its key, whatever it holds by now.  *)
Settle(p) ==
  /\ pc[p] = "settle"
  /\ state' = Fresh("error", NoRun)
  /\ Goto(p, "lastFail")
  /\ UNCHANGED <<run, beat, beaten, orders, stopping, faults>>

(* fail_run *)
FailRunUnguarded(r) == run' = [run EXCEPT ![r] = [status |-> "failed", age |-> 0]]
FailRun(r) ==
  run' = IF run[r].status \in ActiveRun
         THEN [run EXCEPT ![r] = [status |-> "failed", age |-> 0]] ELSE run

LastFail(p) ==
  /\ pc[p] = "lastFail"
  /\ FailRun(p[2])
  /\ Goto(p, "idle")
  /\ UNCHANGED <<state, beat, beaten, orders, stopping, faults>>

Handler(p) == Repair(p) \/ Settle(p) \/ LastFail(p)

-----------------------------------------------------------------------------
(* sync_owned_store, up to the acquired lease. *)

TakeJob(r) ==
  /\ pc[Job(r)] = "waiting"
  /\ Goto(Job(r), "acquire")
  /\ UNCHANGED <<state, run, beat, beaten, orders, stopping, faults>>

(* The store is gone, or has lost its credentials.                          *)
StoreMissing(r) ==
  /\ pc[Job(r)] = "acquire"
  /\ Goto(Job(r), "repair")
  /\ UNCHANGED <<state, run, beat, beaten, orders, stopping, faults>>

(* _lease_acquisition_statement: one conditional UPDATE.  Its "now" was     *)
(* taken before two transactions were opened, so a slow caller may start    *)
(* with an old lease, or find that a stale one does not look stale yet.     *)
LeaseFree == state.status # "running" \/ state.age > Timeout

Acquire(r) ==
  /\ pc[Job(r)] = "acquire"
  /\ LeaseFree
  /\ \E late \in (IF Slow THEN Ages ELSE {0}) :
       state' = [status |-> "running", holder |-> r, age |-> late]
  /\ Goto(Job(r), "mark")
  /\ UNCHANGED <<run, beat, beaten, orders, stopping, faults>>

Refuse(r) ==
  /\ pc[Job(r)] = "acquire"
  /\ state.status = "running" /\ (Slow \/ state.age <= Timeout)
  /\ Goto(Job(r), "refused")
  /\ UNCHANGED <<state, run, beat, beaten, orders, stopping, faults>>

(* already_running: the run fails, the call returns.                        *)
Refused(r) ==
  /\ pc[Job(r)] = "refused"
  /\ FailRun(r)
  /\ Goto(Job(r), "idle")
  /\ UNCHANGED <<state, beat, beaten, orders, stopping, faults>>

-----------------------------------------------------------------------------
(* sync_owned_store under the lease.  An exception stops the heartbeat.     *)

Abort(r) ==
  /\ Goto(Job(r), "fail")
  /\ beat' = [beat EXCEPT ![r] = "off"]
  /\ UNCHANGED <<state, run, beaten, orders, stopping, faults>>

(* mark_run_running: the run may have failed while its job was waiting.     *)
MarkRunning(r) ==
  /\ pc[Job(r)] = "mark"
  /\ run[r].status = "queued"
  /\ run' = [run EXCEPT ![r] = [status |-> "running", age |-> 0]]
  /\ Goto(Job(r), "start")
  /\ UNCHANGED <<state, beat, beaten, orders, stopping, faults>>

MarkFails(r) == pc[Job(r)] = "mark" /\ run[r].status # "queued" /\ Abort(r)

(* _heartbeat_lease_in_new_transaction renews the lease and the running run *)
(* in one transaction, or raises when the lease is lost.                    *)
RenewedRunForgotten(r) == run
RenewedRun(r) == IF run[r].status = "running" THEN [run EXCEPT ![r].age = 0] ELSE run
RenewedStateForgotten == state
RenewedState == [state EXCEPT !.age = 0]

Renew(r) ==
  /\ Held(r)
  /\ state' = RenewedState
  /\ run' = RenewedRun(r)
  /\ beaten' = IF Slow THEN {} ELSE beaten \cup {r}

(* A pulse of the main thread: the first of start(), and those after the    *)
(* search and after the details.                                            *)
PulseThen(r, from, to) ==
  /\ pc[Job(r)] = from
  /\ beat[r] # "failed"
  /\ Renew(r)
  /\ Goto(Job(r), to)
  /\ UNCHANGED <<orders, stopping, faults>>

PulseRaises(r) ==
  /\ pc[Job(r)] \in {"start", "search", "pulse"}
  /\ beat[r] = "failed" \/ ~Held(r)
  /\ Abort(r)

Start(r) == PulseThen(r, "start", "search") /\ beat' = [beat EXCEPT ![r] = "on"]
Search(r) == PulseThen(r, "search", "get") /\ UNCHANGED beat
Pulse(r) == PulseThen(r, "pulse", "open") /\ UNCHANGED beat

GetOrders(r) ==
  /\ pc[Job(r)] = "get"
  /\ seen' = [seen EXCEPT ![r] = remote]
  /\ Goto(Job(r), "pulse")
  /\ UNCHANGED <<state, run, beat, beaten, remote, stored, committed, stopping,
                 faults>>

(* Rakuten or the database raises, or the details are incomplete.           *)
WorkRaises(r) ==
  /\ pc[Job(r)] \in {"search", "get", "pulse", "open", "reconcile", "finish"}
  /\ Abort(r)

(* The transaction that writes the orders starts by checking the lease.     *)
Open(r) ==
  /\ pc[Job(r)] = "open"
  /\ Held(r)
  /\ Goto(Job(r), "reconcile")
  /\ UNCHANGED <<state, run, beat, beaten, orders, stopping, faults>>

OpenFails(r) == pc[Job(r)] = "open" /\ ~Held(r) /\ Abort(r)

(* All orders are reconciled, the heartbeat has not failed and is stopped.  *)
Reconcile(r) ==
  /\ pc[Job(r)] = "reconcile"
  /\ beat[r] # "failed"
  /\ beat' = [beat EXCEPT ![r] = "off"]
  /\ Goto(Job(r), "finish")
  /\ UNCHANGED <<state, run, beaten, orders, stopping, faults>>

ReconcileFails(r) == pc[Job(r)] = "reconcile" /\ beat[r] = "failed" /\ Abort(r)

(* The conditional UPDATE to idle and the commit of orders, state and run.  *)
Commit(r) ==
  /\ state' = Fresh("idle", NoRun)
  /\ run' = IF run[r].status \in ActiveRun
            THEN [run EXCEPT ![r] = [status |-> "success", age |-> 0]] ELSE run
  /\ stored' = seen[r]
  /\ committed' = committed \cup {r}
  /\ seen' = [seen EXCEPT ![r] = 0]
  /\ Goto(Job(r), "idle")
  /\ UNCHANGED <<beat, beaten, remote, stopping, faults>>

FinishUnfenced(r) == pc[Job(r)] = "finish" /\ Commit(r)
Finish(r) == pc[Job(r)] = "finish" /\ Held(r) /\ Commit(r)
FinishFails(r) == pc[Job(r)] = "finish" /\ ~Held(r) /\ Abort(r)

(* The handler of sync_owned_store: an own lease becomes an error ...       *)
Fail(r) ==
  /\ pc[Job(r)] = "fail"
  /\ state' = IF Held(r) THEN Fresh("error", NoRun) ELSE state
  /\ Goto(Job(r), "failRun")
  /\ seen' = [seen EXCEPT ![r] = 0]
  /\ UNCHANGED <<run, beat, beaten, remote, stored, committed, stopping, faults>>

(* ... the run fails, and the exception is raised again.                    *)
FailOwnRun(r) ==
  /\ pc[Job(r)] = "failRun"
  /\ FailRun(r)
  /\ Goto(Job(r), "repair")
  /\ UNCHANGED <<state, beat, beaten, orders, stopping, faults>>

SyncStep(r) ==
  \/ TakeJob(r) \/ Acquire(r) \/ Refuse(r) \/ Refused(r)
  \/ MarkRunning(r) \/ MarkFails(r) \/ Start(r) \/ Search(r) \/ GetOrders(r) \/ Pulse(r)
  \/ PulseRaises(r) \/ Open(r) \/ OpenFails(r) \/ Reconcile(r) \/ ReconcileFails(r)
  \/ Finish(r) \/ FinishFails(r) \/ Fail(r) \/ FailOwnRun(r)

-----------------------------------------------------------------------------
(* _PeriodicLeaseHeartbeat: the thread renews until it fails once.          *)

Beat(r) ==
  /\ beat[r] = "on"
  /\ Renew(r)
  /\ UNCHANGED <<pc, beat, orders, stopping, faults>>

BeatFails(r) ==
  /\ beat[r] = "on"
  /\ \/ ~Held(r) /\ UNCHANGED faults
     \/ faults < MaxFaults /\ faults' = faults + 1
  /\ beat' = [beat EXCEPT ![r] = "failed"]
  /\ UNCHANGED <<state, run, pc, beaten, orders, stopping>>

-----------------------------------------------------------------------------
(* The run history. *)

(* recover_stale_runs, at the start of every round of the due schedule.     *)
StaleRunning == {r \in Runs : run[r].status = "running" /\ run[r].age > Timeout}
StaleRuns == {r \in Runs : run[r].status \in ActiveRun /\ run[r].age > Timeout}

RecoverStale ==
  /\ StaleRuns # {}
  /\ run' = [r \in Runs |-> IF r \in StaleRuns THEN [status |-> "failed", age |-> 0]
                            ELSE run[r]]
  /\ UNCHANGED <<state, pc, beat, beaten, orders, stopping, faults>>

(* delete_runs, and cleanup_successful_runs_if_due after the retention.     *)
DeleteRun(r) ==
  /\ run[r].status \in EndedRun
  /\ run' = [run EXCEPT ![r] = [status |-> "gone", age |-> 0]]
  /\ committed' = committed \ {r}
  /\ UNCHANGED <<state, pc, beat, beaten, seen, remote, stored, stopping, faults>>

(* _cancel_sales_order_runs of stop_all_tasks reads the active runs ...     *)
ReadStop ==
  /\ stopping.runs = {}
  /\ faults < MaxFaults
  /\ faults' = faults + 1
  /\ \E r \in Runs : run[r].status \in ActiveRun
  /\ stopping' = [runs |-> {r \in Runs : run[r].status \in ActiveRun},
                  reset |-> state.status # "idle"]
  /\ UNCHANGED <<state, run, pc, beat, beaten, orders>>

(* ... and cancels them with the store's lease; it fails if a row is gone.  *)
CommitStop ==
  /\ stopping.runs # {}
  /\ IF \E r \in stopping.runs : run[r].status = "gone"
     THEN UNCHANGED <<state, run>>
     ELSE /\ run' = [r \in Runs |-> IF r \in stopping.runs
                                    THEN [status |-> "cancelled", age |-> 0] ELSE run[r]]
          /\ state' = IF stopping.reset THEN Fresh("idle", NoRun) ELSE state
  /\ stopping' = NoStop
  /\ UNCHANGED <<pc, beat, beaten, orders, faults>>

-----------------------------------------------------------------------------
(* The environment. *)

RemoteChanges ==
  /\ remote < MaxVersion
  /\ remote' = remote + 1
  /\ UNCHANGED <<state, run, pc, beat, beaten, seen, stored, committed, stopping,
                 faults>>

(* A process dies or is stopped, a waiting job is lost or removed.          *)
Crash(p) ==
  /\ pc[p] # "idle"
  /\ faults < MaxFaults
  /\ faults' = faults + 1
  /\ Goto(p, "idle")
  /\ beat' = IF p[1] = "job" THEN [beat EXCEPT ![p[2]] = "off"] ELSE beat
  /\ UNCHANGED <<state, run, beaten, orders, stopping>>

(* Time.  Unless processes are Slow, a tick finds every job waiting for a   *)
(* worker or for Rakuten, with the heartbeat of the interval done.          *)
Patient == {"idle", "waiting", "search", "get", "reconcile"}
InTime ==
  /\ \A r \in Runs : pc[Job(r)] \in Patient
  /\ \A r \in Runs : beat[r] = "on" => r \in beaten

OlderUncapped(age) == age + 1
Older(age) == IF age > Timeout THEN age ELSE age + 1

Tick ==
  /\ Slow \/ InTime
  /\ state' = IF state.status \in {"queued", "running"}
              THEN [state EXCEPT !.age = Older(@)] ELSE state
  /\ run' = [r \in Runs |-> IF run[r].status \in ActiveRun
                            THEN [run[r] EXCEPT !.age = Older(@)] ELSE run[r]]
  /\ beaten' = {}
  /\ UNCHANGED <<pc, beat, orders, stopping, faults>>

-----------------------------------------------------------------------------
Init ==
  /\ state = Fresh("idle", NoRun)
  /\ run = [r \in Runs |-> [status |-> "gone", age |-> 0]]
  /\ pc = [p \in Procs |-> "idle"]
  /\ beat = [r \in Runs |-> "off"]
  /\ beaten = {}
  /\ seen = [r \in Runs |-> 0]
  /\ remote = 1
  /\ stored = 0
  /\ committed = {}
  /\ stopping = NoStop
  /\ faults = 0

(* The transactions that write a row they read without a lock.              *)
OpenTransaction == stopping.runs # {} \/ \E p \in Procs : pc[p] = "settle"

Step ==
  \/ \E r \in Runs :
       \/ QueueSync(r) \/ Enqueue(r) \/ EnqueueFails(r)
       \/ StoreMissing(r) \/ SyncStep(r) \/ WorkRaises(r)
       \/ Beat(r) \/ BeatFails(r) \/ DeleteRun(r)
  \/ \E p \in Procs : Repair(p) \/ LastFail(p)
  \/ RecoverStale \/ ReadStop \/ RemoteChanges \/ Tick

Next ==
  \/ (Serial => ~OpenTransaction) /\ Step
  \/ CommitStop
  \/ \E p \in Procs : Settle(p) \/ Crash(p)

Spec == Init /\ [][Next]_vars

(* Fairness.  A worker takes every waiting job and executes it, callers and *)
(* handlers go on, time passes.  The schedule runner makes its rounds and   *)
(* queues a store whose last success or error is old enough, so one that is *)
(* never active does not stay so for ever.                                  *)
Fairness ==
  /\ \A r \in Runs : /\ WF_vars(Enqueue(r) \/ Handler(Call(r)))
                     /\ WF_vars(SyncStep(r) \/ Handler(Job(r)))
                     /\ WF_vars(Beat(r))
  /\ WF_vars(\E r \in Runs : QueueSync(r))
  /\ WF_vars(RecoverStale) /\ WF_vars(CommitStop) /\ SF_vars(Tick)

FairSpec == Spec /\ Fairness

-----------------------------------------------------------------------------
(* Properties. *)

PCs == {"idle", "dispatch", "repair", "settle", "lastFail", "waiting", "acquire", "refused",
        "fail", "failRun"} \cup Working

(* Every variable holds values of its kind.                                 *)
TypeOK ==
  /\ state \in StateRow
  /\ run \in [Runs -> RunRow]
  /\ pc \in [Procs -> PCs]
  /\ beat \in [Runs -> {"off", "on", "failed"}]
  /\ beaten \subseteq Runs
  /\ seen \in [Runs -> 0..MaxVersion]
  /\ remote \in 1..MaxVersion
  /\ stored \in 0..MaxVersion
  /\ committed \subseteq Runs
  /\ stopping \in [runs : SUBSET Runs, reset : BOOLEAN]
  /\ faults \in 0..MaxFaults

(* sync_owned_store: whatever is slow, lost or taken over, the syncs of a   *)
(* store act one at a time on its orders (see StoreOrders): an owner that   *)
(* has lost its lease stores nothing of what it read.                       *)
Serially == INSTANCE StoreOrders WITH
  active <- IF state.status = "running" THEN state.holder ELSE NoRun,
  read <- IF state.status = "running" THEN seen[state.holder] ELSE 0
ActsSerially == Serially!Spec

(* The stored orders are never replaced by an older version.                *)
OrdersNeverOlder == [][stored' >= stored]_vars

(* _PeriodicLeaseHeartbeat: while the heartbeats of a live owner come in    *)
(* time, its lease is not taken by another run, a queue call or a handler;  *)
(* only a stop of the system ends it.                                       *)
LiveLeaseKept ==
  [][\A r \in Runs :
       Held(r) /\ pc[Job(r)] \in Working /\ beat[r] # "failed" /\ ~Held(r)' =>
         pc'[Job(r)] # pc[Job(r)] \/ stopping.runs # {}]_vars

(* complete_run_in_session: the orders of a run are stored exactly if the   *)
(* run ends successfully, whoever else fails, recovers or cancels runs.     *)
OutcomeAgrees ==
  \A r \in Runs : run[r].status # "gone" => (r \in committed <=> run[r].status = "success")

(* fail_run, mark_run_running, complete_run_in_session, recover_stale_runs:  *)
(* a run that has succeeded does not fail, one that has failed does not     *)
(* succeed, and neither is taken up again, however late its job, the call   *)
(* that queued it, their handlers and the recovery come.  The row can only  *)
(* be deleted, and its number then stands for a new run.  Not meant are two *)
(* things about "cancelled": a stop may write it over an outcome recorded   *)
(* since it read the run, and a resumption gives a cancelled run back under *)
(* its number (_prepare_snapshot_for_resume, see TaskControl).              *)
RunEndsOnce ==
  [][\A r \in Runs :
       run[r].status \in {"success", "failed"} /\ run'[r].status # run[r].status =>
         run'[r].status \in {"gone", "cancelled"} \/ pc'[Call(r)] = "dispatch"]_vars

(* A lease is given up or taken over in the end, also when its owner died.  *)
LeaseEnds == \A r \in Runs : Held(r) ~> ~Held(r)

(* A run does not stay queued or running for ever, whatever became of its   *)
(* job or process.                                                          *)
ActiveRunEnds == \A r \in Runs : run[r].status \in ActiveRun ~> run[r].status \notin ActiveRun

(* A store does not stay queued for ever: it is synchronised, or fails.     *)
QueuedStarts == state.status = "queued" ~> state.status # "queued"
=============================================================================
