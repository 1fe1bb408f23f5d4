---------------------------- MODULE TaskControl ----------------------------
(***************************************************************************)
(* The stop of all tasks before a deployment and their resumption          *)
(* (app/services/task_control_service.py): the control row with its        *)
(* snapshot, the rows of the tasks, the RQ jobs that carry them, the       *)
(* workers, and a dispatcher that may be under way when the stop begins.   *)
(*                                                                         *)
(* The super administrator's call is one process; each of its transactions *)
(* and each of its passes over Redis is one action.  The dispatchers, the  *)
(* queues and what a task does are reduced to what the stop can meet; see  *)
(* CrawlQueue, ListingTasks and SyncTasks for them.                        *)
(***************************************************************************)
EXTENDS Naturals, FiniteSets

CONSTANTS
  TaskIds, Users,
  OwnerOf,       (* owner of each task                                      *)
  Crawls,        (* crawl tasks: they stay queued when an enqueue fails     *)
  Sales,         (* order sync runs: dispatched by the resumption itself    *)
  Workers,       (* RQ work-horses                                          *)
  None,
  StableChecks,  (* TASK_STOP_STABLE_CHECKS                                 *)
  LateChecks,    (* TRUE: a stop may begin between a dispatcher's choice of *)
                 (* a task and the pause check of enqueue_task              *)
  MaxRetries,    (* bound: retries of ended tasks                           *)
  MaxFaults      (* bound: crashes of the call, exceptions, Redis errors    *)

ASSUME ConstantsAssumption ==
  /\ OwnerOf \in [TaskIds -> Users]
  /\ Crawls \subseteq TaskIds /\ Sales \subseteq TaskIds \ Crawls
  /\ None \notin TaskIds
  /\ StableChecks \in Nat \ {0}
  /\ LateChecks \in BOOLEAN
  /\ MaxRetries \in Nat /\ MaxFaults \in Nat

VARIABLES
  ctl,      \* the row of SystemTaskControlModel
  row,      \* status of each task
  owed,     \* tasks a stop has cancelled and nothing has given back since
  queue,    \* jobs of each task waiting in Redis (queued, deferred, scheduled)
  worker,   \* the job each work-horse has, and how far it is
  disp,     \* the dispatcher: the task it has chosen
  adm,      \* local variables of stop_all_tasks or resume_all_tasks
  retries, faults

vars == <<ctl, row, owed, queue, worker, disp, adm, retries, faults>>
budget == <<retries, faults>>

Statuses == {"new", "queued", "running", "done", "failed", "cancelled", "deleted"}
Active == {"queued", "running"}
Phases == {"running", "stopping", "paused", "stop_failed", "resuming", "resume_failed"}

(* selected and snap: selectedUsernames and the task ids of the snapshot;   *)
(* safe: lastResult.deploySafe.                                             *)
Control == [paused : BOOLEAN, phase : Phases, selected : SUBSET Users,
            snap : SUBSET TaskIds, safe : BOOLEAN]

(* "popped": taken from the queue and not yet in the registry of started    *)
(* jobs, so that no scan of Redis sees it.  told: the stop command arrived. *)
Horse == [task : TaskIds \cup {None}, pc : {"idle", "popped", "started", "read", "work"},
          told : BOOLEAN]
Idle == [task |-> None, pc |-> "idle", told |-> FALSE]
Registered == {"started", "read", "work"}

Paused(t) == ctl.paused /\ OwnerOf[t] \in ctl.selected
Selected == {t \in TaskIds : OwnerOf[t] \in ctl.selected}

(* _state_deploy_safe *)
DeploySafe == ctl.paused /\ ctl.phase \in {"paused", "resume_failed"} /\ ctl.safe

Working(t) == {w \in Workers : worker[w].task = t /\ worker[w].pc = "work"}
HasJob(t) == queue[t] > 0 \/ \E w \in Workers : worker[w].task = t /\ worker[w].pc \in Registered

SetRows(S, status) == [t \in TaskIds |-> IF t \in S THEN status ELSE row[t]]

-----------------------------------------------------------------------------
(***************************************************************************)
(* Users and dispatchers.                                                  *)
(***************************************************************************)

(* A task is created; ensure_system_task_dispatch_allowed.  The job of an   *)
(* order sync run is enqueued by the call that creates it.                  *)
Create(t) ==
  /\ row[t] = "new" /\ ~Paused(t)
  /\ row' = [row EXCEPT ![t] = "queued"]
  /\ queue' = IF t \in Sales THEN [queue EXCEPT ![t] = 1] ELSE queue
  /\ UNCHANGED <<ctl, owed, worker, disp, adm, budget>>

(* A retry of an ended task; order sync runs are retried as a new run. *)
Retry(t) ==
  /\ row[t] \in {"failed", "cancelled"} /\ t \notin Sales /\ ~Paused(t)
  /\ retries < MaxRetries
  /\ retries' = retries + 1
  /\ row' = [row EXCEPT ![t] = "queued"]
  /\ owed' = owed \ {t}
  /\ UNCHANGED <<ctl, queue, worker, disp, adm, faults>>

Cancel(t) ==
  /\ row[t] = "queued"
  /\ row' = [row EXCEPT ![t] = "cancelled"]
  /\ UNCHANGED <<ctl, owed, queue, worker, disp, adm, budget>>

Delete(t) ==
  /\ row[t] \in {"done", "failed", "cancelled"}
  /\ row' = [row EXCEPT ![t] = "deleted"]
  /\ owed' = owed \ {t}
  /\ UNCHANGED <<ctl, queue, worker, disp, adm, budget>>

(* dispatch_next_..._task: a queued task without a job, not paused. *)
Choose(t) ==
  /\ disp = None
  /\ row[t] = "queued" /\ t \notin Sales /\ ~HasJob(t) /\ ~Paused(t)
  /\ disp' = t
  /\ UNCHANGED <<ctl, row, owed, queue, worker, adm, budget>>

(* enqueue_task while the owner is not paused. *)
Enqueue ==
  /\ disp # None /\ ~Paused(disp)
  /\ queue' = [queue EXCEPT ![disp] = @ + 1]
  /\ disp' = None
  /\ UNCHANGED <<ctl, row, owed, worker, adm, budget>>

(* ensure_task_dispatch_allowed raises: a crawl task is left queued for     *)
(* another attempt, mark_background_task_dispatch_failed ends any other.    *)
EnqueueRefused ==
  /\ disp # None /\ Paused(disp)
  /\ row' = IF disp \in Crawls THEN row ELSE [row EXCEPT ![disp] = "failed"]
  /\ disp' = None
  /\ UNCHANGED <<ctl, owed, queue, worker, adm, budget>>

(* The order sync queue gives up a run that stays queued without a job. *)
Expire(t) ==
  /\ t \in Sales /\ row[t] = "queued" /\ ~HasJob(t) /\ ~Paused(t)
  /\ \A w \in Workers : worker[w].task # t
  /\ row' = [row EXCEPT ![t] = "failed"]
  /\ UNCHANGED <<ctl, owed, queue, worker, disp, adm, budget>>

-----------------------------------------------------------------------------
(***************************************************************************)
(* Workers.                                                                *)
(***************************************************************************)

Pop(w) ==
  /\ worker[w] = Idle
  /\ \E t \in TaskIds :
       /\ queue[t] > 0
       /\ queue' = [queue EXCEPT ![t] = @ - 1]
       /\ worker' = [worker EXCEPT ![w] = [Idle EXCEPT !.task = t, !.pc = "popped"]]
  /\ UNCHANGED <<ctl, row, owed, disp, adm, budget>>

Register(w) ==
  /\ worker[w].pc = "popped"
  /\ worker' = [worker EXCEPT ![w].pc = "started"]
  /\ UNCHANGED <<ctl, row, owed, queue, disp, adm, budget>>

(* run_..._task reads its row; anything but a queued task is left alone.    *)
(* Two jobs of one task do not overlap here.                                *)
StartableAnyway(t) == row[t] # "deleted"
Startable(t) == row[t] = "queued"

Begin(w) ==
  /\ worker[w].pc = "started"
  /\ \A v \in Workers \ {w} : worker[v].task = worker[w].task => worker[v].pc # "read"
  /\ worker' = [worker EXCEPT ![w] = IF Startable(worker[w].task)
                                     THEN [@ EXCEPT !.pc = "read"] ELSE Idle]
  /\ UNCHANGED <<ctl, row, owed, queue, disp, adm, budget>>

(* The transaction that read "queued" commits, whatever the row is by now. *)
Start(w) ==
  /\ worker[w].pc = "read"
  /\ worker' = [worker EXCEPT ![w].pc = "work"]
  /\ row' = [row EXCEPT ![worker[w].task] = IF @ = "deleted" THEN @ ELSE "running"]
  /\ owed' = owed \ {worker[w].task}
  /\ UNCHANGED <<ctl, queue, disp, adm, budget>>

(* The task ends.  It may have noticed that it was cancelled; if not, only  *)
(* a crawl task writes its result over the cancellation.                    *)
End(w) ==
  /\ worker[w].pc = "work"
  /\ LET t == worker[w].task IN
     \/ /\ row[t] \in {"cancelled", "deleted"}
        /\ UNCHANGED <<row, owed>>
     \/ /\ row[t] = "running" \/ (row[t] = "cancelled" /\ t \in Crawls)
        /\ row' = [row EXCEPT ![t] = "done"]
        /\ owed' = owed \ {t}
  /\ worker' = [worker EXCEPT ![w] = Idle]
  /\ UNCHANGED <<ctl, queue, disp, adm, budget>>

(* The worker ends its work-horse; RQ drops the job from its registry. *)
Die(w) ==
  /\ worker[w].told
  /\ worker' = [worker EXCEPT ![w] = Idle]
  /\ UNCHANGED <<ctl, row, owed, queue, disp, adm, budget>>

-----------------------------------------------------------------------------
(***************************************************************************)
(* stop_all_tasks.                                                         *)
(***************************************************************************)

(* clean: no error in the last pass that stopped jobs; still: the count of  *)
(* active rows was zero; stable: stable_checks; left: order sync runs still *)
(* to be dispatched; held: the snapshot resume_all_tasks works on.          *)
AdminPC == {"idle", "cancel", "kill", "count", "scan", "close",
            "prepare", "unpause", "dispatch"}
Admin == [pc : AdminPC, clean : BOOLEAN, still : BOOLEAN, stable : 0..StableChecks,
          held : SUBSET TaskIds, left : SUBSET TaskIds]
AtRest == [pc |-> "idle", clean |-> TRUE, still |-> FALSE, stable |-> 0,
           held |-> {}, left |-> {}]

(* The early returns: a call while the control row is stopping, or paused   *)
(* and safe, changes nothing, and one that names other users than the       *)
(* paused ones is refused.                                                  *)
MayStop(users) ==
  ctl.paused => /\ users = ctl.selected
                /\ ctl.phase # "stopping"
                /\ ~(ctl.phase = "paused" /\ ctl.safe)

(* The first transaction. *)
StopCall(users) ==
  /\ adm.pc = "idle" /\ MayStop(users)
  /\ LateChecks \/ disp = None
  /\ ctl' = IF ctl.paused THEN [ctl EXCEPT !.phase = "stopping", !.safe = FALSE]
            ELSE [paused |-> TRUE, phase |-> "stopping", selected |-> users,
                  snap |-> {}, safe |-> FALSE]
  /\ adm' = [AtRest EXCEPT !.pc = "cancel"]
  /\ UNCHANGED <<row, owed, queue, worker, disp, budget>>

ActiveRows == {t \in Selected : row[t] \in Active}

(* _merge_snapshots: what earlier rounds found is kept. *)
MergedAfresh == ActiveRows
Merged == ctl.snap \cup ActiveRows

(* One round: extend the snapshot and cancel its active rows, in one        *)
(* transaction.                                                             *)
CancelRound ==
  /\ adm.pc = "cancel"
  /\ ctl' = [ctl EXCEPT !.snap = Merged]
  /\ LET hit == {t \in Merged : row[t] \in Active} IN
     /\ row' = SetRows(hit, "cancelled")
     /\ owed' = owed \cup hit
  /\ adm' = [adm EXCEPT !.pc = "kill"]
  /\ UNCHANGED <<queue, worker, disp, budget>>

(* _stop_all_managed_rq_jobs: waiting jobs of the selected users are        *)
(* removed, work-horses get the stop command unless it is lost.             *)
KillJobs ==
  /\ adm.pc = "kill"
  /\ queue' = [t \in TaskIds |-> IF t \in Selected THEN 0 ELSE queue[t]]
  /\ LET hit == {w \in Workers : worker[w].task \in Selected /\ worker[w].pc \in Registered}
     IN \E told \in SUBSET hit :
          worker' = [w \in Workers |-> IF w \in told THEN [worker[w] EXCEPT !.told = TRUE]
                                       ELSE worker[w]]
  /\ \E clean \in BOOLEAN :
       /\ clean \/ faults < MaxFaults
       /\ faults' = IF clean THEN faults ELSE faults + 1
       /\ adm' = [adm EXCEPT !.pc = "count", !.clean = clean]
  /\ UNCHANGED <<ctl, row, owed, disp, retries>>

(* _deployment_quiescence: the rows first, *)
CountRows ==
  /\ adm.pc = "count"
  /\ adm' = [adm EXCEPT !.pc = "scan", !.still = (ActiveRows = {})]
  /\ UNCHANGED <<ctl, row, owed, queue, worker, disp, budget>>

(* then the jobs.                                                           *)
NoJobs == \A t \in Selected : ~HasJob(t)

EnoughAtOnce(stable) == stable > 0
EnoughLate(stable) == stable > StableChecks
Enough(stable) == stable >= StableChecks

(* The loop ends after StableChecks quiet rounds in a row, or at the        *)
(* deadline, which may pass at any round.                                   *)
ScanJobs ==
  /\ adm.pc = "scan"
  /\ LET stable == IF adm.still /\ NoJobs THEN adm.stable + 1 ELSE 0 IN
     \/ adm' = [adm EXCEPT !.pc = "close", !.still = FALSE, !.stable = stable]
     \/ /\ ~Enough(stable)
        /\ adm' = [adm EXCEPT !.pc = "cancel", !.clean = TRUE, !.still = FALSE, !.stable = stable]
  /\ UNCHANGED <<ctl, row, owed, queue, worker, disp, budget>>

CloseStop ==
  /\ adm.pc = "close"
  /\ LET safe == Enough(adm.stable) /\ adm.clean IN
     ctl' = [ctl EXCEPT !.phase = IF safe THEN "paused" ELSE "stop_failed", !.safe = safe]
  /\ adm' = AtRest
  /\ UNCHANGED <<row, owed, queue, worker, disp, budget>>

-----------------------------------------------------------------------------
(***************************************************************************)
(* resume_all_tasks.                                                       *)
(***************************************************************************)

MayResume == DeploySafe

ResumeCall ==
  /\ adm.pc = "idle" /\ MayResume
  /\ ctl' = [ctl EXCEPT !.phase = "resuming"]
  /\ adm' = [AtRest EXCEPT !.pc = "prepare", !.held = ctl.snap]
  /\ UNCHANGED <<row, owed, queue, worker, disp, budget>>

(* _prepare_snapshot_for_resume: rows that are no longer cancelled are      *)
(* skipped.                                                                 *)
Prepare ==
  /\ adm.pc = "prepare"
  /\ LET back == {t \in adm.held : row[t] = "cancelled"} IN
     /\ row' = SetRows(back, "queued")
     /\ owed' = owed \ back
  /\ adm' = [adm EXCEPT !.pc = "unpause"]
  /\ UNCHANGED <<ctl, queue, worker, disp, budget>>

(* It raises, and its transaction is rolled back. *)
PrepareFails ==
  /\ adm.pc = "prepare" /\ faults < MaxFaults
  /\ faults' = faults + 1
  /\ ctl' = [ctl EXCEPT !.phase = "resume_failed", !.safe = TRUE]
  /\ adm' = AtRest
  /\ UNCHANGED <<row, owed, queue, worker, disp, retries>>

Unpause ==
  /\ adm.pc = "unpause"
  /\ ctl' = [ctl EXCEPT !.paused = FALSE, !.phase = "running"]
  /\ adm' = [adm EXCEPT !.pc = "dispatch", !.held = {}, !.left = adm.held \cap Sales]
  /\ UNCHANGED <<row, owed, queue, worker, disp, budget>>

(* _dispatch_restored_snapshot: every order sync run of the snapshot is     *)
(* enqueued; an enqueue that fails is only reported.                        *)
DispatchRun(t) ==
  /\ adm.pc = "dispatch" /\ t \in adm.left
  /\ \/ queue' = [queue EXCEPT ![t] = @ + 1] /\ faults' = faults
     \/ faults < MaxFaults /\ faults' = faults + 1 /\ queue' = queue
  /\ adm' = [adm EXCEPT !.left = @ \ {t}]
  /\ UNCHANGED <<ctl, row, owed, worker, disp, retries>>

(* The last transaction replaces lastResult by one without deploySafe. *)
Report ==
  /\ adm.pc = "dispatch" /\ adm.left = {}
  /\ ctl' = [ctl EXCEPT !.safe = FALSE]
  /\ adm' = AtRest
  /\ UNCHANGED <<row, owed, queue, worker, disp, budget>>

(* The API process is restarted in the middle of a call. *)
CrashCall ==
  /\ adm.pc # "idle" /\ faults < MaxFaults
  /\ faults' = faults + 1
  /\ adm' = AtRest
  /\ UNCHANGED <<ctl, row, owed, queue, worker, disp, retries>>

-----------------------------------------------------------------------------
Init ==
  /\ ctl = [paused |-> FALSE, phase |-> "running", selected |-> {}, snap |-> {},
            safe |-> FALSE]
  /\ row = [t \in TaskIds |-> "new"]
  /\ owed = {}
  /\ queue = [t \in TaskIds |-> 0]
  /\ worker = [w \in Workers |-> Idle]
  /\ disp = None
  /\ adm = AtRest
  /\ retries = 0 /\ faults = 0

Stop == CancelRound \/ KillJobs \/ CountRows \/ ScanJobs \/ CloseStop
Resume == Prepare \/ PrepareFails \/ Unpause \/ Report \/ \E t \in TaskIds : DispatchRun(t)

Next ==
  \/ \E t \in TaskIds : Create(t) \/ Retry(t) \/ Cancel(t) \/ Delete(t) \/ Choose(t) \/ Expire(t)
  \/ Enqueue \/ EnqueueRefused
  \/ \E w \in Workers : Pop(w) \/ Register(w) \/ Begin(w) \/ Start(w) \/ End(w) \/ Die(w)
  \/ \E users \in SUBSET Users \ {{}} : StopCall(users)
  \/ ResumeCall
  \/ Stop \/ Resume \/ CrashCall

Spec == Init /\ [][Next]_vars

-----------------------------------------------------------------------------
(* Properties. *)

(* Every variable holds values of its kind. *)
TypeOK ==
  /\ ctl \in Control
  /\ row \in [TaskIds -> Statuses]
  /\ owed \subseteq TaskIds
  /\ queue \in [TaskIds -> Nat]
  /\ worker \in [Workers -> Horse]
  /\ disp \in TaskIds \cup {None}
  /\ adm \in Admin
  /\ retries \in 0..MaxRetries /\ faults \in 0..MaxFaults

(* deploySafe: when the control row says that a deployment may begin, no    *)
(* work-horse is working on a task of the selected users and no row of      *)
(* theirs is active, although jobs may have been on their way from the      *)
(* queue to a worker when the stop looked.                                  *)
SafeMeansStill ==
  DeploySafe => ActiveRows = {} /\ \A t \in Selected : Working(t) = {}

(* stop_all_tasks, _merge_snapshots: a task the stop has cancelled can      *)
(* always be resumed: the system is still paused, the snapshot names it and *)
(* its row is still the cancelled one, whatever rounds, crashes and         *)
(* failures followed.                                                       *)
StopRemembers ==
  \A t \in owed : ctl.paused /\ t \in ctl.snap /\ row[t] = "cancelled"

(* resume_all_tasks: a task is never worked on twice at a time, although    *)
(* the resumption enqueues again what the stop had to kill.                 *)
OneExecution == \A t \in TaskIds : Cardinality(Working(t)) <= 1

(* resume_all_tasks refuses until the system may be deployed and tells the  *)
(* administrator to carry out the stop again until then; so as long as a    *)
(* stop is not safe and no call is under way, a stop is accepted.           *)
StopMayBeRepeated ==
  ctl.paused /\ ~DeploySafe /\ adm.pc = "idle" => MayStop(ctl.selected)
=============================================================================
