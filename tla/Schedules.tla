------------------------------ MODULE Schedules ------------------------------
(***************************************************************************)
(* What runs at a time: listing and deletion schedules of the stores       *)
(* (lt_auto_listing_schedules, lt_auto_deletion_tasks), the queue of the   *)
(* manual ones, and the scheduled crawls (app/services/crawler_service.py).*)
(* The deletion half of the code mirrors the listing half; both are read   *)
(* here.  An execution creates tasks, which CrawlQueue, ListingTasks and   *)
(* SyncTasks take up; paused owners are left to TaskControl.               *)
(*                                                                         *)
(* Kinds: "auto" is executed by the schedule runner in its own round,      *)
(* "manual" (at once) and "once" (at a time) wait in the queue of their    *)
(* store and are executed by an RQ worker, "crawl" is sent to one.         *)
(***************************************************************************)
EXTENDS Naturals, FiniteSets

CONSTANTS
  Schedules, NoId,
  Kinds,           (* what the schedules may be: a set of functions         *)
  StoreOf,
  Runners,         (* schedule runners, one thread in each API process      *)
  RqWorkers, Requests,  (* RQ workers, threads of API requests              *)
  Batch,           (* settings.scheduled_crawl_dispatch_batch_size          *)
  OneTick,         (* TRUE: the runner's Redis lock outlives its round      *)
  SerialReads,     (* TRUE: dispatch transactions do not overlap            *)
  LateEnqueues,    (* TRUE: an enqueue may raise with the job stored        *)
  RunManual,       (* TRUE: run_auto_listing_schedule_now is called for a   *)
                   (* manual task, too                                      *)
  MaxTimes,        (* bound: due times and requests of a schedule           *)
  MaxJobs,         (* bound: copies of a job that wait                      *)
  MaxMishaps       (* bound: crashes and failed enqueues                    *)

ASSUME ScheduleAssumption ==
  /\ IsFiniteSet(Schedules) /\ NoId \notin Schedules
  /\ Kinds \subseteq [Schedules -> {"auto", "manual", "once", "crawl"}]
  /\ IsFiniteSet(Runners) /\ IsFiniteSet(RqWorkers) /\ IsFiniteSet(Requests)
  /\ Runners \cap RqWorkers = {} /\ Requests \cap (Runners \cup RqWorkers) = {}
  /\ MaxTimes \in Nat /\ MaxJobs \in Nat /\ MaxMishaps \in Nat

VARIABLES
  kind,      \* task_type and schedule_type of each schedule
  row,       \* status, enabled, and whether next_run_at has come
  owed,      \* times a schedule has come due, or was asked to run
  made,      \* times its tasks were created
  waiting,   \* copies of its RQ job that wait
  broken,    \* schedules whose RQ job is started, by a worker that died
  failed,    \* crawls with a job among the failed ones
  proc,      \* what each thread or worker is about to do
  mishaps

stepVars == <<row, owed, made, waiting, broken, failed, proc, mishaps>>
schedVars == <<kind, stepVars>>

Procs == Runners \cup RqWorkers \cup Requests
SchedStatuses == {"none", "queued", "idle", "running", "completed", "failed", "disabled", "deleted"}
Row == [status : SchedStatuses, enabled : BOOLEAN, due : BOOLEAN]
NoRow == [status |-> "none", enabled |-> FALSE, due |-> FALSE]
Idle == [pc |-> "idle", id |-> NoId, todo |-> {}, seen |-> [t \in Schedules |-> NoRow]]

OfKind(kinds) == {t \in Schedules : kind[t] \in kinds}
Manual == OfKind({"manual", "once"})
Autos == OfKind({"auto"})
Crawls == OfKind({"crawl"})

Exists(t) == row[t].status \notin {"none", "deleted"}
Working(t) == {p \in Procs : proc[p].id = t}
About(t) == {p \in Procs : t \in proc[p].todo /\ proc[p].pc \in {"enqueue", "crawls"}}
(* auto_listing_schedule_job_active; redis_task_states of a crawl *)
HasJob(t) == waiting[t] > 0 \/ t \in broken \/ \E w \in RqWorkers : proc[w].id = t

(* order by ... limit(batch size), whichever come first *)
FirstOf(S) ==
  {B \in SUBSET S : Cardinality(B) = IF Cardinality(S) > Batch THEN Batch ELSE Cardinality(S)}

Status(S, status) ==
  [t \in Schedules |-> IF t \in S THEN [row[t] EXCEPT !.status = status] ELSE row[t]]
Go(p, pc) == proc' = [proc EXCEPT ![p] = [Idle EXCEPT !.pc = pc]]

-----------------------------------------------------------------------------
(***************************************************************************)
(* Requests of users, and time.                                            *)
(***************************************************************************)

(* create_manual_listing_task: a task to run at once is dispatched, with    *)
(* whatever else waits.                                                     *)
CreateManual(a, t) ==
  LET now == kind[t] = "manual" IN
  /\ t \in Manual /\ row[t].status = "none" /\ proc[a].pc = "idle"
  /\ row' = [row EXCEPT ![t] = [status |-> "queued", enabled |-> ~now, due |-> now]]
  /\ owed' = [owed EXCEPT ![t] = IF now THEN 1 ELSE 0]
  /\ IF now THEN Go(a, "next") ELSE UNCHANGED proc
  /\ UNCHANGED <<made, waiting, broken, failed, mishaps>>

(* Creating, editing, importing, switching on and off: next_run_at lies in  *)
(* the future.  Only for a crawl is a running one no reason to refuse.      *)
Save(t, on) ==
  /\ t \in Autos \cup Crawls /\ row[t].status # "deleted"
  /\ t \in Autos => row[t].status # "running"
  /\ row[t].status = "none" /\ t \in Autos => on
  /\ row' = [row EXCEPT ![t] = [status |-> IF on THEN "idle" ELSE "disabled",
                                enabled |-> on, due |-> FALSE]]
  /\ UNCHANGED <<owed, made, waiting, broken, failed, proc, mishaps>>

Delete(t) ==
  /\ Exists(t)
  /\ t \notin Crawls => row[t].status # "running"
  /\ ~(kind[t] = "manual" /\ row[t].status = "idle")
  /\ row' = [row EXCEPT ![t] = [NoRow EXCEPT !.status = "deleted"]]
  /\ UNCHANGED <<owed, made, waiting, broken, failed, proc, mishaps>>

ComesDue(t) ==
  /\ row[t].enabled /\ ~row[t].due /\ owed[t] < MaxTimes
  /\ kind[t] = "once" => row[t].status = "queued"
  /\ row' = [row EXCEPT ![t].due = TRUE]
  /\ owed' = [owed EXCEPT ![t] = @ + 1]
  /\ UNCHANGED <<made, waiting, broken, failed, proc, mishaps>>

-----------------------------------------------------------------------------
(***************************************************************************)
(* An execution: the row is marked in a transaction of its own (under its  *)
(* lock, except for crawls), tasks are created, the end is written by key. *)
(***************************************************************************)

MayBegin(t) == Exists(t) /\ (t \notin Crawls => row[t].status # "running")

MarkedStillDue(t, advance) == [row EXCEPT ![t].status = "running"]

(* execute_auto_listing_schedule: the due time passes on when it begins. *)
Marked(t, advance) ==
  [row EXCEPT ![t].status = "running",
              ![t].enabled = @ /\ ~(advance /\ kind[t] = "once"),
              ![t].due = @ /\ ~(advance /\ row[t].enabled /\ kind[t] # "once")]
Run(p, t) == [proc[p] EXCEPT !.pc = "run", !.id = t, !.todo = @ \ {t}]

RunNow(a, t) ==
  /\ proc[a].pc = "idle" /\ MayBegin(t) /\ owed[t] < MaxTimes
  /\ t \in Manual => RunManual
  /\ row' = Marked(t, FALSE)
  /\ owed' = [owed EXCEPT ![t] = @ + 1]
  /\ proc' = [proc EXCEPT ![a] = Run(a, t)]
  /\ UNCHANGED <<made, waiting, broken, failed, mishaps>>

(* A worker takes a job; a refused one ends, and dispatches all the same.   *)
TakeJob(w, t) ==
  /\ proc[w].pc = "idle" /\ waiting[t] > 0
  /\ waiting' = [waiting EXCEPT ![t] = @ - 1]
  /\ \/ /\ MayBegin(t)
        /\ row' = Marked(t, kind[t] = "once")
        /\ proc' = [proc EXCEPT ![w] = Run(w, t)]
        /\ UNCHANGED failed
     \/ /\ ~MayBegin(t)
        /\ failed' = failed \cup ({t} \cap Crawls)
        /\ IF t \in Crawls THEN UNCHANGED proc ELSE Go(w, "next")
        /\ UNCHANGED row
  /\ UNCHANGED <<owed, made, broken, mishaps>>

(* create_listing_task and its like; no candidates; an exception. *)
MakeTasks(p) ==
  /\ proc[p].pc = "run"
  /\ \/ /\ made' = [made EXCEPT ![proc[p].id] = @ + 1]
        /\ proc' = [proc EXCEPT ![p].pc = "made"]
     \/ /\ \E pc \in {"made", "raised"} : proc' = [proc EXCEPT ![p].pc = pc]
        /\ UNCHANGED made
  /\ UNCHANGED <<row, owed, waiting, broken, failed, mishaps>>

EndedInSuccess(t, raised) ==
  [row[t] EXCEPT !.status = IF raised THEN "failed" ELSE "success",
                 !.due = @ /\ t \notin Crawls]

Ended(t, raised) ==
  [row[t] EXCEPT !.status = IF raised THEN "failed"
                            ELSE IF t \in Manual THEN "completed"
                            ELSE IF row[t].enabled THEN "idle" ELSE "disabled",
                 !.due = @ /\ t \notin Crawls]

Finish(p) ==
  LET t == proc[p].id
      raised == proc[p].pc = "raised"
  IN
  /\ proc[p].pc \in {"made", "raised"}
  /\ row' = IF Exists(t) THEN [row EXCEPT ![t] = Ended(t, raised)] ELSE row
  /\ failed' = IF p \in RqWorkers /\ (raised \/ ~Exists(t)) THEN failed \cup ({t} \cap Crawls) ELSE failed
  /\ CASE p \in Runners -> proc' = [proc EXCEPT ![p] = [@ EXCEPT !.pc = "due", !.id = NoId]]
       [] p \in RqWorkers /\ t \notin Crawls -> Go(p, "next")
       [] OTHER -> Go(p, "idle")
  /\ UNCHANGED <<owed, made, waiting, broken, mishaps>>

-----------------------------------------------------------------------------
(***************************************************************************)
(* The queue of manual tasks: dispatch_next_queued_manual_listing_tasks,   *)
(* called after a creation, at the end of each job and in each round.      *)
(***************************************************************************)
InFlight == {"idle", "running"}
SameStore(t) == {o \in Manual : StoreOf[o] = StoreOf[t]}

ReadQueue(p) ==
  /\ proc[p].pc = "next"
  /\ SerialReads => \A o \in Procs : proc[o].pc # "read"
  /\ proc' = [proc EXCEPT ![p].pc = "read", ![p].seen = row]
  /\ UNCHANGED <<row, owed, made, waiting, broken, failed, mishaps>>

EligibleBeside(p) ==
  {t \in Manual : proc[p].seen[t].status = "queued" /\ proc[p].seen[t].due /\ Exists(t)}

(* What waits for a free store, as of the snapshot: the second look under   *)
(* the lock of the store is a plain read and sees the snapshot again, and   *)
(* the locked row is the object read before, unless the row is gone.        *)
Eligible(p) ==
  LET seen == proc[p].seen IN
  {t \in Manual : /\ seen[t].status = "queued" /\ seen[t].due
                  /\ Exists(t)
                  /\ \A o \in SameStore(t) : seen[o].status \notin InFlight}

DispatchQueued(p) ==
  /\ proc[p].pc = "read"
  /\ \E chosen \in SUBSET Eligible(p) :
       /\ \A t \in Eligible(p) : Cardinality(chosen \cap SameStore(t)) = 1
       /\ row' = Status(chosen, "idle")
       /\ proc' = [proc EXCEPT ![p] = [Idle EXCEPT !.pc = IF chosen = {} THEN "idle" ELSE "enqueue",
                                                   !.todo = chosen]]
  /\ UNCHANGED <<owed, made, waiting, broken, failed, mishaps>>

(* dispatch_auto_listing_schedule, dispatch_scheduled_crawl: an enqueue that*)
(* raises marks the row failed.                                             *)
Enqueue(p, t) ==
  LET rest == proc[p].todo \ {t} IN
  /\ proc[p].pc \in {"enqueue", "crawls"} /\ t \in proc[p].todo
  /\ \/ /\ waiting[t] < MaxJobs
        /\ waiting' = [waiting EXCEPT ![t] = @ + 1]
        /\ UNCHANGED <<row, mishaps>>
     \/ /\ mishaps < MaxMishaps
        /\ mishaps' = mishaps + 1
        /\ row' = IF Exists(t) THEN Status({t}, "failed") ELSE row
        /\ \/ UNCHANGED waiting
           \/ LateEnqueues /\ waiting[t] < MaxJobs /\ waiting' = [waiting EXCEPT ![t] = @ + 1]
  /\ proc' = [proc EXCEPT ![p].todo = rest,
                          ![p].pc = IF rest = {} /\ (p \notin Runners \/ @ = "enqueue")
                                    THEN "idle" ELSE @]
  /\ UNCHANGED <<owed, made, broken, failed>>

-----------------------------------------------------------------------------
(***************************************************************************)
(* Scheduled crawls, and the round of a runner: crawls, schedules, queue.  *)
(***************************************************************************)

(* reconcile_interrupted_scheduled_crawls: without a job for long, or with  *)
(* none but a failed one, left by an earlier run perhaps.                   *)
Interrupted ==
  {t \in Crawls : /\ row[t].status = "running" /\ ~HasJob(t)
                  /\ (t \in failed \/ Working(t) \cup About(t) = {})}

Reconcile ==
  /\ Interrupted # {}
  /\ row' = Status(Interrupted, "failed")
  /\ UNCHANGED <<owed, made, waiting, broken, failed, proc, mishaps>>

(* Reads see the rows before those finalised just now are written. *)
Send(batch, due) ==
  [t \in Schedules |->
     IF t \in batch THEN [row[t] EXCEPT !.status = "running", !.due = FALSE]
     ELSE IF t \in due THEN [row[t] EXCEPT !.due = TRUE]
     ELSE Status(Interrupted, "failed")[t]]

(* run_due_scheduled_crawls_once *)
TickCrawls(r) ==
  /\ proc[r].pc = "idle"
  /\ OneTick => \A o \in Runners : proc[o].pc = "idle"
  /\ \E batch \in FirstOf({t \in Crawls : row[t].enabled /\ row[t].due /\ row[t].status # "running"}) :
       /\ row' = Send(batch, {})
       /\ proc' = [proc EXCEPT ![r] = [Idle EXCEPT !.pc = "crawls", !.todo = batch]]
  /\ UNCHANGED <<owed, made, waiting, broken, failed, mishaps>>

(* run_scheduled_crawls_now: those beyond the batch come due. *)
RunAllNow(a) ==
  LET some == {t \in Crawls : Exists(t) /\ row[t].enabled /\ row[t].status # "running"} IN
  /\ proc[a].pc = "idle"
  /\ some # {} /\ \A t \in some : owed[t] < MaxTimes
  /\ owed' = [t \in Schedules |-> IF t \in some THEN owed[t] + 1 ELSE owed[t]]
  /\ \E batch \in FirstOf(some) :
       /\ row' = Send(batch, some)
       /\ proc' = [proc EXCEPT ![a] = [Idle EXCEPT !.pc = "crawls", !.todo = batch]]
  /\ UNCHANGED <<made, waiting, broken, failed, mishaps>>

UnderWay(t) == row[t].status \in IF t \in Manual THEN InFlight ELSE {"running"}

OrphansRunning ==
  {t \in Manual \cup Autos : row[t].status = "running" /\ ~HasJob(t) /\ About(t) = {}}
OrphansManual == {t \in Manual : UnderWay(t) /\ ~HasJob(t) /\ About(t) = {}}

(* recover_orphan_auto_listing_schedules: rows left in flight for five      *)
(* minutes without a job.  A schedule that a runner or a request executes   *)
(* has no job and is taken for one when it is slow.                         *)
Orphans ==
  {t \in Manual \cup Autos : UnderWay(t) /\ ~HasJob(t) /\ About(t) = {}}

(* run_due_auto_listing_schedules_once *)
ReadDue(r) ==
  /\ proc[r].pc = "crawls" /\ proc[r].todo = {} /\ r \in Runners
  /\ \E slow \in SUBSET {t \in Orphans : Working(t) # {}} :
       row' = Status({t \in Orphans : Working(t) = {}} \cup slow, "failed")
  /\ \E batch \in FirstOf({t \in Autos : row[t].enabled /\ row[t].due /\ row[t].status # "running"}) :
       proc' = [proc EXCEPT ![r].pc = "due", ![r].todo = batch]
  /\ UNCHANGED <<owed, made, waiting, broken, failed, mishaps>>

(* Neither enabled nor the due time is looked at again. *)
ExecuteDue(r, t) ==
  /\ proc[r].pc = "due" /\ t \in proc[r].todo
  /\ \/ MayBegin(t) /\ row' = Marked(t, TRUE) /\ proc' = [proc EXCEPT ![r] = Run(r, t)]
     \/ ~MayBegin(t) /\ proc' = [proc EXCEPT ![r].todo = @ \ {t}] /\ UNCHANGED row
  /\ UNCHANGED <<owed, made, waiting, broken, failed, mishaps>>

EndDue(r) ==
  /\ proc[r].pc = "due" /\ proc[r].todo = {}
  /\ Go(r, "next")
  /\ UNCHANGED <<row, owed, made, waiting, broken, failed, mishaps>>

-----------------------------------------------------------------------------
Crash(p) ==
  /\ proc[p].pc # "idle" /\ mishaps < MaxMishaps
  /\ mishaps' = mishaps + 1
  /\ broken' = IF p \in RqWorkers /\ proc[p].id # NoId THEN broken \cup {proc[p].id} ELSE broken
  /\ Go(p, "idle")
  /\ UNCHANGED <<row, owed, made, waiting, failed>>

(* RQ gives up the job of a dead worker. *)
Abandon(t) ==
  /\ t \in broken
  /\ broken' = broken \ {t} /\ failed' = failed \cup ({t} \cap Crawls)
  /\ UNCHANGED <<row, owed, made, waiting, proc, mishaps>>

SchedInit ==
  /\ kind \in Kinds
  /\ row = [t \in Schedules |-> NoRow]
  /\ owed = [t \in Schedules |-> 0] /\ made = [t \in Schedules |-> 0]
  /\ waiting = [t \in Schedules |-> 0]
  /\ broken = {} /\ failed = {}
  /\ proc = [p \in Procs |-> Idle]
  /\ mishaps = 0

SchedNext ==
  /\ UNCHANGED kind
  /\ \/ \E t \in Schedules :
          \/ \E a \in Requests : CreateManual(a, t) \/ RunNow(a, t)
          \/ \E on \in BOOLEAN : Save(t, on)
          \/ Delete(t) \/ ComesDue(t) \/ Abandon(t)
          \/ \E w \in RqWorkers : TakeJob(w, t)
          \/ \E p \in Procs : Enqueue(p, t)
          \/ \E r \in Runners : ExecuteDue(r, t)
     \/ \E p \in Procs : MakeTasks(p) \/ Finish(p) \/ ReadQueue(p) \/ DispatchQueued(p) \/ Crash(p)
     \/ \E r \in Runners : TickCrawls(r) \/ ReadDue(r) \/ EndDue(r)
     \/ \E a \in Requests : RunAllNow(a)
     \/ Reconcile

(* The runner starts its rounds again and again, also after a restart of    *)
(* its process; workers take jobs; RQ looks for dead workers.               *)
SchedFair ==
  /\ \A r \in Runners :
       WF_stepVars(\/ TickCrawls(r) \/ ReadDue(r) \/ EndDue(r)
                   \/ \E t \in Schedules : ExecuteDue(r, t))
  /\ \A p \in Procs :
       /\ WF_stepVars(\/ MakeTasks(p) \/ Finish(p) \/ DispatchQueued(p)
                      \/ \E t \in Schedules : Enqueue(p, t))
       /\ SF_stepVars(ReadQueue(p))
  /\ \A w \in RqWorkers : WF_stepVars(\E t \in Schedules : TakeJob(w, t))
  /\ \A t \in Schedules : WF_stepVars(Abandon(t))

SchedSpec == SchedInit /\ [][SchedNext]_schedVars
FairSchedules == SchedSpec /\ SchedFair

-----------------------------------------------------------------------------
SchedTypeOK ==
  /\ kind \in Kinds
  /\ row \in [Schedules -> Row]
  /\ owed \in [Schedules -> Nat] /\ made \in [Schedules -> Nat]
  /\ waiting \in [Schedules -> Nat]
  /\ broken \subseteq Schedules /\ failed \subseteq Schedules
  /\ proc \in [Procs -> [pc : {"idle", "run", "made", "raised", "next", "read", "enqueue",
                               "crawls", "due"},
                         id : Schedules \cup {NoId}, todo : SUBSET Schedules,
                         seen : [Schedules -> Row]]]
  /\ mishaps \in Nat

(* One manual task of a store is under way at a time, over dispatchers,     *)
(* crashes and the recovery of orphans.                                     *)
OneInFlight ==
  \A t, o \in Manual : (StoreOf[t] = StoreOf[o] /\ {row[t].status, row[o].status} \subseteq InFlight)
                       => t = o

(* Dispatchers of the manual queue exclude each other: no two of them are   *)
(* about to enqueue tasks of one store.                                     *)
OneDispatcher ==
  \A p, o \in Procs : \A t \in proc[p].todo \cap Manual, u \in proc[o].todo \cap Manual :
    StoreOf[t] = StoreOf[u] => p = o

(* What comes due once, or is asked for once, creates tasks once at most:   *)
(* whichever process executes it, and however often it starts over.         *)
RunsOnce == \A t \in Schedules : made[t] =< owed[t]

(* A manual task that has come due leaves the queue of its store. *)
QueueMoves == \A t \in Schedules : row[t].status = "queued" /\ row[t].due ~> row[t].status # "queued"

(* No schedule stays running, or dispatched, for good. *)
ScheduleEnds ==
  \A t \in Schedules :
    UnderWay(t) ~> ~UnderWay(t)
=============================================================================
