----------------------------- MODULE SyncTasks -----------------------------
(***************************************************************************)
(* The sync tasks of the stores (rows of lt_sync_tasks) and what keeps     *)
(* them, and the listing tasks, from working on the same products and      *)
(* stores at once: dispatch_next_sync_task, run_sync_task with its start   *)
(* checks, the requeueing of lost tasks (app/services/crawler_service.py). *)
(*                                                                         *)
(* Kinds of tasks: "sync" (store sync, listing status, deletion,           *)
(* replacement) and "listing" are dispatched from their rows, as capacity  *)
(* and resources allow; "title", "image" (cleanup) and "upload" are        *)
(* enqueued by the call that creates them, and only wait for each other.   *)
(* The capacity of listing tasks is the subject of ListingTasks.           *)
(***************************************************************************)
EXTENDS Naturals, FiniteSets

CONSTANTS
  Ids, NoId,
  KindOf,        (* kind of each task                                       *)
  UserOf,        (* owner of each task                                      *)
  Clash,         (* the tasks whose resource scope conflicts with a task's  *)
  Alike,         (* for a title, image or upload task: those of its kind    *)
                 (* for the same user, or the same store, itself excluded   *)
  GlobalMax, UserMax,  (* settings.max_running_sync_tasks_...               *)
  Threads,       (* API threads and the schedule runner                     *)
  SyncWorkers,   (* RQ workers                                              *)
  SerialStarts,  (* TRUE: start checks that decide by what they have read   *)
                 (* without a lock do not overlap                           *)
  LateEnqueues,  (* TRUE: an enqueue may fail after another process has     *)
                 (* enqueued the task, or its owner cancelled it            *)
  MaxJobs,       (* bound: jobs of one task in Redis                        *)
  MaxAgain,      (* bound: retries                                          *)
  MaxMishaps     (* bound: crashes, lost jobs, failed enqueues              *)

VARIABLES
  sync,     \* status of each task
  waiting,  \* jobs of each task in Redis that no worker has taken
  runner,   \* the task of each worker, how far it is, the rows it has read
  thread,   \* what a thread is about to enqueue, and the rows it has read
  again, mishaps

syncVars == <<sync, waiting, runner, thread, again, mishaps>>
counts == <<again, mishaps>>

SyncStatuses == {"new", "queued", "running", "done", "failed", "cancelled", "deleted"}
Rows == [Ids -> SyncStatuses]
Unread == [t \in Ids |-> "new"]

Free == [id |-> NoId, pc |-> "idle", seen |-> Unread]
Rest == [pc |-> "idle", seen |-> Unread, todo |-> {}]

OfKind(kinds) == {t \in Ids : KindOf[t] \in kinds}
Ordinary == OfKind({"sync", "listing"})
Special == Ids \ Ordinary
Scoped == OfKind({"title", "upload"})

(* What the scopes and the limits of the tasks are, for the proofs.  Two    *)
(* tasks conflict, and are alike, mutually (task_resource_scopes_conflict   *)
(* and the queries of specialized_sync_task_wait_reason are symmetric, and  *)
(* leave out the task itself).                                              *)
SyncConstants ==
  /\ IsFiniteSet(Ids)
  /\ GlobalMax \in Nat /\ UserMax \in Nat
  /\ MaxJobs \in Nat /\ MaxAgain \in Nat /\ MaxMishaps \in Nat
  /\ \A t \in Ids :
       /\ t \notin Clash[t] /\ Alike[t] \subseteq Ids \ {t}
       /\ KindOf[t] \in {"sync", "listing"} => Alike[t] = {}
  /\ \A t, u \in Ids : (u \in Clash[t] => t \in Clash[u]) /\ (u \in Alike[t] => t \in Alike[u])

In(rows, S, status) == {t \in S : rows[t] = status}

Handled(t) == {w \in SyncWorkers : runner[w].id = t}
(* sync_task_has_active_background_job *)
HasActiveJob(t) == waiting[t] > 0 \/ Handled(t) # {}
WorkedOn(t) == {w \in Handled(t) : runner[w].pc = "work"}

-----------------------------------------------------------------------------
(***************************************************************************)
(* Requests.  A refused one (a duplicate, products that are not listed, a  *)
(* paused owner) leaves no trace and is left out.                          *)
(***************************************************************************)

(* The calls that create or retry a task: commit, then enqueue a special   *)
(* task, or call the dispatcher, which any thread may run at any time.     *)
Queue(d, t) ==
  /\ thread[d].pc = "idle"
  /\ sync' = [sync EXCEPT ![t] = "queued"]
  /\ thread' = IF t \in Special
               THEN [thread EXCEPT ![d] = [Rest EXCEPT !.pc = "enqueue", !.todo = {t}]]
               ELSE thread
  /\ UNCHANGED <<waiting, runner, mishaps>>

CreateSync(d, t) == sync[t] = "new" /\ Queue(d, t) /\ UNCHANGED again

(* "done" is success; a partial success counts as failed here.             *)
RetrySync(d, t) ==
  /\ sync[t] \in {"failed", "cancelled"} /\ again < MaxAgain
  /\ again' = again + 1
  /\ Queue(d, t)

(* Cancelling a running task is seen by its worker, see EndSync. *)
CancelSync(t) ==
  /\ sync[t] = "queued"
  /\ sync' = [sync EXCEPT ![t] = "cancelled"]
  /\ UNCHANGED <<waiting, runner, thread, counts>>

(* delete_sync_tasks deletes a row of any status. *)
DeleteSync(t) ==
  /\ sync[t] \notin {"new", "deleted"}
  /\ sync' = [sync EXCEPT ![t] = "deleted"]
  /\ UNCHANGED <<waiting, runner, thread, counts>>

-----------------------------------------------------------------------------
(***************************************************************************)
(* Dispatch.                                                               *)
(***************************************************************************)

(* reconcile_interrupted_running_tasks: running tasks without a job, once   *)
(* their cut-off has passed.                                                *)
Dead == {t \in Ids : sync[t] = "running" /\ ~HasActiveJob(t)}
Reconciled(dead) == [t \in Ids |-> IF t \in dead THEN "failed" ELSE sync[t]]

(* The transaction of the dispatcher reads the rows.  Sessions do not flush *)
(* before a query: the rows it has just ended still count as running.       *)
ReadQueue(d) ==
  /\ thread[d].pc = "idle"
  /\ In(sync, Ordinary, "queued") # {}
  /\ thread' = [thread EXCEPT ![d] = [Rest EXCEPT !.pc = "choose", !.seen = sync]]
  /\ \E dead \in SUBSET Dead : sync' = Reconciled(dead)
  /\ UNCHANGED <<waiting, runner, counts>>

(* What a task has to wait for when it is dispatched: the conflicting ones  *)
(* of these kinds, running or with a job.                                   *)
Rivals(t) ==
  IF KindOf[t] = "sync" THEN Ordinary ELSE OfKind({"sync", "listing", "title", "upload"})

(* It asks Redis for jobs and chooses.  A set it may choose: each task      *)
(* fits beside the active tasks and the others.                             *)
Chosen(seen, S) ==
  LET active == {t \in Ids : seen[t] = "running" \/ (seen[t] = "queued" /\ HasActiveJob(t))}
      busy == active \cap OfKind({"sync"})
      mine == S \cap OfKind({"sync"})
  IN /\ S \subseteq In(seen, Ordinary, "queued") \ active
     /\ Cardinality(busy \cup mine) <= GlobalMax \/ mine = {}
     /\ \A t \in mine :
          Cardinality({u \in busy \cup mine : UserOf[u] = UserOf[t]}) <= UserMax
     /\ \A t \in S : Clash[t] \cap Rivals(t) \cap (active \cup S) = {}

(* A task the dispatcher skips stays for the next one.  Each kind has a     *)
(* dispatcher of its own.                                                   *)
Choose(d) ==
  /\ thread[d].pc = "choose"
  /\ \E kind \in {"sync", "listing"} : \E S \in SUBSET OfKind({kind}) :
       /\ Chosen(thread[d].seen, S)
       /\ thread' = [thread EXCEPT ![d] = IF S = {} THEN Rest
                       ELSE [Rest EXCEPT !.pc = "enqueue", !.todo = S]]
  /\ UNCHANGED <<sync, waiting, runner, counts>>

(* reconcile_missing_queued_tasks: a queued task Redis knows nothing of is  *)
(* enqueued, whatever the limits and conflicts.                             *)
Sweep(d) ==
  /\ thread[d].pc = "idle"
  /\ \E S \in SUBSET {t \in Ids : sync[t] = "queued" /\ ~HasActiveJob(t)} :
       /\ S # {}
       /\ thread' = [thread EXCEPT ![d] = [Rest EXCEPT !.pc = "enqueue", !.todo = S]]
  /\ UNCHANGED <<sync, waiting, runner, counts>>

Enqueue(d) ==
  /\ thread[d].pc = "enqueue"
  /\ \E t \in thread[d].todo :
       /\ waiting[t] < MaxJobs
       /\ waiting' = [waiting EXCEPT ![t] = @ + 1]
       /\ thread' = [thread EXCEPT ![d] = IF @.todo = {t} THEN Rest
                                          ELSE [@ EXCEPT !.todo = thread[d].todo \ {t}]]
  /\ UNCHANGED <<sync, runner, counts>>

(* mark_background_task_dispatch_failed, which asks for no status; the      *)
(* others are left to another dispatcher.                                   *)
EnqueueFails(d) ==
  /\ thread[d].pc = "enqueue" /\ mishaps < MaxMishaps
  /\ mishaps' = mishaps + 1
  /\ \E t \in thread[d].todo :
       /\ LateEnqueues \/ (sync[t] = "queued" /\ ~HasActiveJob(t))
       /\ sync' = IF sync[t] = "deleted" THEN sync ELSE [sync EXCEPT ![t] = "failed"]
  /\ thread' = [thread EXCEPT ![d] = Rest]
  /\ UNCHANGED <<waiting, runner, again>>

-----------------------------------------------------------------------------
(***************************************************************************)
(* run_sync_task and run_listing_task.                                     *)
(***************************************************************************)

Take(w) ==
  /\ runner[w] = Free
  /\ \E t \in Ids :
       /\ waiting[t] > 0
       /\ waiting' = [waiting EXCEPT ![t] = @ - 1]
       /\ runner' = [runner EXCEPT ![w] = [Free EXCEPT !.id = t, !.pc = "take"]]
  /\ UNCHANGED <<sync, thread, counts>>

(* Tasks that are alike check each other with a locking read. *)
MayOverlap(t, u) == ~SerialStarts \/ u \in Alike[t]
StartableAnyway(t) == sync[t] # "deleted"
Startable(t) == sync[t] = "queued"

(* The first transaction reads the rows, ... *)
ReadStart(w) ==
  /\ runner[w].pc = "take"
  /\ LET t == runner[w].id IN
     /\ \A v \in SyncWorkers \ {w} : runner[v].pc = "fit" => MayOverlap(t, runner[v].id)
     /\ IF Startable(t)
        THEN /\ runner' = [runner EXCEPT ![w].pc = "fit", ![w].seen = sync]
             /\ \E dead \in SUBSET (IF t \in Ordinary THEN Dead ELSE {}) :
                  sync' = Reconciled(dead)
        ELSE runner' = [runner EXCEPT ![w] = Free] /\ sync' = sync
  /\ UNCHANGED <<waiting, thread, counts>>

(* sync_task_start_wait_reason, listing_task_start_wait_reason: of the      *)
(* special tasks a sync task only counts those of its user.                 *)
FitsAnywhere(seen, t) == TRUE
Fits(seen, t) ==
  LET running == In(seen, Ids \ {t}, "running") IN
  /\ Clash[t] \cap Rivals(t) \cap running = {}
  /\ KindOf[t] = "sync" =>
       /\ Cardinality(running \cap OfKind({"sync"})) < GlobalMax
       /\ Cardinality({u \in running : UserOf[u] = UserOf[t] /\ KindOf[u] # "listing"}) < UserMax

(* specialized_sync_task_wait_reason: the tasks alike are read FOR UPDATE,  *)
(* the others from the snapshot.                                            *)
Alone(seen, t) == In(sync, Alike[t], "running") = {}
Undisturbed(seen, t) ==
  t \in Scoped =>
    Clash[t] \cap (In(seen, OfKind({"sync", "title", "upload", "listing"}), "running")
                   \cup In(seen, OfKind({"listing"}), "queued")) = {}

MayStart(seen, t) ==
  IF t \in Ordinary THEN Fits(seen, t) ELSE Alone(seen, t) /\ Undisturbed(seen, t)

(* ... and writes "running".  The row is written by its key, whatever its  *)
(* status is by now. *)
StartSync(w) ==
  /\ runner[w].pc = "fit"
  /\ MayStart(runner[w].seen, runner[w].id)
  /\ sync' = [sync EXCEPT ![runner[w].id] = IF @ = "deleted" THEN @ ELSE "running"]
  /\ runner' = [runner EXCEPT ![w].pc = "work", ![w].seen = Unread]
  /\ UNCHANGED <<waiting, thread, counts>>

(* A special task is enqueued again, with a delay; an ordinary one is left  *)
(* to the dispatchers.  A task may also have to wait for its own capacity   *)
(* (listing).                                                               *)
Defer(w) ==
  /\ runner[w].pc = "fit"
  /\ LET t == runner[w].id IN
     /\ KindOf[t] # "listing" => ~MayStart(runner[w].seen, t)
     /\ t \in Special => waiting[t] < MaxJobs
     /\ waiting' = IF t \in Special THEN [waiting EXCEPT ![t] = @ + 1] ELSE waiting
  /\ runner' = [runner EXCEPT ![w] = Free]
  /\ UNCHANGED <<sync, thread, counts>>

(* The last transaction.  A task cancelled under its worker stays so.       *)
EndSync(w) ==
  /\ runner[w].pc = "work"
  /\ \E result \in {"done", "failed", "cancelled"} :
       sync' = [sync EXCEPT ![runner[w].id] =
                  IF @ \in {"deleted", "cancelled"} THEN @ ELSE result]
  /\ runner' = [runner EXCEPT ![w] = Free]
  /\ UNCHANGED <<waiting, thread, counts>>

(* A work-horse dies, Redis loses a job, an API process dies. *)
Mishap ==
  /\ mishaps < MaxMishaps
  /\ mishaps' = mishaps + 1
  /\ \/ /\ \E w \in SyncWorkers : runner[w] # Free /\ runner' = [runner EXCEPT ![w] = Free]
        /\ UNCHANGED <<waiting, thread>>
     \/ /\ \E t \in Ids : waiting[t] > 0 /\ waiting' = [waiting EXCEPT ![t] = @ - 1]
        /\ UNCHANGED <<runner, thread>>
     \/ /\ \E d \in Threads : thread[d] # Rest /\ thread' = [thread EXCEPT ![d] = Rest]
        /\ UNCHANGED <<runner, waiting>>
  /\ UNCHANGED <<sync, again>>

-----------------------------------------------------------------------------
Init ==
  /\ sync = [t \in Ids |-> "new"]
  /\ waiting = [t \in Ids |-> 0]
  /\ runner = [w \in SyncWorkers |-> Free]
  /\ thread = [d \in Threads |-> Rest]
  /\ again = 0 /\ mishaps = 0

Next ==
  \/ \E t \in Ids : CancelSync(t) \/ DeleteSync(t)
  \/ \E d \in Threads :
       \/ \E t \in Ids : CreateSync(d, t) \/ RetrySync(d, t)
       \/ ReadQueue(d) \/ Choose(d) \/ Sweep(d) \/ Enqueue(d) \/ EnqueueFails(d)
  \/ \E w \in SyncWorkers : Take(w) \/ ReadStart(w) \/ StartSync(w) \/ Defer(w) \/ EndSync(w)
  \/ Mishap

Spec == Init /\ [][Next]_syncVars

-----------------------------------------------------------------------------
(* Properties. *)

(* Every variable holds values of its kind. *)
SyncTypeOK ==
  /\ sync \in Rows
  /\ waiting \in [Ids -> 0..MaxJobs]
  /\ runner \in [SyncWorkers -> [id : Ids \cup {NoId}, pc : {"idle", "take", "fit", "work"},
                                 seen : Rows]]
  /\ thread \in [Threads -> [pc : {"idle", "choose", "enqueue"}, seen : Rows,
                             todo : SUBSET Ids]]
  /\ again \in 0..MaxAgain /\ mishaps \in 0..MaxMishaps

(* run_sync_task: the running sync tasks keep to their limits, and tasks    *)
(* recorded as running that wait for each other when their scopes conflict  *)
(* (both sync or listing, or both listing, title or upload) are apart;      *)
(* although the dispatchers take no lock, and lost tasks are enqueued       *)
(* without regard to the others.  A sync task does not ask for title and    *)
(* upload tasks, and may start beside them.                                 *)
RunningApart ==
  LET running == In(sync, Ids, "running")
      some == running \cap OfKind({"sync"})
  IN /\ Cardinality(some) <= GlobalMax
     /\ \A u \in {UserOf[t] : t \in Ids} :
          Cardinality({t \in some : UserOf[t] = u}) <= UserMax
     /\ \A t, u \in running : u \in Rivals(t) /\ t \in Rivals(u) => u \notin Clash[t]

(* specialized_sync_task_wait_reason: of the title tasks of a user, and of  *)
(* the cleanups of a store, one is running at most, although their starts   *)
(* overlap and each was enqueued on its own.                                *)
OneSpecial ==
  \A t \in In(sync, Special, "running") : In(sync, Alike[t], "running") = {}

(* run_sync_task: a task that exists is worked on by one worker at most,    *)
(* although it may have been enqueued by several dispatchers, the sweep and *)
(* a retry.                                                                 *)
OneRunner == \A t \in Ids : sync[t] # "deleted" => Cardinality(WorkedOn(t)) <= 1

TasksApart == RunningApart /\ OneSpecial /\ OneRunner
=============================================================================
