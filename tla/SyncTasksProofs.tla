-------------------------- MODULE SyncTasksProofs --------------------------
(***************************************************************************)
(* Proofs about SyncTasks, for every set of tasks, workers and threads,    *)
(* every limit and all conflicts: a task has one worker, and what runs     *)
(* fits together.                                                          *)
(***************************************************************************)
EXTENDS SyncTasks, FiniteSetTheorems, TLAPS

-----------------------------------------------------------------------------
(* The types. *)

RunnerRows == [id : Ids \cup {NoId}, pc : {"idle", "take", "fit", "work"}, seen : Rows]
ThreadRows == [pc : {"idle", "choose", "enqueue"}, seen : Rows, todo : SUBSET Ids]

(* A worker that is not idle has a task. *)
HasTask == \A w \in SyncWorkers : runner[w].pc # "idle" => runner[w].id \in Ids

TypedInv == SyncTypeOK /\ HasTask

LEMMA RowTypes == Unread \in Rows /\ Free \in RunnerRows /\ Rest \in ThreadRows
  BY DEF Unread, Rows, SyncStatuses, Free, Rest, RunnerRows, ThreadRows

(* The rows a reconciliation leaves. *)
LEMMA ReconciledRows ==
  ASSUME SyncTypeOK, NEW dead \in SUBSET Dead
  PROVE  /\ Reconciled(dead) \in Rows
         /\ \A t \in Ids :
              Reconciled(dead)[t] # sync[t] => sync[t] = "running" /\ Reconciled(dead)[t] = "failed"
                                              /\ ~HasActiveJob(t)
  BY DEF Reconciled, Dead, SyncTypeOK, Rows, SyncStatuses

LEMMA InitTyped ==
  ASSUME SyncConstants
  PROVE  Init => TypedInv
<1> SUFFICES ASSUME Init PROVE TypedInv
  OBVIOUS
<1>1. sync \in Rows
  BY DEF Init, Rows, SyncStatuses
<1>2. waiting \in [Ids -> 0..MaxJobs] /\ again \in 0..MaxAgain /\ mishaps \in 0..MaxMishaps
  BY DEF Init, SyncConstants
<1>3. runner \in [SyncWorkers -> RunnerRows] /\ thread \in [Threads -> ThreadRows]
  BY RowTypes DEF Init
<1>4. HasTask
  BY DEF Init, HasTask, Free
<1>5. QED
  BY <1>1, <1>2, <1>3, <1>4 DEF TypedInv, SyncTypeOK, RunnerRows, ThreadRows

(* A request queues a task; a special one is to be enqueued. *)
LEMMA QueueTyped ==
  ASSUME TypedInv, NEW d \in Threads, NEW t \in Ids, Queue(d, t)
  PROVE  sync' \in Rows /\ thread' \in [Threads -> ThreadRows]
<1>1. sync' \in Rows
  BY DEF TypedInv, SyncTypeOK, Queue, Rows, SyncStatuses
<1>2. [Rest EXCEPT !.pc = "enqueue", !.todo = {t}] \in ThreadRows
  BY RowTypes DEF Rest, ThreadRows
<1>3. thread' \in [Threads -> ThreadRows]
  BY <1>2 DEF TypedInv, SyncTypeOK, Queue, ThreadRows
<1>4. QED
  BY <1>1, <1>3

(* Every action keeps the types. *)
LEMMA TypedStep ==
  ASSUME SyncConstants, TypedInv, [Next]_syncVars
  PROVE  TypedInv'
<1> USE DEF TypedInv
<1> SUFFICES /\ sync' \in Rows
             /\ waiting' \in [Ids -> 0..MaxJobs]
             /\ runner' \in [SyncWorkers -> RunnerRows]
             /\ thread' \in [Threads -> ThreadRows]
             /\ again' \in 0..MaxAgain /\ mishaps' \in 0..MaxMishaps
             /\ HasTask'
  BY DEF SyncTypeOK, RunnerRows, ThreadRows
<1>a. /\ sync \in Rows /\ waiting \in [Ids -> 0..MaxJobs]
      /\ runner \in [SyncWorkers -> RunnerRows] /\ thread \in [Threads -> ThreadRows]
      /\ again \in 0..MaxAgain /\ mishaps \in 0..MaxMishaps
  BY DEF SyncTypeOK, RunnerRows, ThreadRows
<1>b. /\ MaxJobs \in Nat /\ MaxAgain \in Nat /\ MaxMishaps \in Nat
  BY DEF SyncConstants
<1>1. ASSUME NEW t \in Ids, CancelSync(t) \/ DeleteSync(t)
      PROVE  sync' \in Rows /\ UNCHANGED <<waiting, runner, thread, again, mishaps>>
  BY <1>1, <1>a DEF CancelSync, DeleteSync, Rows, SyncStatuses, counts
<1>2. ASSUME NEW d \in Threads, NEW t \in Ids, CreateSync(d, t)
      PROVE  /\ sync' \in Rows /\ thread' \in [Threads -> ThreadRows]
             /\ UNCHANGED <<waiting, runner, again, mishaps>>
  BY <1>2, QueueTyped DEF CreateSync, Queue
<1>3. ASSUME NEW d \in Threads, NEW t \in Ids, RetrySync(d, t)
      PROVE  /\ sync' \in Rows /\ thread' \in [Threads -> ThreadRows]
             /\ again' \in 0..MaxAgain /\ UNCHANGED <<waiting, runner, mishaps>>
  <2>1. again' \in 0..MaxAgain
    BY <1>3, <1>a, <1>b DEF RetrySync
  <2>2. QED
    BY <2>1, <1>3, QueueTyped DEF RetrySync, Queue
<1>4. ASSUME NEW d \in Threads, ReadQueue(d)
      PROVE  /\ sync' \in Rows /\ thread' \in [Threads -> ThreadRows]
             /\ UNCHANGED <<waiting, runner, again, mishaps>>
  <2>1. [Rest EXCEPT !.pc = "choose", !.seen = sync] \in ThreadRows
    BY <1>a, RowTypes DEF Rest, ThreadRows
  <2>2. QED
    BY <2>1, <1>4, <1>a, ReconciledRows DEF ReadQueue, counts
<1>5. ASSUME NEW d \in Threads, Choose(d) \/ Sweep(d)
      PROVE  /\ thread' \in [Threads -> ThreadRows]
             /\ UNCHANGED <<sync, waiting, runner, again, mishaps>>
  <2>1. ASSUME NEW S \in SUBSET Ids
        PROVE  [Rest EXCEPT !.pc = "enqueue", !.todo = S] \in ThreadRows
    BY RowTypes DEF Rest, ThreadRows
  <2>2. CASE Choose(d)
    <3>1. PICK kind \in {"sync", "listing"}, S \in SUBSET Ids :
            thread' = [thread EXCEPT ![d] = IF S = {} THEN Rest
                         ELSE [Rest EXCEPT !.pc = "enqueue", !.todo = S]]
      BY <2>2 DEF Choose, OfKind
    <3>2. QED
      BY <3>1, <2>1, <2>2, <1>a, RowTypes DEF Choose, counts
  <2>3. CASE Sweep(d)
    <3>1. PICK S \in SUBSET Ids :
            thread' = [thread EXCEPT ![d] = [Rest EXCEPT !.pc = "enqueue", !.todo = S]]
      BY <2>3 DEF Sweep
    <3>2. QED
      BY <3>1, <2>1, <2>3, <1>a DEF Sweep, counts
  <2>4. QED
    BY <2>2, <2>3, <1>5
<1>6. ASSUME NEW d \in Threads, Enqueue(d)
      PROVE  /\ waiting' \in [Ids -> 0..MaxJobs] /\ thread' \in [Threads -> ThreadRows]
             /\ UNCHANGED <<sync, runner, again, mishaps>>
  <2>1. PICK t \in thread[d].todo :
          /\ waiting[t] < MaxJobs
          /\ waiting' = [waiting EXCEPT ![t] = @ + 1]
          /\ thread' = [thread EXCEPT ![d] = IF @.todo = {t} THEN Rest
                                             ELSE [@ EXCEPT !.todo = thread[d].todo \ {t}]]
    BY <1>6 DEF Enqueue
  <2>2. thread[d] \in ThreadRows /\ t \in Ids
    BY <1>a, <2>1 DEF ThreadRows
  <2>3. [thread[d] EXCEPT !.todo = thread[d].todo \ {t}] \in ThreadRows
    BY <2>2 DEF ThreadRows
  <2>4. waiting' \in [Ids -> 0..MaxJobs]
    BY <2>1, <2>2, <1>a, <1>b
  <2>5. QED
    BY <2>1, <2>2, <2>3, <2>4, <1>a, <1>6, RowTypes DEF Enqueue, counts
<1>7. ASSUME NEW d \in Threads, EnqueueFails(d)
      PROVE  /\ sync' \in Rows /\ thread' \in [Threads -> ThreadRows]
             /\ mishaps' \in 0..MaxMishaps /\ UNCHANGED <<waiting, runner, again>>
  <2>1. mishaps' \in 0..MaxMishaps
    BY <1>7, <1>a, <1>b DEF EnqueueFails
  <2>2. sync' \in Rows
    BY <1>7, <1>a DEF EnqueueFails, Rows, SyncStatuses
  <2>3. QED
    BY <2>1, <2>2, <1>7, <1>a, RowTypes DEF EnqueueFails
<1>8. ASSUME NEW w \in SyncWorkers, Take(w)
      PROVE  /\ waiting' \in [Ids -> 0..MaxJobs] /\ runner' \in [SyncWorkers -> RunnerRows]
             /\ HasTask' /\ UNCHANGED <<sync, thread, again, mishaps>>
  <2>1. PICK t \in Ids :
          /\ waiting[t] > 0
          /\ waiting' = [waiting EXCEPT ![t] = @ - 1]
          /\ runner' = [runner EXCEPT ![w] = [Free EXCEPT !.id = t, !.pc = "take"]]
    BY <1>8 DEF Take
  <2>2. /\ [Free EXCEPT !.id = t, !.pc = "take"] \in RunnerRows
        /\ [Free EXCEPT !.id = t, !.pc = "take"].id = t
    BY RowTypes DEF Free, RunnerRows
  <2>3. waiting' \in [Ids -> 0..MaxJobs]
    BY <2>1, <1>a, <1>b
  <2>4. runner' \in [SyncWorkers -> RunnerRows] /\ HasTask'
    BY <2>1, <2>2, <1>a DEF HasTask
  <2>5. QED
    BY <2>3, <2>4, <1>8 DEF Take, counts
<1>9. ASSUME NEW w \in SyncWorkers, ReadStart(w)
      PROVE  /\ sync' \in Rows /\ runner' \in [SyncWorkers -> RunnerRows]
             /\ HasTask' /\ UNCHANGED <<waiting, thread, again, mishaps>>
  <2>1. runner[w] \in RunnerRows /\ runner[w].pc = "take" /\ runner[w].id \in Ids
    BY <1>a, <1>9 DEF ReadStart, HasTask
  <2>2. /\ [[runner[w] EXCEPT !.pc = "fit"] EXCEPT !.seen = sync] \in RunnerRows
        /\ [[runner[w] EXCEPT !.pc = "fit"] EXCEPT !.seen = sync].id = runner[w].id
    BY <2>1, <1>a DEF RunnerRows
  <2>3. CASE runner' = [runner EXCEPT ![w].pc = "fit", ![w].seen = sync]
    <3>1. runner' = [runner EXCEPT ![w] = [[runner[w] EXCEPT !.pc = "fit"] EXCEPT !.seen = sync]]
      BY <2>3, <1>a
    <3>2. sync' \in Rows
      BY <1>9, <1>a, ReconciledRows DEF ReadStart
    <3>3. QED
      BY <3>1, <3>2, <2>1, <2>2, <1>a, <1>9 DEF ReadStart, HasTask, counts
  <2>4. CASE runner' = [runner EXCEPT ![w] = Free] /\ sync' = sync
    BY <2>4, <1>a, <1>9, RowTypes DEF ReadStart, HasTask, Free, counts
  <2>5. QED
    BY <2>3, <2>4, <1>9 DEF ReadStart
<1>10. ASSUME NEW w \in SyncWorkers, StartSync(w)
       PROVE  /\ sync' \in Rows /\ runner' \in [SyncWorkers -> RunnerRows]
              /\ HasTask' /\ UNCHANGED <<waiting, thread, again, mishaps>>
  <2>1. runner[w] \in RunnerRows /\ runner[w].pc = "fit" /\ runner[w].id \in Ids
    BY <1>a, <1>10 DEF StartSync, HasTask
  <2>2. /\ [[runner[w] EXCEPT !.pc = "work"] EXCEPT !.seen = Unread] \in RunnerRows
        /\ [[runner[w] EXCEPT !.pc = "work"] EXCEPT !.seen = Unread].id = runner[w].id
    BY <2>1, RowTypes DEF RunnerRows
  <2>3. runner' = [runner EXCEPT ![w] = [[runner[w] EXCEPT !.pc = "work"] EXCEPT !.seen = Unread]]
    BY <1>10, <1>a DEF StartSync
  <2>4. sync' \in Rows
    BY <2>1, <1>a, <1>10 DEF StartSync, Rows, SyncStatuses
  <2>5. QED
    BY <2>1, <2>2, <2>3, <2>4, <1>a, <1>10 DEF StartSync, HasTask, counts
<1>11. ASSUME NEW w \in SyncWorkers, Defer(w)
       PROVE  /\ waiting' \in [Ids -> 0..MaxJobs] /\ runner' \in [SyncWorkers -> RunnerRows]
              /\ HasTask' /\ UNCHANGED <<sync, thread, again, mishaps>>
  <2>1. runner[w].id \in Ids
    BY <1>11 DEF Defer, HasTask
  <2>2. waiting' \in [Ids -> 0..MaxJobs]
    BY <2>1, <1>11, <1>a, <1>b DEF Defer
  <2>3. QED
    BY <2>2, <1>a, <1>11, RowTypes DEF Defer, HasTask, Free, counts
<1>12. ASSUME NEW w \in SyncWorkers, EndSync(w)
       PROVE  /\ sync' \in Rows /\ runner' \in [SyncWorkers -> RunnerRows]
              /\ HasTask' /\ UNCHANGED <<waiting, thread, again, mishaps>>
  <2>1. runner[w].id \in Ids
    BY <1>12 DEF EndSync, HasTask
  <2>2. sync' \in Rows
    BY <2>1, <1>12, <1>a DEF EndSync, Rows, SyncStatuses
  <2>3. QED
    BY <2>2, <1>a, <1>12, RowTypes DEF EndSync, HasTask, Free, counts
<1>13. ASSUME Mishap
       PROVE  /\ waiting' \in [Ids -> 0..MaxJobs] /\ runner' \in [SyncWorkers -> RunnerRows]
              /\ thread' \in [Threads -> ThreadRows] /\ mishaps' \in 0..MaxMishaps
              /\ HasTask' /\ UNCHANGED <<sync, again>>
  <2>1. mishaps' \in 0..MaxMishaps /\ UNCHANGED <<sync, again>>
    BY <1>13, <1>a, <1>b DEF Mishap
  <2>2. CASE \E w \in SyncWorkers : runner' = [runner EXCEPT ![w] = Free] /\ UNCHANGED <<waiting, thread>>
    BY <2>1, <2>2, <1>a, RowTypes DEF HasTask, Free
  <2>3. CASE \E t \in Ids : /\ waiting[t] > 0 /\ waiting' = [waiting EXCEPT ![t] = @ - 1]
                            /\ UNCHANGED <<runner, thread>>
    <3>1. waiting' \in [Ids -> 0..MaxJobs]
      BY <2>3, <1>a, <1>b
    <3>2. QED
      BY <2>1, <2>3, <3>1, <1>a DEF HasTask
  <2>4. CASE \E d \in Threads : thread' = [thread EXCEPT ![d] = Rest] /\ UNCHANGED <<runner, waiting>>
    BY <2>1, <2>4, <1>a, RowTypes DEF HasTask
  <2>5. QED
    BY <1>13, <2>2, <2>3, <2>4 DEF Mishap
<1>14. CASE UNCHANGED syncVars
  BY <1>14, <1>a DEF syncVars, HasTask
<1>15. HasTask /\ (UNCHANGED runner => HasTask')
  BY DEF HasTask
<1>16. QED
  BY <1>1, <1>2, <1>3, <1>4, <1>5, <1>6, <1>7, <1>8, <1>9, <1>10, <1>11, <1>12, <1>13, <1>14, <1>15, <1>a
     DEF Next

(* The variables of a process have their types at every time. *)
THEOREM SyncTyping ==
  ASSUME SyncConstants
  PROVE  Spec => []SyncTypeOK
<1>1. TypedInv => SyncTypeOK
  BY DEF TypedInv
<1>2. TypedInv /\ [Next]_syncVars => TypedInv'
  BY TypedStep
<1>3. QED
  BY <1>1, <1>2, InitTyped, PTL DEF Spec

-----------------------------------------------------------------------------
(***************************************************************************)
(* Workers and rows.  A worker decides to start a task from rows it has    *)
(* read earlier; the decision stays good, since between the reading and    *)
(* the writing only tasks alike may start, which it reads again.           *)
(***************************************************************************)

(* A worker about to start a task: the task is not running, the running     *)
(* tasks but those alike ran when it read them, and whoever else is about   *)
(* to start a task starts one that is alike.                                *)
StartsOne ==
  \A w \in SyncWorkers : runner[w].pc = "fit" =>
    /\ sync[runner[w].id] \in {"queued", "cancelled", "deleted"}
    /\ \A u \in Ids \ Alike[runner[w].id] : sync[u] = "running" => runner[w].seen[u] = "running"
    /\ \A v \in SyncWorkers \ {w} : runner[v].pc = "fit" => runner[v].id \in Alike[runner[w].id]

(* A task that is worked on is recorded as running, or its row is gone. *)
WorkRecorded ==
  \A w \in SyncWorkers : runner[w].pc = "work" => sync[runner[w].id] \in {"running", "deleted"}

(* No two workers work on a task that has a row. *)
WorkedOnce ==
  \A v, w \in SyncWorkers :
    /\ runner[v].pc = "work" /\ runner[w].pc = "work"
    /\ runner[v].id = runner[w].id /\ sync[runner[w].id] # "deleted"
    => v = w

StartInv == StartsOne /\ WorkRecorded /\ WorkedOnce /\ RunningApart /\ OneSpecial

(* What a step leaves: no task begins to run, no row returns, no worker      *)
(* reaches its decision or its work, and none loses what it relies on.       *)
Quiet ==
  /\ \A t \in Ids : sync'[t] = "running" => sync[t] = "running"
  /\ \A t \in Ids : sync[t] = "deleted" => sync'[t] = "deleted"
  /\ \A w \in SyncWorkers : runner'[w].pc \in {"fit", "work"} => runner'[w] = runner[w]
  /\ \A w \in SyncWorkers : runner'[w].pc = "fit" =>
       sync'[runner[w].id] \in {"queued", "cancelled", "deleted"}
  /\ \A w \in SyncWorkers : runner'[w].pc = "work" =>
       sync'[runner[w].id] \in {"running", "deleted"}

RunningOf(rows) == {t \in Ids : rows[t] = "running"}
SyncsIn(S) == {t \in S : KindOf[t] = "sync"}
OwnedIn(S, u) == {t \in SyncsIn(S) : UserOf[t] = u}

(* RunningApart, part by part. *)
LEMMA ApartParts ==
  RunningApart <=>
    /\ Cardinality(SyncsIn(RunningOf(sync))) <= GlobalMax
    /\ \A u \in {UserOf[t] : t \in Ids} : Cardinality(OwnedIn(RunningOf(sync), u)) <= UserMax
    /\ \A t, u \in RunningOf(sync) : u \in Rivals(t) /\ t \in Rivals(u) => u \notin Clash[t]
<1>1. RunningOf(sync) = In(sync, Ids, "running")
  BY DEF RunningOf, In
<1>2. SyncsIn(RunningOf(sync)) = RunningOf(sync) \cap OfKind({"sync"})
  BY DEF SyncsIn, RunningOf, OfKind
<1>3. QED
  BY <1>1, <1>2 DEF RunningApart, OwnedIn

(* Fewer running tasks fit as well. *)
LEMMA FewerApart ==
  ASSUME SyncConstants, RunningApart, OneSpecial, RunningOf(sync') \subseteq RunningOf(sync)
  PROVE  RunningApart' /\ OneSpecial'
<1> DEFINE R == RunningOf(sync)
           Q == RunningOf(sync')
<1>1. IsFiniteSet(R)
  BY FS_Subset DEF SyncConstants, RunningOf
<1>2. /\ IsFiniteSet(SyncsIn(R)) /\ SyncsIn(Q) \subseteq SyncsIn(R)
  BY <1>1, FS_Subset DEF SyncsIn
<1>3. Cardinality(SyncsIn(Q)) <= GlobalMax
  BY <1>2, FS_Subset, FS_CardinalityType, ApartParts DEF SyncConstants
<1>4. ASSUME NEW u \in {UserOf[t] : t \in Ids}
      PROVE  Cardinality(OwnedIn(Q, u)) <= UserMax
  <2>1. IsFiniteSet(OwnedIn(R, u)) /\ OwnedIn(Q, u) \subseteq OwnedIn(R, u)
    BY <1>2, FS_Subset DEF OwnedIn
  <2>2. QED
    BY <2>1, FS_Subset, FS_CardinalityType, ApartParts DEF SyncConstants
<1>5. \A t, u \in Q : u \in Rivals(t) /\ t \in Rivals(u) => u \notin Clash[t]
  BY ApartParts
<1>6. RunningApart'
  <2>1. In(sync', Ids, "running") = Q
    BY DEF RunningOf, In
  <2>2. SyncsIn(Q) = Q \cap OfKind({"sync"})
    BY DEF SyncsIn, RunningOf, OfKind
  <2>3. QED
    BY <1>3, <1>4, <1>5, <2>1, <2>2 DEF RunningApart, OwnedIn
<1>7. OneSpecial'
  <2>1. \A t \in Ids : Alike[t] \subseteq Ids
    BY DEF SyncConstants
  <2>2. QED
    BY <2>1 DEF OneSpecial, In, RunningOf, Special
<1>8. QED
  BY <1>6, <1>7

LEMMA QuietStep ==
  ASSUME SyncConstants, TypedInv, StartInv, Quiet
  PROVE  StartInv'
<1>1. RunningApart' /\ OneSpecial'
  BY FewerApart DEF Quiet, StartInv, RunningOf
<1>2. StartsOne'
  BY DEF Quiet, StartInv, StartsOne
<1>3. WorkRecorded'
  BY DEF Quiet, StartInv, WorkRecorded
<1>4. WorkedOnce'
  BY DEF Quiet, StartInv, WorkedOnce, TypedInv, HasTask
<1>5. QED
  BY <1>1, <1>2, <1>3, <1>4 DEF StartInv

(* Runners that are as they were rely on what they relied on. *)
LEMMA SameRunners ==
  ASSUME TypedInv, StartInv, UNCHANGED runner,
         \A t \in Ids : sync'[t] = "running" => sync[t] = "running",
         \A t \in Ids : sync[t] = "deleted" => sync'[t] = "deleted",
         \A t \in Ids : sync[t] \in {"queued", "cancelled"} /\ Handled(t) # {} =>
                        sync'[t] \in {"queued", "cancelled", "deleted"},
         \A t \in Ids : sync[t] = "running" /\ Handled(t) # {} => sync'[t] \in {"running", "deleted"}
  PROVE  Quiet
<1>1. ASSUME NEW w \in SyncWorkers, runner[w].pc # "idle"
      PROVE  runner[w].id \in Ids /\ Handled(runner[w].id) # {}
  BY <1>1 DEF TypedInv, HasTask, Handled
<1>2. ASSUME NEW w \in SyncWorkers, runner[w].pc = "fit"
      PROVE  sync'[runner[w].id] \in {"queued", "cancelled", "deleted"}
  BY <1>1, <1>2 DEF StartInv, StartsOne
<1>3. ASSUME NEW w \in SyncWorkers, runner[w].pc = "work"
      PROVE  sync'[runner[w].id] \in {"running", "deleted"}
  BY <1>1, <1>3 DEF StartInv, WorkRecorded
<1>4. QED
  BY <1>2, <1>3 DEF Quiet

(* A worker that lets its task go. *)
LEMMA Released ==
  ASSUME TypedInv, StartInv, NEW w \in SyncWorkers, runner' = [runner EXCEPT ![w] = Free],
         \A t \in Ids : sync'[t] = "running" => sync[t] = "running",
         \A t \in Ids : sync'[t] # sync[t] => t = runner[w].id /\ runner[w].pc = "work",
         \A t \in Ids : sync[t] = "deleted" => sync'[t] = "deleted"
  PROVE  Quiet
<1>1. /\ runner'[w].pc = "idle"
      /\ \A v \in SyncWorkers \ {w} : runner'[v] = runner[v]
  BY DEF TypedInv, SyncTypeOK, Free
<1>2. ASSUME NEW v \in SyncWorkers \ {w}, runner[v].pc \in {"fit", "work"},
             sync'[runner[v].id] # sync[runner[v].id]
      PROVE  FALSE
  <2>1. runner[v].id \in Ids /\ runner[v].id = runner[w].id /\ runner[w].pc = "work"
    BY <1>2 DEF TypedInv, HasTask
  <2>2. sync[runner[w].id] \in {"running", "deleted"}
    BY <2>1 DEF StartInv, WorkRecorded
  <2>3. sync[runner[v].id] # "deleted"
    BY <1>2, <2>1
  <2>4. QED
    BY <1>2, <2>1, <2>2, <2>3 DEF StartInv, StartsOne, WorkedOnce
<1>3. QED
  BY <1>1, <1>2 DEF Quiet, StartInv, StartsOne, WorkRecorded

(* The steps of requests, dispatchers and the sweep start nothing. *)
LEMMA RequestQuiet ==
  ASSUME SyncConstants, TypedInv, StartInv, NEW t \in Ids,
         \/ CancelSync(t) \/ DeleteSync(t)
         \/ \E d \in Threads : CreateSync(d, t) \/ RetrySync(d, t)
  PROVE  Quiet
<1>1. /\ UNCHANGED runner
      /\ \/ sync[t] = "queued" /\ sync' = [sync EXCEPT ![t] = "cancelled"]
         \/ sync' = [sync EXCEPT ![t] = "deleted"]
         \/ sync[t] \in {"new", "failed", "cancelled"} /\ sync' = [sync EXCEPT ![t] = "queued"]
  BY DEF CancelSync, DeleteSync, CreateSync, RetrySync, Queue
<1>2. QED
  BY <1>1, SameRunners DEF TypedInv, SyncTypeOK, Rows

LEMMA ThreadQuiet ==
  ASSUME SyncConstants, LateEnqueues = FALSE, TypedInv, StartInv, NEW d \in Threads,
         ReadQueue(d) \/ Choose(d) \/ Sweep(d) \/ Enqueue(d) \/ EnqueueFails(d)
  PROVE  Quiet
<1>1. CASE ReadQueue(d)
  <2>1. PICK dead \in SUBSET Dead : sync' = Reconciled(dead)
    BY <1>1 DEF ReadQueue
  <2>2. UNCHANGED runner
    BY <1>1 DEF ReadQueue
  <2>3. \A t \in Ids : sync'[t] # sync[t] => sync[t] = "running" /\ sync'[t] = "failed" /\ Handled(t) = {}
    BY <2>1, ReconciledRows DEF TypedInv, HasActiveJob
  <2>4. QED
    BY <2>2, <2>3, SameRunners
<1>2. CASE Choose(d) \/ Sweep(d) \/ Enqueue(d)
  BY <1>2, SameRunners DEF Choose, Sweep, Enqueue
<1>3. CASE EnqueueFails(d)
  <2>1. PICK t \in thread[d].todo :
          /\ sync[t] = "queued" /\ ~HasActiveJob(t)
          /\ sync' = IF sync[t] = "deleted" THEN sync ELSE [sync EXCEPT ![t] = "failed"]
    BY <1>3 DEF EnqueueFails
  <2>2. UNCHANGED runner /\ Handled(t) = {}
    BY <1>3, <2>1 DEF EnqueueFails, HasActiveJob
  <2>3. QED
    BY <2>1, <2>2, SameRunners DEF TypedInv, SyncTypeOK, Rows
<1>4. QED
  BY <1>1, <1>2, <1>3

(* So do taking a job, letting a task go, and the end of one. *)
LEMMA WorkerQuiet ==
  ASSUME SyncConstants, TypedInv, StartInv, NEW w \in SyncWorkers,
         Take(w) \/ Defer(w) \/ EndSync(w)
  PROVE  Quiet
<1>1. CASE Take(w)
  <2>1. PICK t \in Ids : runner' = [runner EXCEPT ![w] = [Free EXCEPT !.id = t, !.pc = "take"]]
    BY <1>1 DEF Take
  <2>2. /\ runner'[w].pc = "take" /\ UNCHANGED sync
        /\ \A v \in SyncWorkers \ {w} : runner'[v] = runner[v]
    BY <1>1, <2>1 DEF Take, TypedInv, SyncTypeOK, Free
  <2>3. QED
    BY <2>2 DEF Quiet, StartInv, StartsOne, WorkRecorded
<1>2. CASE Defer(w)
  BY <1>2, Released DEF Defer
<1>3. CASE EndSync(w)
  <2>1. PICK result \in {"done", "failed", "cancelled"} :
          sync' = [sync EXCEPT ![runner[w].id] = IF @ \in {"deleted", "cancelled"} THEN @ ELSE result]
    BY <1>3 DEF EndSync
  <2>2. runner[w].id \in Ids /\ runner[w].pc = "work"
    BY <1>3 DEF EndSync, TypedInv, HasTask
  <2>3. QED
    BY <1>3, <2>1, <2>2, Released DEF EndSync, TypedInv, SyncTypeOK, Rows
<1>4. QED
  BY <1>1, <1>2, <1>3

LEMMA MishapQuiet ==
  ASSUME TypedInv, StartInv, Mishap
  PROVE  Quiet
<1>1. UNCHANGED sync
  BY DEF Mishap
<1>2. CASE UNCHANGED runner
  BY <1>1, <1>2, SameRunners
<1>3. CASE \E w \in SyncWorkers : runner' = [runner EXCEPT ![w] = Free]
  BY <1>1, <1>3, Released
<1>4. QED
  BY <1>2, <1>3 DEF Mishap

(* The first transaction of a run: nobody but for tasks alike is about to   *)
(* start another task.                                                      *)
LEMMA ReadStep ==
  ASSUME SyncConstants, SerialStarts = TRUE, TypedInv, StartInv, NEW w \in SyncWorkers, ReadStart(w)
  PROVE  StartInv'
<1> DEFINE t == runner[w].id
<1>1. /\ t \in Ids /\ runner[w].pc = "take"
      /\ \A v \in SyncWorkers \ {w} : runner[v].pc = "fit" => runner[v].id \in Alike[t]
  BY DEF ReadStart, TypedInv, HasTask, MayOverlap
<1>2. CASE runner' = [runner EXCEPT ![w] = Free] /\ sync' = sync
  BY <1>2, Released, QuietStep
<1>3. CASE sync[t] = "queued" /\ runner' = [runner EXCEPT ![w].pc = "fit", ![w].seen = sync]
  <2>1. PICK dead \in SUBSET Dead : sync' = Reconciled(dead)
    BY <1>3 DEF ReadStart, Startable
  <2>2. /\ \A u \in Ids : sync'[u] # sync[u] =>
             sync[u] = "running" /\ sync'[u] = "failed" /\ Handled(u) = {}
        /\ \A u \in Ids : sync'[u] = "running" => sync[u] = "running"
    BY <2>1, ReconciledRows DEF TypedInv, HasActiveJob
  <2>3. /\ runner'[w].pc = "fit" /\ runner'[w].id = t /\ runner'[w].seen = sync
        /\ \A v \in SyncWorkers \ {w} : runner'[v] = runner[v]
    BY <1>3 DEF TypedInv, SyncTypeOK
  <2>4. \A v \in SyncWorkers : runner[v].pc # "idle" =>
          runner[v].id \in Ids /\ sync'[runner[v].id] = sync[runner[v].id]
    BY <2>2 DEF TypedInv, HasTask, Handled
  <2>5. RunningApart' /\ OneSpecial'
    BY <2>2, FewerApart DEF StartInv, RunningOf
  <2>6. StartsOne'
    <3>1. ASSUME NEW v \in SyncWorkers, runner'[v].pc = "fit"
          PROVE  /\ sync'[runner'[v].id] \in {"queued", "cancelled", "deleted"}
                 /\ \A u \in Ids \ Alike[runner'[v].id] : sync'[u] = "running" => runner'[v].seen[u] = "running"
      <4>1. CASE v = w
        <5>1. runner'[v].id = t /\ runner'[v].seen = sync
          BY <4>1, <2>3
        <5>2. sync'[t] = "queued"
          BY <1>1, <1>3, <2>4
        <5> HIDE DEF t
        <5>3. QED
          BY <5>1, <5>2, <2>2
      <4>2. CASE v # w
        <5>1. runner'[v] = runner[v] /\ runner[v].pc = "fit" /\ sync'[runner[v].id] = sync[runner[v].id]
          BY <4>2, <3>1, <2>3, <2>4
        <5>2. QED
          BY <5>1, <2>2 DEF StartInv, StartsOne
      <4>3. QED
        BY <4>1, <4>2
    <3>2. ASSUME NEW v \in SyncWorkers, NEW x \in SyncWorkers \ {v},
                 runner'[v].pc = "fit", runner'[x].pc = "fit"
          PROVE  runner'[x].id \in Alike[runner'[v].id]
      <4>1. CASE v = w
        BY <4>1, <3>2, <1>1, <2>3
      <4>2. CASE v # w /\ x = w
        <5>1. runner[v].id \in Alike[t] /\ runner[v].id \in Ids
          BY <4>2, <3>2, <1>1, <2>3, <2>4
        <5>2. QED
          BY <5>1, <4>2, <1>1, <2>3 DEF SyncConstants
      <4>3. CASE v # w /\ x # w
        BY <4>3, <3>2, <2>3 DEF StartInv, StartsOne
      <4>4. QED
        BY <4>1, <4>2, <4>3
    <3>3. QED
      BY <3>1, <3>2 DEF StartsOne
  <2>7. WorkRecorded'
    BY <2>3, <2>4 DEF StartInv, WorkRecorded
  <2>8. WorkedOnce'
    BY <2>3, <2>4 DEF StartInv, WorkedOnce
  <2>9. QED
    BY <2>5, <2>6, <2>7, <2>8 DEF StartInv
<1>4. QED
  BY <1>2, <1>3 DEF ReadStart, Startable

(* The rows the starting task was checked against hold all running tasks    *)
(* but those alike, which are read again.                                   *)
LEMMA NobodyInTheWay ==
  ASSUME SyncConstants, TypedInv, StartInv, NEW w \in SyncWorkers, StartSync(w),
         NEW t \in Ids, t = runner[w].id, NEW u \in RunningOf(sync)
  PROVE  /\ u # t
         /\ u \in Rivals(t) /\ t \in Rivals(u) => u \notin Clash[t]
         /\ t \in Special => u \notin Alike[t]
<1> DEFINE seen == runner[w].seen
<1>1. /\ runner[w].pc = "fit" /\ MayStart(seen, t)
      /\ u \in Ids /\ sync[u] = "running" /\ sync[t] # "running"
      /\ u \notin Alike[t] => seen[u] = "running"
  BY DEF StartSync, StartInv, StartsOne, RunningOf
<1>2. u # t
  BY <1>1
<1>3. CASE t \in Ordinary
  <2>1. Alike[t] = {}
    BY <1>3 DEF Ordinary, OfKind, SyncConstants
  <2>2. u \in In(seen, Ids \ {t}, "running")
    BY <1>1, <1>2, <2>1 DEF In
  <2>3. Clash[t] \cap Rivals(t) \cap In(seen, Ids \ {t}, "running") = {}
    BY <1>1, <1>3 DEF MayStart, Fits
  <2>4. QED
    BY <1>2, <1>3, <2>2, <2>3 DEF Special
<1>4. CASE t \notin Ordinary
  <2>1. Alone(seen, t) /\ Undisturbed(seen, t)
    BY <1>1, <1>4 DEF MayStart
  <2>2. u \notin Alike[t]
    BY <2>1, <1>1 DEF Alone, In
  <2>3. ASSUME u \in Rivals(t), t \in Rivals(u)
        PROVE  u \notin Clash[t]
    <3>1. KindOf[t] \in {"title", "upload"}
      BY <1>4, <2>3 DEF Rivals, Ordinary, OfKind
    <3>2. u \in OfKind({"sync", "listing", "title", "upload"})
      BY <2>3, <3>1 DEF Rivals, OfKind
    <3>3. u \in In(seen, OfKind({"sync", "title", "upload", "listing"}), "running")
      BY <3>2, <1>1, <2>2 DEF In, OfKind
    <3>4. QED
      BY <3>1, <3>3, <2>1 DEF Undisturbed, Scoped, OfKind
  <2>4. QED
    BY <1>2, <2>2, <2>3
<1>5. QED
  BY <1>3, <1>4

(* The sync tasks that run beside the one that starts were counted. *)
LEMMA RoomForOne ==
  ASSUME SyncConstants, TypedInv, StartInv, NEW w \in SyncWorkers, StartSync(w),
         NEW t \in Ids, t = runner[w].id, KindOf[t] = "sync"
  PROVE  /\ Cardinality(SyncsIn(RunningOf(sync))) < GlobalMax
         /\ Cardinality(OwnedIn(RunningOf(sync), UserOf[t])) < UserMax
<1> DEFINE seen == runner[w].seen
           others == In(seen, Ids \ {t}, "running")
           mine == {u \in others : UserOf[u] = UserOf[t] /\ KindOf[u] # "listing"}
<1>1. /\ runner[w].pc = "fit" /\ MayStart(seen, t) /\ sync[t] # "running"
      /\ \A u \in Ids : u \notin Alike[t] /\ sync[u] = "running" => seen[u] = "running"
  BY DEF StartSync, StartInv, StartsOne
<1>2. t \in Ordinary /\ Alike[t] = {}
  BY DEF Ordinary, OfKind, SyncConstants
<1>3. RunningOf(sync) \subseteq others
  BY <1>1, <1>2 DEF RunningOf, In
<1>4. Cardinality(others \cap OfKind({"sync"})) < GlobalMax /\ Cardinality(mine) < UserMax
  BY <1>1, <1>2 DEF MayStart, Fits
<1>5. /\ IsFiniteSet(others) /\ IsFiniteSet(others \cap OfKind({"sync"})) /\ IsFiniteSet(mine)
  BY FS_Subset DEF SyncConstants, In
<1>6. /\ SyncsIn(RunningOf(sync)) \subseteq others \cap OfKind({"sync"})
      /\ OwnedIn(RunningOf(sync), UserOf[t]) \subseteq mine
  BY <1>3 DEF SyncsIn, OwnedIn, OfKind, RunningOf
<1>7. QED
  <2>1. /\ Cardinality(SyncsIn(RunningOf(sync))) <= Cardinality(others \cap OfKind({"sync"}))
        /\ Cardinality(OwnedIn(RunningOf(sync), UserOf[t])) <= Cardinality(mine)
    BY <1>5, <1>6, FS_Subset
  <2>2. /\ Cardinality(SyncsIn(RunningOf(sync))) \in Nat
        /\ Cardinality(OwnedIn(RunningOf(sync), UserOf[t])) \in Nat
        /\ Cardinality(others \cap OfKind({"sync"})) \in Nat /\ Cardinality(mine) \in Nat
    BY <1>5, <1>6, FS_Subset, FS_CardinalityType
  <2>3. QED
    BY <2>1, <2>2, <1>4 DEF SyncConstants

(* One more task at most. *)
LEMMA OneMore ==
  ASSUME NEW S, NEW T, NEW x, IsFiniteSet(S), T \subseteq S \cup {x}
  PROVE  IsFiniteSet(T) /\ Cardinality(T) \in Nat /\ Cardinality(T) <= Cardinality(S) + 1
<1>1. Cardinality(S) \in Nat
  BY FS_CardinalityType
<1>2. /\ IsFiniteSet(S \cup {x})
      /\ Cardinality(S \cup {x}) = Cardinality(S) \/ Cardinality(S \cup {x}) = Cardinality(S) + 1
  BY FS_AddElement
<1>3. IsFiniteSet(T) /\ Cardinality(T) <= Cardinality(S \cup {x})
  BY <1>2, FS_Subset
<1>4. Cardinality(T) \in Nat
  BY <1>3, FS_CardinalityType
<1>5. QED
  BY <1>1, <1>2, <1>3, <1>4

LEMMA StartApart ==
  ASSUME SyncConstants, TypedInv, StartInv, NEW w \in SyncWorkers, StartSync(w),
         NEW t \in Ids, t = runner[w].id, RunningOf(sync') \subseteq RunningOf(sync) \cup {t}
  PROVE  RunningApart' /\ OneSpecial'
<1> DEFINE R == RunningOf(sync)
           Q == RunningOf(sync')
<1>1. IsFiniteSet(R) /\ IsFiniteSet(SyncsIn(R))
  BY FS_Subset DEF SyncConstants, RunningOf, SyncsIn
<1>2. Cardinality(SyncsIn(Q)) <= GlobalMax
  <2>1. CASE KindOf[t] = "sync"
    <3>1. SyncsIn(Q) \subseteq SyncsIn(R) \cup {t}
      BY DEF SyncsIn
    <3>2. Cardinality(SyncsIn(Q)) \in Nat /\ Cardinality(SyncsIn(Q)) <= Cardinality(SyncsIn(R)) + 1
      BY <3>1, <1>1, OneMore
    <3>3. Cardinality(SyncsIn(R)) < GlobalMax /\ Cardinality(SyncsIn(R)) \in Nat
      BY <2>1, <1>1, RoomForOne, FS_CardinalityType
    <3>4. QED
      BY <3>2, <3>3 DEF SyncConstants
  <2>2. CASE KindOf[t] # "sync"
    <3>1. SyncsIn(Q) \subseteq SyncsIn(R)
      BY <2>2 DEF SyncsIn
    <3>2. QED
      BY <3>1, <1>1, FS_Subset, FS_CardinalityType, ApartParts DEF SyncConstants, StartInv
  <2>3. QED
    BY <2>1, <2>2
<1>3. ASSUME NEW u \in {UserOf[x] : x \in Ids}
      PROVE  Cardinality(OwnedIn(Q, u)) <= UserMax
  <2>1. IsFiniteSet(OwnedIn(R, u))
    BY <1>1, FS_Subset DEF OwnedIn
  <2>2. CASE KindOf[t] = "sync" /\ UserOf[t] = u
    <3>1. OwnedIn(Q, u) \subseteq OwnedIn(R, u) \cup {t}
      BY DEF OwnedIn, SyncsIn
    <3>2. Cardinality(OwnedIn(Q, u)) \in Nat /\ Cardinality(OwnedIn(Q, u)) <= Cardinality(OwnedIn(R, u)) + 1
      BY <3>1, <2>1, OneMore
    <3>3. Cardinality(OwnedIn(R, u)) < UserMax /\ Cardinality(OwnedIn(R, u)) \in Nat
      BY <2>1, <2>2, RoomForOne, FS_CardinalityType
    <3>4. QED
      BY <3>2, <3>3 DEF SyncConstants
  <2>3. CASE ~(KindOf[t] = "sync" /\ UserOf[t] = u)
    <3>1. OwnedIn(Q, u) \subseteq OwnedIn(R, u)
      BY <2>3 DEF OwnedIn, SyncsIn
    <3>2. QED
      BY <2>1, <3>1, FS_Subset, FS_CardinalityType, ApartParts DEF SyncConstants, StartInv
  <2>4. QED
    BY <2>2, <2>3
<1>4. ASSUME NEW x \in Q, NEW y \in Q, y \in Rivals(x), x \in Rivals(y)
      PROVE  y \notin Clash[x]
  <2>1. x \in Ids /\ y \in Ids
    BY DEF RunningOf
  <2>2. CASE x \in R /\ y \in R
    BY <2>2, <1>4, ApartParts DEF StartInv
  <2>3. CASE x = t /\ y \in R
    BY <2>3, <1>4, NobodyInTheWay
  <2>4. CASE x \in R /\ y = t
    BY <2>1, <2>4, <1>4, NobodyInTheWay DEF SyncConstants
  <2>5. CASE x = t /\ y = t
    BY <2>5 DEF SyncConstants
  <2>6. QED
    BY <2>2, <2>3, <2>4, <2>5
<1>5. RunningApart'
  <2>1. In(sync', Ids, "running") = Q
    BY DEF RunningOf, In
  <2>2. SyncsIn(Q) = Q \cap OfKind({"sync"})
    BY DEF SyncsIn, RunningOf, OfKind
  <2>3. QED
    BY <1>2, <1>3, <1>4, <2>1, <2>2 DEF RunningApart, OwnedIn
<1>6. ASSUME NEW x \in Special, NEW y \in Alike[x], sync'[x] = "running", sync'[y] = "running"
      PROVE  FALSE
  <2>1. /\ x \in Ids /\ y \in Ids /\ x # y /\ x \in Alike[y]
        /\ x \in Q /\ y \in Q
    BY <1>6 DEF SyncConstants, Special, RunningOf
  <2>2. y \in Special
    BY <2>1 DEF SyncConstants, Special, Ordinary, OfKind
  <2>3. CASE x \in R /\ y \in R
    BY <2>3 DEF StartInv, OneSpecial, In, RunningOf
  <2>4. CASE x = t /\ y \in R
    BY <2>4, NobodyInTheWay
  <2>5. CASE x \in R /\ y = t
    BY <2>1, <2>2, <2>5, NobodyInTheWay
  <2>6. QED
    BY <2>1, <2>3, <2>4, <2>5
<1>7. OneSpecial'
  BY <1>6 DEF OneSpecial, In
<1>8. QED
  BY <1>5, <1>7

LEMMA StartStep ==
  ASSUME SyncConstants, TypedInv, StartInv, NEW w \in SyncWorkers, StartSync(w)
  PROVE  StartInv'
<1>1. PICK t \in Ids : t = runner[w].id
  BY DEF StartSync, TypedInv, HasTask
<1>2. /\ runner[w].pc = "fit" /\ sync[t] \in {"queued", "cancelled", "deleted"}
      /\ sync'[t] = IF sync[t] = "deleted" THEN "deleted" ELSE "running"
      /\ \A u \in Ids \ {t} : sync'[u] = sync[u]
  BY <1>1 DEF StartSync, StartInv, StartsOne, TypedInv, SyncTypeOK, Rows
<1>3. /\ runner'[w].pc = "work" /\ runner'[w].id = t
      /\ \A v \in SyncWorkers \ {w} : runner'[v] = runner[v]
  BY <1>1 DEF StartSync, TypedInv, SyncTypeOK
<1>4. \A v \in SyncWorkers : runner[v].pc # "idle" => runner[v].id \in Ids
  BY DEF TypedInv, HasTask
<1>5. RunningApart' /\ OneSpecial'
  BY <1>1, <1>2, StartApart DEF RunningOf
<1>6. \A v \in SyncWorkers \ {w} : runner[v].pc = "fit" =>
        runner[v].id # t /\ t \in Alike[runner[v].id]
  <2>1. ASSUME NEW v \in SyncWorkers \ {w}, runner[v].pc = "fit"
        PROVE  t \in Alike[runner[v].id]
    BY <2>1, <1>1, <1>2 DEF StartInv, StartsOne
  <2>2. QED
    BY <2>1, <1>4 DEF SyncConstants
<1>7. StartsOne'
  <2>1. ASSUME NEW v \in SyncWorkers, runner'[v].pc = "fit"
        PROVE  v # w /\ runner'[v] = runner[v] /\ runner[v].pc = "fit" /\ runner[v].id \in Ids \ {t}
    BY <2>1, <1>3, <1>4, <1>6
  <2>2. ASSUME NEW v \in SyncWorkers, runner'[v].pc = "fit",
               NEW u \in Ids \ Alike[runner[v].id], sync'[u] = "running"
        PROVE  runner[v].seen[u] = "running"
    <3>1. u # t
      BY <2>1, <2>2, <1>6
    <3>2. sync[u] = "running"
      BY <3>1, <2>2, <1>2
    <3>3. QED
      BY <3>2, <2>1, <2>2 DEF StartInv, StartsOne
  <2>3. QED
    BY <2>1, <2>2, <1>2 DEF StartInv, StartsOne
<1>8. WorkRecorded'
  BY <1>2, <1>3, <1>4 DEF StartInv, WorkRecorded
<1>9. WorkedOnce'
  <2>1. ASSUME NEW v \in SyncWorkers \ {w}, runner[v].pc = "work", runner[v].id = t
        PROVE  sync'[t] = "deleted"
    BY <2>1, <1>2 DEF StartInv, WorkRecorded
  <2>2. QED
    BY <2>1, <1>2, <1>3, <1>4 DEF StartInv, WorkedOnce
<1>10. QED
  BY <1>5, <1>7, <1>8, <1>9 DEF StartInv

-----------------------------------------------------------------------------
(* Together. *)

LEMMA InitStart ==
  ASSUME SyncConstants
  PROVE  Init => StartInv
<1> SUFFICES ASSUME Init PROVE StartInv
  OBVIOUS
<1>1. RunningOf(sync) = {}
  BY DEF Init, RunningOf
<1>2. RunningApart
  <2>1. SyncsIn({}) = {} /\ \A u : OwnedIn({}, u) = {}
    BY DEF SyncsIn, OwnedIn
  <2>2. Cardinality({}) = 0
    BY FS_EmptySet
  <2>3. /\ Cardinality(SyncsIn(RunningOf(sync))) <= GlobalMax
        /\ \A u \in {UserOf[t] : t \in Ids} : Cardinality(OwnedIn(RunningOf(sync), u)) <= UserMax
    <3>1. Cardinality(SyncsIn(RunningOf(sync))) = 0
      BY <1>1, <2>1, <2>2
    <3>2. ASSUME NEW u
          PROVE  Cardinality(OwnedIn(RunningOf(sync), u)) = 0
      BY <1>1, <2>1, <2>2
    <3>3. 0 <= GlobalMax /\ 0 <= UserMax
      BY DEF SyncConstants
    <3>4. QED
      BY <3>1, <3>2, <3>3
  <2>4. QED
    BY <1>1, <2>3, ApartParts
<1>3. OneSpecial
  BY DEF Init, OneSpecial, In, Special
<1>4. StartsOne /\ WorkRecorded /\ WorkedOnce
  BY DEF Init, StartsOne, WorkRecorded, WorkedOnce, Free
<1>5. QED
  BY <1>2, <1>3, <1>4 DEF StartInv

LEMMA StartInvariant ==
  ASSUME SyncConstants, SerialStarts = TRUE, LateEnqueues = FALSE
  PROVE  Spec => [](TypedInv /\ StartInv)
<1>1. ASSUME TypedInv, StartInv, [Next]_syncVars
      PROVE  StartInv'
  <2>1. ASSUME NEW t \in Ids, CancelSync(t) \/ DeleteSync(t)
        PROVE  StartInv'
    BY <1>1, <2>1, RequestQuiet, QuietStep
  <2>2. ASSUME NEW d \in Threads, NEW t \in Ids, CreateSync(d, t) \/ RetrySync(d, t)
        PROVE  StartInv'
    BY <1>1, <2>2, RequestQuiet, QuietStep
  <2>3. ASSUME NEW d \in Threads,
               ReadQueue(d) \/ Choose(d) \/ Sweep(d) \/ Enqueue(d) \/ EnqueueFails(d)
        PROVE  StartInv'
    BY <1>1, <2>3, ThreadQuiet, QuietStep
  <2>4. ASSUME NEW w \in SyncWorkers, Take(w) \/ Defer(w) \/ EndSync(w)
        PROVE  StartInv'
    BY <1>1, <2>4, WorkerQuiet, QuietStep
  <2>5. ASSUME NEW w \in SyncWorkers, ReadStart(w)
        PROVE  StartInv'
    BY <1>1, <2>5, ReadStep
  <2>6. ASSUME NEW w \in SyncWorkers, StartSync(w)
        PROVE  StartInv'
    BY <1>1, <2>6, StartStep
  <2>7. CASE Mishap
    BY <1>1, <2>7, MishapQuiet, QuietStep
  <2>8. CASE UNCHANGED syncVars
    <3>1. UNCHANGED <<sync, runner>>
      BY <2>8 DEF syncVars
    <3>2. Quiet
      BY <1>1, <3>1, SameRunners
    <3>3. QED
      BY <1>1, <3>2, QuietStep
  <2>9. QED
    BY <1>1, <2>1, <2>2, <2>3, <2>4, <2>5, <2>6, <2>7, <2>8 DEF Next
<1>2. TypedInv /\ StartInv /\ [Next]_syncVars => (TypedInv /\ StartInv)'
  BY <1>1, TypedStep
<1>3. QED
  BY <1>2, InitTyped, InitStart, PTL DEF Spec

(* run_sync_task: a task that exists is worked on by one worker at most,    *)
(* however often dispatchers, the sweep and retries have enqueued it.       *)
THEOREM SyncHasOneWorker ==
  ASSUME SyncConstants, SerialStarts = TRUE, LateEnqueues = FALSE
  PROVE  Spec => []OneRunner
<1>1. ASSUME TypedInv, StartInv, NEW t \in Ids, sync[t] # "deleted"
      PROVE  Cardinality(WorkedOn(t)) <= 1
  <2>1. \A v, w \in WorkedOn(t) : v = w
    BY <1>1 DEF WorkedOn, Handled, StartInv, WorkedOnce
  <2>2. CASE WorkedOn(t) = {}
    BY <2>2, FS_EmptySet
  <2>3. CASE WorkedOn(t) # {}
    <3>1. PICK w : WorkedOn(t) = {w}
      BY <2>1, <2>3
    <3>2. QED
      BY <3>1, FS_Singleton
  <2>4. QED
    BY <2>2, <2>3
<1>2. TypedInv /\ StartInv => OneRunner
  BY <1>1 DEF OneRunner
<1>3. QED
  BY <1>2, StartInvariant, PTL

(* sync_task_start_wait_reason, listing_task_start_wait_reason: the running *)
(* sync tasks keep to their limits and no two running tasks that wait for   *)
(* each other have conflicting scopes.                                      *)
THEOREM RunningTasksApart ==
  ASSUME SyncConstants, SerialStarts = TRUE, LateEnqueues = FALSE
  PROVE  Spec => []RunningApart
<1>1. StartInv => RunningApart
  BY DEF StartInv
<1>2. QED
  BY <1>1, StartInvariant, PTL

(* specialized_sync_task_wait_reason: of the special tasks that are alike   *)
(* one runs at a time.                                                      *)
THEOREM OneOfAKind ==
  ASSUME SyncConstants, SerialStarts = TRUE, LateEnqueues = FALSE
  PROVE  Spec => []OneSpecial
<1>1. StartInv => OneSpecial
  BY DEF StartInv
<1>2. QED
  BY <1>1, StartInvariant, PTL

(* The three of them: running tasks keep apart.                             *)
THEOREM TasksKeepApart ==
  ASSUME SyncConstants, SerialStarts = TRUE, LateEnqueues = FALSE
  PROVE  Spec => []TasksApart
<1>1. RunningApart /\ OneSpecial /\ OneRunner => TasksApart
  BY DEF TasksApart
<1>2. QED
  BY <1>1, RunningTasksApart, OneOfAKind, SyncHasOneWorker, PTL

=============================================================================
