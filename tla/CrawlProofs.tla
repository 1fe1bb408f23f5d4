-------------------------------- MODULE CrawlProofs --------------------------------
(***************************************************************************)
(* Proofs about CrawlQueue: first the types of its variables, then how     *)
(* many tasks are reserved and running, then what becomes of a task in     *)
(* execution.                                                              *)
(***************************************************************************)
EXTENDS CrawlQueue, FiniteSetTheorems, TLAPS

-----------------------------------------------------------------------------
(***************************************************************************)
(* The invariant on jobs that typing rests on: the task a worker executes  *)
(* is read from the job it holds, so a held job must stay in Redis.        *)
(***************************************************************************)
HolderPC == {"begin", "begun"} \cup RunPC

(* A held job is in the started registry. *)
HeldStarted == \A p \in Procs : hold[p] # NoJob => jobs[hold[p]].state = "started"

(* No two processes hold the same job. *)
HeldOnce == \A p, q \in Procs : hold[p] = hold[q] /\ hold[p] # NoJob => p = q

(* A reservation that is still to be enqueued has an id Redis does not know. *)
TodoUnsent == \A p \in Procs : \A e \in todo[p] : jobs[e[2]].state = "none"

(* No id is reserved twice. *)
TodoOnce == \A p, q \in Procs : \A e \in todo[p], f \in todo[q] :
              e[2] = f[2] => p = q /\ e = f

(* A job in Redis names a task. *)
JobsKnown == \A j \in Jobs : jobs[j].state # "none" => jobs[j].task \in Tasks

(* A process that executes a task holds a job, and only workers do. *)
HoldersHold ==
  \A p \in Procs : (pc[p] \in HolderPC => hold[p] # NoJob)
                   /\ (hold[p] # NoJob => p \in Workers)

JobInv == HeldStarted /\ HeldOnce /\ TodoUnsent /\ TodoOnce /\ JobsKnown /\ HoldersHold

-----------------------------------------------------------------------------
(* Facts about the helpers. *)

LEMMA BasicTypes ==
  /\ GoneJob \in Job
  /\ NoPlan \in [Tasks -> Writes]
  /\ NoSlots \in [Lanes -> Nat]
  /\ \A t \in Tasks : LaneOf[t] \in Lanes /\ OwnerOfTask(t) \in Owners
  /\ \A t \in Tasks, s \in JobState : [state |-> s, task |-> t] \in Job
<1>1. 0 \in 0..MaxTasks /\ Tasks \subseteq 0..MaxTasks
  BY ConstantsAssumption DEF Tasks
<1>2. QED
  BY <1>1, ConstantsAssumption
  DEF GoneJob, Job, JobState, NoPlan, Writes, NoSlots, OwnerOfTask, Owners, Tasks

(* A committed write leaves a row a row. *)
LEMMA WrittenType ==
  ASSUME NEW r \in Row, NEW w
  PROVE  Written(r, w) \in Row
BY DEF Written, NewRow, Row, Statuses

(* Every set of tasks is finite. *)
LEMMA TasksFinite ==
  ASSUME NEW S \in SUBSET Tasks
  PROVE  IsFiniteSet(S) /\ Cardinality(S) \in Nat
<1>1. IsFiniteSet(Tasks)
  BY ConstantsAssumption, FS_Interval DEF Tasks
<1>2. QED
  BY <1>1, FS_Subset, FS_CardinalityType

LEMMA FreeSlotsType ==
  ASSUME NEW l \in Lanes
  PROVE  FreeSlots(l) \in Nat
<1>1. Running(l) \in SUBSET Tasks /\ Reserved(l) \in SUBSET Tasks
  BY DEF Running, Reserved
<1>2. Cardinality(Running(l)) \in Nat /\ Cardinality(Reserved(l)) \in Nat /\ Limit[l] \in Nat
  BY <1>1, TasksFinite, ConstantsAssumption
<1>3. QED
  BY <1>2 DEF FreeSlots

LEMMA CommitType ==
  ASSUME TypeOK, NEW p \in Procs, CommitPlan(p)
  PROVE  row' \in [Tasks -> Row] /\ plan' \in [Procs -> [Tasks -> Writes]]
<1>1. row' \in [Tasks -> Row]
  BY WrittenType DEF CommitPlan, TypeOK
<1>2. QED
  BY BasicTypes, <1>1 DEF CommitPlan, TypeOK

(* The task of a held job is a task. *)
LEMMA HeldTask ==
  ASSUME TypeOK, JobInv, NEW p \in Procs, hold[p] # NoJob
  PROVE  hold[p] \in Jobs /\ TaskOf(p) \in Tasks
BY DEF TypeOK, JobInv, HeldStarted, JobsKnown, TaskOf

(* A job that changes its registry is still a job. *)
LEMMA MovedJobType ==
  ASSUME TypeOK, NEW j, NEW s \in JobState, jobs' = [jobs EXCEPT ![j].state = s]
  PROVE  jobs' \in [Jobs -> Job]
<1>1. \A k \in Jobs : [jobs[k] EXCEPT !.state = s] \in Job
  BY DEF TypeOK, Job
<1>2. QED
  BY <1>1 DEF TypeOK

(* The commit that reserves the tasks S under the ids id. *)
Reserves(p, S, id) ==
  /\ \A t \in S : row[t].status = "queued" /\ row[t].job = NoJob
  /\ \A l \in Lanes : Oldest({t \in S : LaneOf[t] = l}, Waiting(l), slots[p][l])
  /\ \A t, u \in S : id[t] = id[u] => t = u
  /\ row' = [t \in Tasks |-> IF t \in S THEN [row[t] EXCEPT !.job = id[t]] ELSE row[t]]
  /\ todo' = [todo EXCEPT ![p] = {<<t, id[t]>> : t \in S}]

LEMMA ReserveShape ==
  ASSUME NEW p, ReserveTasks(p)
  PROVE  \E S \in SUBSET Tasks : \E id \in [S -> {j \in Jobs : Fresh(j)}] : Reserves(p, S, id)
<1>1. PICK S \in SUBSET {t \in Tasks : row[t].status = "queued" /\ row[t].job = NoJob} :
        /\ \A l \in Lanes : Oldest({t \in S : LaneOf[t] = l}, Waiting(l), slots[p][l])
        /\ \E id \in [S -> {j \in Jobs : Fresh(j)}] :
             /\ \A t, u \in S : id[t] = id[u] => t = u
             /\ row' = [t \in Tasks |->
                          IF t \in S THEN [row[t] EXCEPT !.job = id[t]] ELSE row[t]]
             /\ todo' = [todo EXCEPT ![p] = {<<t, id[t]>> : t \in S}]
  BY DEF ReserveTasks
<1>2. S \in SUBSET Tasks /\ \A t \in S : row[t].status = "queued" /\ row[t].job = NoJob
  BY <1>1
<1>3. QED
  BY <1>1, <1>2 DEF Reserves

-----------------------------------------------------------------------------
(* Every step of every process preserves the types. *)

LEMMA ReturnType ==
  ASSUME TypeOK, NEW p \in Procs, JobReturns(p)
  PROVE  /\ jobs' \in [Jobs -> Job] /\ hold' \in [Procs -> Jobs \cup {NoJob}]
         /\ scope' \in [Procs -> SUBSET Owners] /\ pc' \in [Procs -> PCs]
BY BasicTypes DEF TypeOK, JobReturns, Goto, PCs

LEMMA DispatchType ==
  ASSUME TypeOK, NEW p \in Procs, Dispatch(p)
  PROVE  TypeOK'
<1>1. CASE DispatchSkipped(p)
  BY <1>1, ReturnType DEF DispatchSkipped, TypeOK
<1>2. CASE CountSlots(p)
  <2>1. slots' \in [Procs -> [Lanes -> Nat]]
    BY <1>2, FreeSlotsType DEF CountSlots, TypeOK
  <2>2. QED
    BY <1>2, <2>1 DEF CountSlots, Goto, TypeOK, PCs, LockPC
<1>3. CASE ReserveTasks(p)
  <2>1. PICK S \in SUBSET Tasks : \E id \in [S -> {j \in Jobs : Fresh(j)}] : Reserves(p, S, id)
    BY <1>3, ReserveShape
  <2> PICK id \in [S -> {j \in Jobs : Fresh(j)}] : Reserves(p, S, id)
    BY <2>1
  <2>2. row' \in [Tasks -> Row]
    <3>1. \A t \in S : [row[t] EXCEPT !.job = id[t]] \in Row
      BY DEF TypeOK, Row
    <3>2. QED
      BY <3>1 DEF TypeOK, Reserves
  <2>3. {<<t, id[t]>> : t \in S} \in SUBSET (Tasks \X Jobs)
    OBVIOUS
  <2>4. todo' \in [Procs -> SUBSET (Tasks \X Jobs)]
    BY <2>3 DEF TypeOK, Reserves
  <2>5. slots' \in [Procs -> [Lanes -> Nat]] /\ pc' \in [Procs -> PCs]
    BY <1>3, BasicTypes DEF ReserveTasks, TypeOK, Goto, PCs, LockPC
  <2>6. QED
    BY <1>3, <2>2, <2>4, <2>5 DEF ReserveTasks, TypeOK
<1>4. CASE EnqueueReserved(p)
  <2>1. PICK e \in todo[p] :
          /\ jobs' = [jobs EXCEPT ![e[2]] = [state |-> "queued", task |-> e[1]]]
          /\ todo' = [todo EXCEPT ![p] = @ \ {e}]
    BY <1>4 DEF EnqueueReserved
  <2>2. e[1] \in Tasks /\ e[2] \in Jobs
    BY <2>1 DEF TypeOK
  <2>3. jobs' \in [Jobs -> Job]
    BY <2>1, <2>2, BasicTypes DEF TypeOK, JobState
  <2>4. todo' \in [Procs -> SUBSET (Tasks \X Jobs)]
    BY <2>1 DEF TypeOK
  <2>5. QED
    BY <1>4, <2>3, <2>4 DEF EnqueueReserved, TypeOK
<1>5. CASE EnqueueFails(p)
  <2>1. PICK e \in todo[p] :
          /\ \/ UNCHANGED <<jobs, faults>>
             \/ /\ faults < MaxFaults /\ faults' = faults + 1
                /\ jobs' \in {jobs, [jobs EXCEPT ![e[2]] = [state |-> "queued", task |-> e[1]]]}
          /\ row' \in {row, [row EXCEPT ![e[1]] = Written(row[e[1]], "drop")]}
          /\ todo' = [todo EXCEPT ![p] = @ \ {e}]
    BY <1>5 DEF EnqueueFails
  <2>2. e[1] \in Tasks /\ e[2] \in Jobs
    BY <2>1 DEF TypeOK
  <2>3. row' \in [Tasks -> Row]
    <3>1. Written(row[e[1]], "drop") \in Row
      BY <2>2, WrittenType DEF TypeOK
    <3>2. QED
      BY <2>1, <2>2, <3>1 DEF TypeOK
  <2>4. faults' \in 0..MaxFaults
    BY <2>1, ConstantsAssumption DEF TypeOK
  <2>5. jobs' \in [Jobs -> Job]
    BY <2>1, <2>2, BasicTypes DEF TypeOK, JobState
  <2>6. todo' \in [Procs -> SUBSET (Tasks \X Jobs)]
    BY <2>1 DEF TypeOK
  <2>7. QED
    BY <1>5, <2>3, <2>4, <2>5, <2>6 DEF EnqueueFails, TypeOK
<1>6. CASE ReleaseLock(p)
  BY <1>6, ReturnType DEF ReleaseLock, TypeOK
<1>7. QED
  BY <1>1, <1>2, <1>3, <1>4, <1>5, <1>6 DEF Dispatch

LEMMA WorkerType ==
  ASSUME TypeOK, JobInv, NEW w \in Workers, Worker(w)
  PROVE  TypeOK'
<1>w. w \in Procs
  BY DEF Procs
<1>1. CASE TakeJob(w)
  <2>1. jobs' \in [Jobs -> Job] /\ hold' \in [Procs -> Jobs \cup {NoJob}]
    BY <1>w, <1>1, MovedJobType DEF TakeJob, TypeOK, JobState
  <2>2. QED
    BY <1>w, <1>1, <2>1 DEF TakeJob, Goto, TypeOK, PCs
<1>2. CASE BeginTask(w)
  <2>1. BeginPlan(hold[w], TaskOf(w)) \in [Tasks -> Writes]
    BY DEF BeginPlan, NoPlan, Writes
  <2>2. TaskOf(w) \in Tasks
    <3>1. pc[w] \in HolderPC
      BY <1>2 DEF BeginTask, HolderPC
    <3>2. hold[w] # NoJob
      BY <1>w, <3>1 DEF JobInv, HoldersHold
    <3>3. QED
      BY <1>w, <3>2, HeldTask
  <2>3. plan' \in [Procs -> [Tasks -> Writes]] /\ scope' \in [Procs -> SUBSET Owners]
    BY <1>w, <1>2, <2>1, <2>2, BasicTypes DEF BeginTask, TypeOK
  <2>4. QED
    BY <1>w, <1>2, <2>3 DEF BeginTask, Goto, TypeOK, PCs, TxnPC
<1>3. CASE BeginDeleted(w)
  BY <1>w, <1>3, ReturnType DEF BeginDeleted, TypeOK
<1>4. CASE CommitBegin(w)
  BY <1>w, <1>4, CommitType DEF CommitBegin, Goto, TypeOK, PCs, RunPC
<1>5. CASE CommitBeginFails(w)
  <2>1. jobs' \in [Jobs -> Job] /\ plan' \in [Procs -> [Tasks -> Writes]]
    BY <1>w, <1>5, BasicTypes, MovedJobType DEF CommitBeginFails, Abandon, TypeOK, JobState
  <2>2. QED
    BY <1>w, <1>5, <2>1 DEF CommitBeginFails, Abandon, Goto, TypeOK, PCs
<1>6. CASE CheckCancel(w)
  BY <1>w, <1>6 DEF CheckCancel, Goto, TypeOK, PCs, RunPC, local
<1>7. CASE WorkItem(w)
  <2>1. \A t : ProgressWrites(t) \subseteq Writes
    BY DEF ProgressWrites, Writes
  <2>2. PICK write \in Writes : plan' = [plan EXCEPT ![w][TaskOf(w)] = write]
    BY <1>7, <2>1 DEF WorkItem
  <2>3. plan' \in [Procs -> [Tasks -> Writes]]
    BY <1>w, <2>2 DEF TypeOK
  <2>4. QED
    BY <1>w, <1>7, <2>3 DEF WorkItem, Goto, TypeOK, PCs, TxnPC
<1>8. CASE WorkRaises(w)
  BY <1>w, <1>8 DEF WorkRaises, Goto, TypeOK, PCs, RunPC, local
<1>9. CASE \E label \in {"check", "finish"} : CommitProgress(w, label)
  BY <1>w, <1>9, CommitType DEF CommitProgress, Goto, TypeOK, PCs, RunPC
<1>10. CASE CommitProgressFails(w)
  BY <1>w, <1>10, BasicTypes DEF CommitProgressFails, Abandon, Goto, TypeOK, PCs, RunPC
<1>11. CASE FinishTask(w) \/ AbortTask(w) \/ FailTask(w)
  <2>1. PICK statuses \in SUBSET Statuses : Finalise(w, statuses)
    BY <1>11 DEF FinishTask, AbortTask, FailTask, Statuses
  <2>2. \/ row' = row
        \/ \E s \in Statuses :
             row' = [row EXCEPT ![TaskOf(w)] =
                       [@ EXCEPT !.status = s, !.marked = FALSE, !.stale = FALSE]]
    BY <2>1 DEF Finalise
  <2>3. row' \in [Tasks -> Row]
    <3>1. \A t \in Tasks : \A s \in Statuses :
            [row[t] EXCEPT !.status = s, !.marked = FALSE, !.stale = FALSE] \in Row
      BY DEF TypeOK, Row
    <3>2. CASE row' = row
      BY <3>2 DEF TypeOK
    <3>3. CASE row' # row
      <4>1. PICK s \in Statuses :
              row' = [row EXCEPT ![TaskOf(w)] =
                        [@ EXCEPT !.status = s, !.marked = FALSE, !.stale = FALSE]]
        BY <2>2, <3>3
      <4>2. QED
        BY <3>1, <4>1 DEF TypeOK
    <3>4. QED
      BY <3>2, <3>3
  <2>4. QED
    BY <1>w, <2>1, <2>3 DEF Finalise, Goto, TypeOK, PCs, local
<1>12. QED
  BY <1>1, <1>2, <1>3, <1>4, <1>5, <1>6, <1>7, <1>8, <1>9, <1>10, <1>11 DEF Worker

LEMMA RequestType ==
  ASSUME TypeOK, NEW a \in Api, Request(a)
  PROVE  TypeOK'
<1>a. a \in Procs
  BY DEF Procs
<1>1. CASE CreateTask(a)
  <2>1. PICK t \in Tasks : /\ row' = [row EXCEPT ![t] = [NewRow EXCEPT !.status = "queued"]]
                          /\ ThenDispatch(a, {OwnerOfTask(t)})
    BY <1>1 DEF CreateTask
  <2>2. [NewRow EXCEPT !.status = "queued"] \in Row
    BY DEF NewRow, Row, Statuses
  <2>3. row' \in [Tasks -> Row]
    BY <2>1, <2>2 DEF TypeOK
  <2>4. scope' \in [Procs -> SUBSET Owners] /\ pc' \in [Procs -> PCs]
    BY <1>a, <2>1, BasicTypes DEF ThenDispatch, Goto, TypeOK, PCs
  <2>5. QED
    BY <1>1, <2>3, <2>4 DEF CreateTask, TypeOK
<1>2. CASE RerunTask(a)
  <2>1. PICK t \in Tasks : /\ plan' = [plan EXCEPT ![a][t] = "requeue"]
                          /\ scope' = [scope EXCEPT ![a] = {OwnerOfTask(t)}]
    BY <1>2 DEF RerunTask
  <2>2. plan' \in [Procs -> [Tasks -> Writes]] /\ scope' \in [Procs -> SUBSET Owners]
    BY <1>a, <2>1, BasicTypes DEF TypeOK, Writes
  <2>3. pc' \in [Procs -> PCs] /\ reruns' \in 0..MaxReruns
    BY <1>a, <1>2, ConstantsAssumption DEF RerunTask, Goto, TypeOK, PCs, TxnPC
  <2>4. QED
    BY <1>2, <2>2, <2>3 DEF RerunTask, TypeOK
<1>3. CASE CancelTask(a) \/ DeleteTask(a)
  <2>1. PICK t \in Tasks, write \in Writes : plan' = [plan EXCEPT ![a][t] = write]
    BY <1>3 DEF CancelTask, DeleteTask, Writes
  <2>2. plan' \in [Procs -> [Tasks -> Writes]]
    BY <1>a, <2>1 DEF TypeOK
  <2>3. pc' \in [Procs -> PCs] /\ scope' \in [Procs -> SUBSET Owners]
    BY <1>a, <1>3 DEF CancelTask, DeleteTask, Goto, TypeOK, PCs, TxnPC
  <2>4. QED
    BY <1>3, <2>2, <2>3 DEF CancelTask, DeleteTask, TypeOK
<1>4. CASE CommitApi(a)
  BY <1>a, <1>4, CommitType DEF CommitApi, Goto, TypeOK, PCs
<1>5. CASE CommitApiFails(a)
  BY <1>a, <1>5, BasicTypes DEF CommitApiFails, Abandon, Goto, TypeOK, PCs
<1>6. QED
  BY <1>1, <1>2, <1>3, <1>4, <1>5 DEF Request

LEMMA ReconcileType ==
  ASSUME TypeOK, NEW p \in Api \cup {Runner}, Reconcile(p)
  PROVE  TypeOK'
<1>p. p \in Procs
  BY DEF Procs
<1>1. CASE ReadRunning(p)
  <2>1. PICK f \in [Tasks -> Writes] : plan' = [plan EXCEPT ![p] = f]
    BY <1>1 DEF ReadRunning, Writes, Probes
  <2>2. plan' \in [Procs -> [Tasks -> Writes]]
    BY <2>1 DEF TypeOK
  <2>3. pc' \in [Procs -> PCs] /\ scope' \in [Procs -> SUBSET Owners]
    BY <1>p, <1>1 DEF ReadRunning, Goto, TypeOK, PCs, TxnPC
  <2>4. QED
    BY <1>1, <2>2, <2>3 DEF ReadRunning, TypeOK
<1>2. CASE \E ripe \in 0..MaxTasks : ProbeRedis(p, ripe)
  <2>1. PICK ripe \in 0..MaxTasks : ProbeRedis(p, ripe)
    BY <1>2
  <2>2. PICK S \in SUBSET (1..ripe) :
          plan' = [plan EXCEPT ![p] = [t \in Tasks |->
                     IF t \in S THEN ReservationVerdict(t) ELSE RunningVerdict(t, plan[p][t])]]
    BY <2>1 DEF ProbeRedis
  <2>3. \A t \in Tasks : ReservationVerdict(t) \in Writes
                         /\ RunningVerdict(t, plan[p][t]) \in Writes
    BY <1>p DEF ReservationVerdict, RunningVerdict, TypeOK, Writes, Probes
  <2>4. plan' \in [Procs -> [Tasks -> Writes]]
    BY <2>2, <2>3 DEF TypeOK
  <2>5. pc' \in [Procs -> PCs]
    BY <1>p, <2>1 DEF ProbeRedis, Goto, TypeOK, PCs, TxnPC
  <2>6. faults' \in 0..MaxFaults
    <3>1. faults' = faults \/ (faults < MaxFaults /\ faults' = faults + 1)
      BY <2>1 DEF ProbeRedis
    <3>2. QED
      BY <3>1, ConstantsAssumption DEF TypeOK
  <2>7. QED
    BY <2>1, <2>4, <2>5, <2>6 DEF ProbeRedis, TypeOK
<1>3. CASE CommitReconcile(p)
  BY <1>p, <1>3, CommitType DEF CommitReconcile, Goto, TypeOK, PCs
<1>4. CASE CommitReconcileFails(p)
  BY <1>p, <1>4, BasicTypes DEF CommitReconcileFails, Abandon, Goto, TypeOK, PCs
<1>5. QED
  BY <1>1, <1>2, <1>3, <1>4 DEF Reconcile

LEMMA CleanupType ==
  ASSUME TypeOK, CleanupScheduled
  PROVE  TypeOK'
<1>1. PICK S \in SUBSET Tasks :
        /\ row' = [t \in Tasks |-> IF t \in S THEN Written(row[t], "delete") ELSE row[t]]
        /\ jobs' = [j \in Jobs |-> IF jobs[j].task \in S /\ jobs[j].state \in {"queued", "failed"}
                                   THEN GoneJob ELSE jobs[j]]
  BY DEF CleanupScheduled
<1>2. row' \in [Tasks -> Row]
  BY <1>1, WrittenType DEF TypeOK
<1>3. jobs' \in [Jobs -> Job]
  BY <1>1, BasicTypes DEF TypeOK
<1>4. QED
  BY <1>2, <1>3 DEF CleanupScheduled, TypeOK, local

LEMMA EnvironmentType ==
  ASSUME TypeOK, Environment
  PROVE  TypeOK'
<1>f. faults < MaxFaults => faults + 1 \in 0..MaxFaults
  BY ConstantsAssumption DEF TypeOK
<1>1. ASSUME NEW p \in Procs, Crash(p) PROVE TypeOK'
  <2>1. plan' \in [Procs -> [Tasks -> Writes]] /\ slots' \in [Procs -> [Lanes -> Nat]]
    BY <1>1, BasicTypes DEF Crash, TypeOK
  <2>2. QED
    BY <1>1, <1>f, <2>1 DEF Crash, Goto, TypeOK, PCs
<1>2. ASSUME NEW j \in Jobs, JobFails(j) PROVE TypeOK'
  <2>1. jobs' \in [Jobs -> Job]
    BY <1>2, MovedJobType DEF JobFails, JobState
  <2>2. QED
    BY <1>2, <2>1 DEF JobFails, TypeOK, local
<1>3. ASSUME NEW j \in Jobs, FailedJobExpires(j) \/ LoseJob(j) PROVE TypeOK'
  <2>1. jobs' \in [Jobs -> Job]
    BY <1>3, BasicTypes DEF FailedJobExpires, LoseJob, TypeOK
  <2>2. QED
    BY <1>3, <1>f, <2>1 DEF FailedJobExpires, LoseJob, TypeOK, local
<1>4. CASE LockExpires
  BY <1>4 DEF LockExpires, TypeOK, local
<1>5. ASSUME NEW t \in Tasks, RowGoesStale(t) PROVE TypeOK'
  <2>1. [row[t] EXCEPT !.stale = TRUE] \in Row
    BY DEF TypeOK, Row
  <2>2. row' \in [Tasks -> Row]
    BY <1>5, <2>1 DEF RowGoesStale, TypeOK
  <2>3. QED
    BY <1>5, <2>2 DEF RowGoesStale, TypeOK, local
<1>6. ASSUME NEW o \in Owners, PauseOwner(o) \/ ResumeOwner(o) PROVE TypeOK'
  BY <1>6, <1>f DEF PauseOwner, ResumeOwner, TypeOK, local
<1>7. QED
  BY <1>1, <1>2, <1>3, <1>4, <1>5, <1>6 DEF Environment

LEMMA NextType ==
  ASSUME TypeOK, JobInv, [Next]_vars
  PROVE  TypeOK'
<1>1. CASE Next
  BY <1>1, DispatchType, WorkerType, RequestType, ReconcileType, CleanupType, EnvironmentType
  DEF Next
<1>2. CASE UNCHANGED vars
  BY <1>2 DEF vars, TypeOK
<1>3. QED
  BY <1>1, <1>2

-----------------------------------------------------------------------------
(* Every step of every process preserves the invariant on jobs. *)

LEMMA JobInvKept ==
  ASSUME JobInv, UNCHANGED <<jobs, hold, todo>>,
         \A p \in Procs : pc'[p] \in HolderPC => pc[p] \in HolderPC
  PROVE  JobInv'
BY DEF JobInv, HeldStarted, HeldOnce, TodoUnsent, TodoOnce, JobsKnown, HoldersHold

LEMMA JobInvReturn ==
  ASSUME TypeOK, JobInv, NEW p \in Procs, JobReturns(p), UNCHANGED todo
  PROVE  JobInv'
<1>1. jobs' \in {jobs, [jobs EXCEPT ![hold[p]] = GoneJob]}
      /\ (hold[p] # NoJob => jobs' = [jobs EXCEPT ![hold[p]] = GoneJob])
      /\ hold' = [hold EXCEPT ![p] = NoJob] /\ pc' = [pc EXCEPT ![p] = "idle"]
  BY DEF JobReturns, Goto
<1>2. HeldStarted'
  BY <1>1 DEF TypeOK, JobInv, HeldStarted, HeldOnce
<1>3. TodoUnsent' /\ JobsKnown'
  <2>1. \A j \in Jobs : jobs'[j] = jobs[j] \/ jobs'[j].state = "none"
    BY <1>1 DEF TypeOK, GoneJob
  <2>2. \A q \in Procs : \A e \in todo[q] : e[2] \in Jobs
    BY DEF TypeOK
  <2>3. TodoUnsent'
    BY <2>1, <2>2 DEF JobInv, TodoUnsent
  <2>4. JobsKnown'
    BY <2>1 DEF JobInv, JobsKnown
  <2>5. QED
    BY <2>3, <2>4
<1>4. HeldOnce' /\ TodoOnce'
  BY <1>1 DEF TypeOK, JobInv, HeldOnce, TodoOnce
<1>5. HoldersHold'
  BY <1>1 DEF TypeOK, JobInv, HoldersHold, HolderPC, RunPC
<1>6. QED
  BY <1>2, <1>3, <1>4, <1>5 DEF JobInv

(* A job leaves Redis or changes its registry there, and nobody holds it. *)
LEMMA JobInvMoved ==
  ASSUME TypeOK, JobInv, NEW J \in SUBSET Jobs,
         \A p \in Procs : hold[p] \notin J,
         \A j \in J : jobs[j].state # "none" /\ (jobs'[j] = GoneJob \/ jobs'[j].task = jobs[j].task),
         \A j \in Jobs \ J : jobs'[j] = jobs[j],
         UNCHANGED <<hold, todo, pc>>
  PROVE  JobInv'
<1>1. HeldStarted'
  BY DEF TypeOK, JobInv, HeldStarted
<1>2. TodoUnsent'
  BY DEF TypeOK, JobInv, TodoUnsent
<1>3. JobsKnown'
  BY DEF TypeOK, JobInv, JobsKnown, GoneJob
<1>4. HeldOnce' /\ TodoOnce' /\ HoldersHold'
  BY DEF TypeOK, JobInv, HeldOnce, TodoOnce, HoldersHold
<1>5. QED
  BY <1>1, <1>2, <1>3, <1>4 DEF JobInv

LEMMA DispatchJobInv ==
  ASSUME TypeOK, JobInv, NEW p \in Procs, Dispatch(p)
  PROVE  JobInv'
<1>1. CASE DispatchSkipped(p) \/ ReleaseLock(p)
  BY <1>1, JobInvReturn DEF DispatchSkipped, ReleaseLock
<1>2. CASE CountSlots(p)
  BY <1>2, JobInvKept DEF CountSlots, Goto, TypeOK, HolderPC, RunPC
<1>3. CASE ReserveTasks(p)
  <2>1. PICK S \in SUBSET Tasks : \E id \in [S -> {j \in Jobs : Fresh(j)}] : Reserves(p, S, id)
    BY <1>3, ReserveShape
  <2>2. PICK id \in [S -> {j \in Jobs : Fresh(j)}] : Reserves(p, S, id)
    BY <2>1
  <2>3. /\ todo'[p] = {<<t, id[t]>> : t \in S}
        /\ \A q \in Procs \ {p} : todo'[q] = todo[q]
    BY <2>2 DEF Reserves, TypeOK
  <2>4. \A e \in todo'[p] : e[1] \in S /\ e = <<e[1], id[e[1]]>> /\ e[2] = id[e[1]] /\ Fresh(e[2])
    BY <2>3
  <2>5. UNCHANGED <<jobs, hold>> /\ pc' = [pc EXCEPT ![p] = "enqueue"]
    BY <1>3 DEF ReserveTasks, Goto
  <2>6. TodoUnsent'
    BY <2>3, <2>4, <2>5 DEF JobInv, TodoUnsent, Fresh
  <2>7. ASSUME NEW q \in Procs, NEW r \in Procs, NEW e \in todo'[q], NEW f \in todo'[r],
               e[2] = f[2]
        PROVE  q = r /\ e = f
    <3>1. CASE q = p /\ r = p
      BY <3>1, <2>2, <2>4, <2>7 DEF Reserves
    <3>2. CASE q # p /\ r # p
      BY <3>2, <2>3, <2>7 DEF JobInv, TodoOnce
    <3>3. CASE q = p /\ r # p
      BY <3>3, <2>3, <2>4, <2>7 DEF Fresh
    <3>4. CASE q # p /\ r = p
      BY <3>4, <2>3, <2>4, <2>7 DEF Fresh
    <3>5. QED
      BY <3>1, <3>2, <3>3, <3>4
  <2>8. TodoOnce'
    BY <2>7 DEF TodoOnce
  <2>9. HeldStarted' /\ HeldOnce' /\ JobsKnown' /\ HoldersHold'
    BY <2>5 DEF JobInv, HeldStarted, HeldOnce, JobsKnown, HoldersHold, HolderPC, RunPC, TypeOK
  <2>10. QED
    BY <2>6, <2>8, <2>9 DEF JobInv
<1>4. CASE EnqueueReserved(p) \/ EnqueueFails(p)
  <2>1. PICK e \in todo[p] :
          /\ jobs' \in {jobs, [jobs EXCEPT ![e[2]] = [state |-> "queued", task |-> e[1]]]}
          /\ todo' = [todo EXCEPT ![p] = @ \ {e}]
    BY <1>4 DEF EnqueueReserved, EnqueueFails
  <2>2. e[1] \in Tasks /\ e[2] \in Jobs /\ jobs[e[2]].state = "none"
    BY <2>1 DEF TypeOK, JobInv, TodoUnsent
  <2>3. \A q \in Procs : todo'[q] \subseteq todo[q] /\ e \notin todo'[p]
    BY <2>1 DEF TypeOK
  <2>4. UNCHANGED <<hold, pc>>
    BY <1>4 DEF EnqueueReserved, EnqueueFails
  <2>5. HeldStarted'
    BY <2>1, <2>2, <2>4 DEF JobInv, HeldStarted, TypeOK
  <2>6. TodoUnsent'
    <3>1. \A q \in Procs : \A f \in todo'[q] : f[2] # e[2] /\ f[2] \in Jobs
      BY <2>1, <2>3 DEF JobInv, TodoOnce, TypeOK
    <3>2. QED
      BY <2>1, <2>3, <3>1 DEF JobInv, TodoUnsent, TypeOK
  <2>7. TodoOnce'
    BY <2>3 DEF JobInv, TodoOnce
  <2>8. JobsKnown'
    <3>1. \A j \in Jobs : jobs'[j] = jobs[j] \/ jobs'[j].task = e[1]
      BY <2>1, <2>2 DEF TypeOK
    <3>2. QED
      BY <2>2, <3>1 DEF JobInv, JobsKnown
  <2>9. HeldOnce' /\ HoldersHold'
    BY <2>4 DEF JobInv, HeldOnce, HoldersHold
  <2>10. QED
    BY <2>5, <2>6, <2>7, <2>8, <2>9 DEF JobInv
<1>5. QED
  BY <1>1, <1>2, <1>3, <1>4 DEF Dispatch

LEMMA WorkerJobInv ==
  ASSUME TypeOK, JobInv, NEW w \in Workers, Worker(w)
  PROVE  JobInv'
<1>w. w \in Procs
  BY DEF Procs
<1>1. CASE TakeJob(w)
  <2>1. PICK j \in Jobs : /\ jobs[j].state = "queued"
                         /\ jobs' = [jobs EXCEPT ![j].state = "started"]
                         /\ hold' = [hold EXCEPT ![w] = j]
    BY <1>1 DEF TakeJob
  <2>2. j # NoJob /\ todo' = todo /\ pc' = [pc EXCEPT ![w] = "begin"]
    BY <1>1, ConstantsAssumption DEF TakeJob, Goto
  <2>3. \A q \in Procs : hold[q] # j
    BY <2>1, <2>2 DEF JobInv, HeldStarted
  <2>4. HeldStarted' /\ HeldOnce'
    BY <1>w, <2>1, <2>2, <2>3 DEF JobInv, HeldStarted, HeldOnce, TypeOK, Job
  <2>5. TodoUnsent' /\ TodoOnce'
    BY <2>1, <2>2 DEF JobInv, TodoUnsent, TodoOnce, TypeOK
  <2>6. JobsKnown'
    BY <2>1 DEF JobInv, JobsKnown, TypeOK, Job
  <2>7. HoldersHold'
    BY <1>w, <2>1, <2>2 DEF JobInv, HoldersHold, TypeOK
  <2>8. QED
    BY <2>4, <2>5, <2>6, <2>7 DEF JobInv
<1>2. CASE BeginDeleted(w)
  BY <1>w, <1>2, JobInvReturn DEF BeginDeleted
<1>3. CASE CommitBeginFails(w)
  <2>1. /\ jobs' = [jobs EXCEPT ![hold[w]].state = "failed"]
        /\ hold' = [hold EXCEPT ![w] = NoJob]
        /\ pc' = [pc EXCEPT ![w] = "idle"] /\ todo' = todo
    BY <1>3 DEF CommitBeginFails, Goto
  <2>2. hold[w] # NoJob /\ hold[w] \in Jobs /\ jobs[hold[w]].state = "started"
    <3>1. pc[w] \in HolderPC
      BY <1>3 DEF CommitBeginFails, HolderPC
    <3>2. hold[w] # NoJob
      BY <1>w, <3>1 DEF JobInv, HoldersHold
    <3>3. QED
      BY <1>w, <3>2 DEF JobInv, HeldStarted, TypeOK
  <2>3. HeldStarted'
    BY <1>w, <2>1, <2>2 DEF JobInv, HeldStarted, HeldOnce, TypeOK
  <2>4. TodoUnsent' /\ TodoOnce'
    BY <2>1, <2>2 DEF JobInv, TodoUnsent, TodoOnce, TypeOK
  <2>5. JobsKnown'
    BY <2>1, <2>2 DEF JobInv, JobsKnown, TypeOK, Job
  <2>6. HeldOnce' /\ HoldersHold'
    BY <1>w, <2>1 DEF JobInv, HeldOnce, HoldersHold, TypeOK, HolderPC, RunPC
  <2>7. QED
    BY <2>3, <2>4, <2>5, <2>6 DEF JobInv
<1>4. CASE BeginTask(w)
  BY <1>w, <1>4, JobInvKept DEF BeginTask, Goto, TypeOK, HolderPC
<1>5. CASE CommitBegin(w)
  BY <1>w, <1>5, JobInvKept DEF CommitBegin, Goto, TypeOK, HolderPC
<1>6. CASE CheckCancel(w) \/ WorkItem(w) \/ WorkRaises(w)
  BY <1>w, <1>6, JobInvKept DEF CheckCancel, WorkItem, WorkRaises, Goto, TypeOK, HolderPC, RunPC, local
<1>7. CASE (\E label \in {"check", "finish"} : CommitProgress(w, label)) \/ CommitProgressFails(w)
  BY <1>w, <1>7, JobInvKept DEF CommitProgress, CommitProgressFails, Goto, TypeOK, HolderPC, RunPC
<1>8. CASE FinishTask(w) \/ AbortTask(w) \/ FailTask(w)
  <2>1. PICK statuses : Finalise(w, statuses)
    BY <1>8 DEF FinishTask, AbortTask, FailTask
  <2>2. QED
    BY <1>w, <2>1, JobInvKept DEF Finalise, Goto, TypeOK, HolderPC, RunPC, local
<1>9. QED
  BY <1>1, <1>2, <1>3, <1>4, <1>5, <1>6, <1>7, <1>8 DEF Worker

LEMMA RequestJobInv ==
  ASSUME TypeOK, JobInv, NEW a \in Api, Request(a)
  PROVE  JobInv'
<1>1. a \in Procs
  BY DEF Procs
<1>2. PICK label : label \notin HolderPC /\ pc' = [pc EXCEPT ![a] = label]
  BY DEF Request, CreateTask, RerunTask, CancelTask, DeleteTask, CommitApi, CommitApiFails,
         ThenDispatch, Goto, HolderPC, RunPC
<1>3. UNCHANGED <<jobs, hold, todo>>
  BY DEF Request, CreateTask, RerunTask, CancelTask, DeleteTask, CommitApi, CommitApiFails
<1>4. QED
  BY <1>1, <1>2, <1>3, JobInvKept DEF TypeOK

LEMMA ReconcileJobInv ==
  ASSUME TypeOK, JobInv, NEW p \in Api \cup {Runner}, Reconcile(p)
  PROVE  JobInv'
<1>1. p \in Procs
  BY DEF Procs
<1>2. PICK label : label \notin HolderPC /\ pc' = [pc EXCEPT ![p] = label]
  BY DEF Reconcile, ReadRunning, ProbeRedis, CommitReconcile, CommitReconcileFails,
         Goto, HolderPC, RunPC
<1>3. UNCHANGED <<jobs, hold, todo>>
  BY DEF Reconcile, ReadRunning, ProbeRedis, CommitReconcile, CommitReconcileFails
<1>4. QED
  BY <1>1, <1>2, <1>3, JobInvKept DEF TypeOK

LEMMA CleanupJobInv ==
  ASSUME TypeOK, JobInv, CleanupScheduled
  PROVE  JobInv'
<1>1. PICK S \in SUBSET Tasks :
        jobs' = [j \in Jobs |-> IF jobs[j].task \in S /\ jobs[j].state \in {"queued", "failed"}
                               THEN GoneJob ELSE jobs[j]]
  BY DEF CleanupScheduled
<1> DEFINE J == {j \in Jobs : jobs[j].task \in S /\ jobs[j].state \in {"queued", "failed"}}
<1>2. \A p \in Procs : hold[p] \notin J
  BY ConstantsAssumption DEF JobInv, HeldStarted
<1>3. UNCHANGED <<hold, todo, pc>>
  BY DEF CleanupScheduled, local
<1>4. \A j \in J : jobs[j].state # "none" /\ jobs'[j] = GoneJob
  BY <1>1
<1>5. \A j \in Jobs \ J : jobs'[j] = jobs[j]
  BY <1>1
<1>6. QED
  BY <1>2, <1>3, <1>4, <1>5, JobInvMoved

LEMMA EnvironmentJobInv ==
  ASSUME TypeOK, JobInv, Environment
  PROVE  JobInv'
<1>1. ASSUME NEW p \in Procs, Crash(p) PROVE JobInv'
  <2>1. /\ jobs' = jobs /\ hold' = [hold EXCEPT ![p] = NoJob]
        /\ todo' = [todo EXCEPT ![p] = {}] /\ pc' = [pc EXCEPT ![p] = "idle"]
    BY <1>1 DEF Crash, Goto
  <2>2. HeldStarted' /\ HeldOnce' /\ JobsKnown' /\ HoldersHold'
    BY <2>1 DEF JobInv, HeldStarted, HeldOnce, JobsKnown, HoldersHold, HolderPC, RunPC, TypeOK
  <2>3. TodoUnsent' /\ TodoOnce'
    BY <2>1 DEF JobInv, TodoUnsent, TodoOnce, TypeOK
  <2>4. QED
    BY <2>2, <2>3 DEF JobInv
<1>2. ASSUME NEW j \in Jobs, JobFails(j) PROVE JobInv'
  <2>1. \A p \in Procs : hold[p] \notin {j}
    BY <1>2, ConstantsAssumption DEF JobFails, JobInv, HoldersHold
  <2>2. jobs'[j].task = jobs[j].task /\ jobs[j].state # "none"
    BY <1>2 DEF JobFails, TypeOK, Job
  <2>3. \A k \in Jobs \ {j} : jobs'[k] = jobs[k]
    BY <1>2 DEF JobFails, TypeOK
  <2>4. UNCHANGED <<hold, todo, pc>>
    BY <1>2 DEF JobFails, local
  <2>5. QED
    BY <2>1, <2>2, <2>3, <2>4, JobInvMoved
<1>3. ASSUME NEW j \in Jobs, FailedJobExpires(j) \/ LoseJob(j) PROVE JobInv'
  <2>1. \A p \in Procs : hold[p] \notin {j}
    BY <1>3, ConstantsAssumption DEF FailedJobExpires, LoseJob, JobInv, HeldStarted
  <2>2. jobs'[j] = GoneJob /\ jobs[j].state # "none"
    BY <1>3 DEF FailedJobExpires, LoseJob, TypeOK
  <2>3. \A k \in Jobs \ {j} : jobs'[k] = jobs[k]
    BY <1>3 DEF FailedJobExpires, LoseJob, TypeOK
  <2>4. UNCHANGED <<hold, todo, pc>>
    BY <1>3 DEF FailedJobExpires, LoseJob, local
  <2>5. QED
    BY <2>1, <2>2, <2>3, <2>4, JobInvMoved
<1>4. ASSUME NEW t \in Tasks, RowGoesStale(t) PROVE JobInv'
  BY <1>4, JobInvKept DEF RowGoesStale, local
<1>5. ASSUME NEW o \in Owners, PauseOwner(o) \/ ResumeOwner(o) PROVE JobInv'
  BY <1>5, JobInvKept DEF PauseOwner, ResumeOwner, local
<1>6. CASE LockExpires
  BY <1>6, JobInvKept DEF LockExpires, local
<1>7. QED
  BY <1>1, <1>2, <1>3, <1>4, <1>5, <1>6 DEF Environment

LEMMA NextJobInv ==
  ASSUME TypeOK, JobInv, [Next]_vars
  PROVE  JobInv'
<1>1. CASE Next
  BY <1>1, DispatchJobInv, WorkerJobInv, RequestJobInv, ReconcileJobInv, CleanupJobInv,
     EnvironmentJobInv
  DEF Next
<1>2. CASE UNCHANGED vars
  BY <1>2, JobInvKept DEF vars
<1>3. QED
  BY <1>1, <1>2

LEMMA InitTyped == Init => TypeOK /\ JobInv
<1> SUFFICES ASSUME Init PROVE TypeOK /\ JobInv
  OBVIOUS
<1>1. TypeOK
  BY ConstantsAssumption, BasicTypes
  DEF Init, TypeOK, NewRow, Row, Statuses, PCs
<1>2. JobInv
  BY DEF Init, JobInv, HeldStarted, HeldOnce, TodoUnsent, TodoOnce, JobsKnown, HoldersHold,
         HolderPC, RunPC, GoneJob
<1>3. QED
  BY <1>1, <1>2

(* Every variable holds values of its kind in every reachable state. *)
THEOREM Typing == Spec => []TypeOK
<1>1. Spec => [](TypeOK /\ JobInv)
  <2>1. TypeOK /\ JobInv /\ [Next]_vars => (TypeOK /\ JobInv)'
    BY NextType, NextJobInv
  <2>2. QED
    BY InitTyped, <2>1, PTL DEF Spec
<1>2. QED
  BY <1>1, PTL

-----------------------------------------------------------------------------
(***************************************************************************)
(* The dispatcher never exceeds a lane's limit, for every number of tasks, *)
(* lanes, workers and API threads, provided unlocked transactions do not   *)
(* overlap and the dispatch lock outlives its holder's critical section;   *)
(* what runs keeps to the limit even if the lock does not.                 *)
(***************************************************************************)

InUse(t) == row[t].status = "running" \/ (row[t].status = "queued" /\ row[t].job # NoJob)
Used(l) == Running(l) \cup Reserved(l)

(* Whoever counts, reserves or enqueues holds the dispatch lock. *)
LockHeld == \A p \in Procs : pc[p] \in LockPC => lock = p

(* At most one unlocked transaction is open, and only open ones have a plan. *)
OneTxn == \A p, q \in Procs : pc[p] \in TxnPC /\ pc[q] \in TxnPC => p = q
PlansOpen == \A p \in Procs : \A t \in Tasks : plan[p][t] # "none" => pc[p] \in TxnPC

(* A task that is about to start already counts against its lane. *)
StartsReserved == \A p \in Procs : \A t \in Tasks : plan[p][t] = "start" => InUse(t)

(* The slots counted under the lock are still free. *)
SlotsFree == \A p \in Procs : pc[p] = "reserve" =>
               \A l \in Lanes : \/ slots[p][l] = 0
                                \/ Cardinality(Used(l)) + slots[p][l] <= Limit[l]

CapInv == CapacityRespected /\ LockHeld /\ OneTxn /\ PlansOpen /\ StartsReserved /\ SlotsFree

-----------------------------------------------------------------------------
LEMMA UsedTasks ==
  ASSUME NEW l \in Lanes
  PROVE  /\ Used(l) = {t \in Tasks : LaneOf[t] = l /\ InUse(t)}
         /\ Used(l) \in SUBSET Tasks
         /\ Cardinality(Used(l)) \in Nat
<1>1. Used(l) = {t \in Tasks : LaneOf[t] = l /\ InUse(t)}
  BY DEF Used, InUse, Running, Reserved
<1>2. QED
  BY <1>1, TasksFinite

LEMMA UnionBound ==
  ASSUME NEW S \in SUBSET Tasks, NEW T \in SUBSET Tasks
  PROVE  /\ IsFiniteSet(S \cup T)
         /\ Cardinality(S \cup T) <= Cardinality(S) + Cardinality(T)
<1>1. IsFiniteSet(S) /\ IsFiniteSet(T)
  BY TasksFinite
<1>2. Cardinality(S) \in Nat /\ Cardinality(T) \in Nat /\ Cardinality(S \cap T) \in Nat
  BY TasksFinite
<1>3. /\ IsFiniteSet(S \cup T)
      /\ Cardinality(S \cup T) = Cardinality(S) + Cardinality(T) - Cardinality(S \cap T)
  BY <1>1, FS_Union
<1>4. QED
  BY <1>2, <1>3

(* If no task comes into use, no lane's count grows. *)
LEMMA UsedShrinks ==
  ASSUME \A t \in Tasks : InUse(t)' => InUse(t), NEW l \in Lanes
  PROVE  Cardinality(Used(l)') <= Cardinality(Used(l)) /\ Cardinality(Used(l)') \in Nat
<1>1. Used(l)' = {t \in Tasks : LaneOf[t] = l /\ InUse(t)'}
  BY DEF Used, InUse, Running, Reserved
<1>2. Used(l)' \in SUBSET Used(l)
  BY <1>1, UsedTasks
<1>3. IsFiniteSet(Used(l))
  BY UsedTasks, TasksFinite
<1>4. QED
  BY <1>2, <1>3, FS_Subset, FS_CardinalityType

(* A step of p that brings no task into use preserves the invariant, if it  *)
(* respects the lock and the turn and leaves the other processes alone.     *)
LEMMA CapKept ==
  ASSUME Serial, TypeOK, CapInv, NEW p \in Procs,
         \A t \in Tasks : InUse(t)' => InUse(t),
         Turn(p) \/ pc[p] \in TxnPC \/ \A t \in Tasks : InUse(t) => InUse(t)',
         \A q \in Procs \ {p} : pc'[q] = pc[q] /\ plan'[q] = plan[q] /\ slots'[q] = slots[q],
         \A t \in Tasks : plan'[p][t] # "none" => pc'[p] \in TxnPC,
         \A t \in Tasks : plan'[p][t] = "start" => InUse(t)',
         pc'[p] \in TxnPC => pc[p] \in TxnPC \/ Turn(p),
         pc'[p] \in LockPC => lock' = p,
         \A q \in Procs \ {p} : lock = q /\ pc[q] \in LockPC => lock' = q,
         pc'[p] = "reserve" =>
           \A l \in Lanes : slots'[p][l] = 0 \/ Cardinality(Used(l)') + slots'[p][l] <= Limit[l]
  PROVE  CapInv'
<1>1. CapacityRespected'
  <2> SUFFICES ASSUME NEW l \in Lanes PROVE Cardinality(Used(l)') <= Limit[l]
    BY DEF CapacityRespected, Used
  <2>1. Cardinality(Used(l)) <= Limit[l] /\ Limit[l] \in Nat
    BY ConstantsAssumption DEF CapInv, CapacityRespected, Used
  <2>2. QED
    BY <2>1, UsedShrinks, UsedTasks
<1>2. LockHeld'
  BY DEF CapInv, LockHeld
<1>3. OneTxn'
  BY DEF CapInv, OneTxn, Turn
<1>4. PlansOpen'
  BY DEF CapInv, PlansOpen
<1>5. StartsReserved'
  <2> SUFFICES ASSUME NEW q \in Procs \ {p}, NEW t \in Tasks, plan[q][t] = "start"
               PROVE  InUse(t)'
    BY DEF StartsReserved
  <2>1. InUse(t) /\ pc[q] \in TxnPC
    BY DEF CapInv, StartsReserved, PlansOpen
  <2>2. QED
    BY <2>1 DEF CapInv, OneTxn, Turn
<1>6. SlotsFree'
  <2> SUFFICES ASSUME NEW q \in Procs \ {p}, pc[q] = "reserve", NEW l \in Lanes
               PROVE  slots[q][l] = 0 \/ Cardinality(Used(l)') + slots[q][l] <= Limit[l]
    BY DEF SlotsFree
  <2>1. slots[q][l] = 0 \/ Cardinality(Used(l)) + slots[q][l] <= Limit[l]
    BY DEF CapInv, SlotsFree
  <2>2. slots[q][l] \in Nat /\ Limit[l] \in Nat
    BY ConstantsAssumption DEF TypeOK
  <2>3. QED
    BY <2>1, <2>2, UsedShrinks, UsedTasks
<1>7. QED
  BY <1>1, <1>2, <1>3, <1>4, <1>5, <1>6 DEF CapInv

(* The same for a step of p to a label outside transactions and the lock. *)
LEMMA CapLeft ==
  ASSUME Serial, TypeOK, CapInv, NEW p \in Procs, NEW label,
         label \notin TxnPC \cup LockPC,
         pc' = [pc EXCEPT ![p] = label],
         plan' = [plan EXCEPT ![p] = NoPlan] \/ (plan' = plan /\ pc[p] \notin TxnPC),
         slots' = slots \/ slots' = [slots EXCEPT ![p] = NoSlots],
         lock' = lock \/ lock = p,
         \A t \in Tasks : InUse(t)' => InUse(t),
         Turn(p) \/ pc[p] \in TxnPC \/ \A t \in Tasks : InUse(t) => InUse(t)'
  PROVE  CapInv'
<1>1. \A t \in Tasks : plan'[p][t] = "none"
  BY DEF TypeOK, NoPlan, CapInv, PlansOpen
<1>2. pc'[p] \notin TxnPC \cup LockPC /\ pc'[p] # "reserve"
  BY DEF TypeOK, LockPC
<1>3. \A q \in Procs \ {p} : pc'[q] = pc[q] /\ plan'[q] = plan[q] /\ slots'[q] = slots[q]
  BY DEF TypeOK
<1>4. QED
  BY <1>1, <1>2, <1>3, CapKept

(* The same for a step of p that opens a transaction or goes on with one. *)
LEMMA CapOpened ==
  ASSUME Serial, TypeOK, CapInv, NEW p \in Procs, NEW label, NEW f,
         label \in TxnPC, pc[p] \in TxnPC \/ Turn(p),
         pc' = [pc EXCEPT ![p] = label],
         plan' = [plan EXCEPT ![p] = f],
         \A t \in Tasks : f[t] = "start" => InUse(t),
         UNCHANGED <<row, lock, slots>>
  PROVE  CapInv'
<1>1. \A t \in Tasks : InUse(t)' <=> InUse(t)
  BY DEF InUse
<1>2. pc'[p] = label /\ label \notin LockPC /\ pc'[p] # "reserve" /\ plan'[p] = f
  BY DEF TypeOK, LockPC, TxnPC
<1>3. \A q \in Procs \ {p} : pc'[q] = pc[q] /\ plan'[q] = plan[q] /\ slots'[q] = slots[q]
  BY DEF TypeOK
<1>4. QED
  BY <1>1, <1>2, <1>3, CapKept

(* The same for a step that moves no process. *)
LEMMA CapStays ==
  ASSUME Serial, TypeOK, CapInv, UNCHANGED <<pc, plan, slots>>,
         \A p \in Procs : lock = p /\ pc[p] \in LockPC => lock' = p,
         \A t \in Tasks : InUse(t)' => InUse(t),
         \/ \A t \in Tasks : InUse(t) => InUse(t)'
         \/ \E p \in Procs : Turn(p) /\ pc[p] \notin TxnPC
  PROVE  CapInv'
<1>1. PICK p \in Procs : Turn(p) \/ \A t \in Tasks : InUse(t) => InUse(t)'
  BY DEF Procs
<1>2. \A t \in Tasks : plan[p][t] = "start" => InUse(t)'
  <2> SUFFICES ASSUME NEW t \in Tasks, plan[p][t] = "start" PROVE InUse(t)'
    OBVIOUS
  <2>1. InUse(t) /\ pc[p] \in TxnPC
    BY DEF CapInv, StartsReserved, PlansOpen
  <2>2. CASE \A u \in Tasks : InUse(u) => InUse(u)'
    BY <2>1, <2>2
  <2>3. CASE \E q \in Procs : Turn(q) /\ pc[q] \notin TxnPC
    BY <2>1, <2>3 DEF Turn
  <2>4. QED
    BY <2>2, <2>3
<1>3. pc[p] = "reserve" =>
        \A l \in Lanes : slots[p][l] = 0 \/ Cardinality(Used(l)') + slots[p][l] <= Limit[l]
  <2> SUFFICES ASSUME pc[p] = "reserve", NEW l \in Lanes
               PROVE  slots[p][l] = 0 \/ Cardinality(Used(l)') + slots[p][l] <= Limit[l]
    OBVIOUS
  <2>1. slots[p][l] = 0 \/ Cardinality(Used(l)) + slots[p][l] <= Limit[l]
    BY DEF CapInv, SlotsFree
  <2>2. slots[p][l] \in Nat /\ Limit[l] \in Nat
    BY ConstantsAssumption DEF TypeOK
  <2>3. QED
    BY <2>1, <2>2, UsedShrinks, UsedTasks
<1>4. pc[p] \in LockPC => lock' = p
  BY DEF CapInv, LockHeld
<1>5. \A t \in Tasks : plan[p][t] # "none" => pc[p] \in TxnPC
  BY DEF CapInv, PlansOpen
<1>6. QED
  BY <1>1, <1>2, <1>3, <1>4, <1>5, CapKept

(* No write but "start" brings a row into use. *)
RowInUse(r) == r.status = "running" \/ (r.status = "queued" /\ r.job # NoJob)

LEMMA WrittenUse ==
  ASSUME NEW r \in Row, NEW w \in Writes, w # "start", RowInUse(Written(r, w))
  PROVE  RowInUse(r)
<1>1. CASE w \in {"cancel", "cancelDrop", "requeue", "fail", "delete"}
  BY <1>1 DEF RowInUse, Written, NewRow, Row
<1>2. CASE w \in {"drop", "mark", "progress", "progressMarked", "progressPlain"}
  BY <1>2 DEF RowInUse, Written, Row
<1>3. CASE w \in {"none"} \cup Probes
  BY <1>3 DEF RowInUse, Written, Probes
<1>4. QED
  BY <1>1, <1>2, <1>3 DEF Writes

(* A commit brings no task into use. *)
LEMMA CommitShrinks ==
  ASSUME TypeOK, CapInv, NEW p \in Procs, CommitPlan(p), NEW t \in Tasks, InUse(t)'
  PROVE  InUse(t)
<1>1. row'[t] = Written(row[t], plan[p][t]) /\ row[t] \in Row /\ plan[p][t] \in Writes
  BY DEF CommitPlan, TypeOK
<1>2. CASE plan[p][t] = "start"
  BY <1>2 DEF CapInv, StartsReserved
<1>3. CASE plan[p][t] # "start"
  BY <1>1, <1>3, WrittenUse DEF InUse, RowInUse
<1>4. QED
  BY <1>2, <1>3

-----------------------------------------------------------------------------
LEMMA DispatchCap ==
  ASSUME Serial, TypeOK, CapInv, NEW p \in Procs, Dispatch(p)
  PROVE  CapInv'
<1>1. CASE DispatchSkipped(p) \/ ReleaseLock(p)
  <2>1. pc' = [pc EXCEPT ![p] = "idle"] /\ UNCHANGED <<row, plan, slots>>
        /\ pc[p] \in {"lock", "enqueue"} /\ (lock' = lock \/ lock = p)
    BY <1>1 DEF DispatchSkipped, ReleaseLock, JobReturns, Goto
  <2>2. \A t \in Tasks : InUse(t)' <=> InUse(t)
    BY <2>1 DEF InUse
  <2>3. "idle" \notin TxnPC \cup LockPC /\ pc[p] \notin TxnPC
    BY <2>1 DEF TxnPC, LockPC
  <2>4. QED
    BY <2>1, <2>2, <2>3, CapLeft
<1>2. CASE CountSlots(p)
  <2>1. /\ lock = NoProc /\ lock' = p /\ pc[p] = "lock" /\ UNCHANGED <<row, plan>>
        /\ pc' = [pc EXCEPT ![p] = "reserve"]
        /\ slots' = [slots EXCEPT ![p] = [l \in Lanes |->
                        IF OwnerOf[l] \in scope[p] \ paused THEN FreeSlots(l) ELSE 0]]
    BY <1>2 DEF CountSlots, Goto
  <2>2. \A t \in Tasks : InUse(t)' <=> InUse(t)
    BY <2>1 DEF InUse
  <2>3. \A l \in Lanes : slots'[p][l] = 0 \/ Cardinality(Used(l)') + slots'[p][l] <= Limit[l]
    <3> SUFFICES ASSUME NEW l \in Lanes, slots'[p][l] # 0
                 PROVE  Cardinality(Used(l)') + slots'[p][l] <= Limit[l]
      OBVIOUS
    <3>1. slots'[p][l] = FreeSlots(l)
      BY <2>1 DEF TypeOK
    <3>2. Running(l) \in SUBSET Tasks /\ Reserved(l) \in SUBSET Tasks /\ Limit[l] \in Nat
      BY ConstantsAssumption DEF Running, Reserved
    <3>3. /\ IsFiniteSet(Running(l)) /\ Cardinality(Running(l)) \in Nat
          /\ IsFiniteSet(Reserved(l)) /\ Cardinality(Reserved(l)) \in Nat
      BY <3>2, TasksFinite
    <3>5. Cardinality(Used(l)) <= Cardinality(Running(l)) + Cardinality(Reserved(l))
      BY <3>2, UnionBound DEF Used
    <3>6. Cardinality(Used(l)') <= Cardinality(Used(l)) /\ Cardinality(Used(l)') \in Nat
      BY <2>2, UsedShrinks
    <3>7. Cardinality(Used(l)) \in Nat
      BY UsedTasks
    <3>8. QED
      BY <3>1, <3>2, <3>3, <3>5, <3>6, <3>7 DEF FreeSlots
  <2>4. \A q \in Procs \ {p} : pc'[q] = pc[q] /\ plan'[q] = plan[q] /\ slots'[q] = slots[q]
    BY <2>1 DEF TypeOK
  <2>5. pc'[p] \notin TxnPC /\ pc[p] \notin TxnPC
    BY <2>1 DEF TypeOK, TxnPC
  <2>6. \A t \in Tasks : plan'[p][t] = "none"
    BY <2>1, <2>5 DEF CapInv, PlansOpen
  <2>7. \A q \in Procs : lock # q
    BY <2>1, ConstantsAssumption DEF Procs
  <2>8. QED
    BY <2>1, <2>2, <2>3, <2>4, <2>5, <2>6, <2>7, CapKept
<1>3. CASE ReserveTasks(p)
  <2>1. PICK S \in SUBSET Tasks : \E id \in [S -> {j \in Jobs : Fresh(j)}] : Reserves(p, S, id)
    BY <1>3, ReserveShape
  <2>2. PICK id \in [S -> {j \in Jobs : Fresh(j)}] : Reserves(p, S, id)
    BY <2>1
  <2>3. /\ pc[p] = "reserve" /\ Turn(p) /\ UNCHANGED <<lock, plan>>
        /\ pc' = [pc EXCEPT ![p] = "enqueue"] /\ slots' = [slots EXCEPT ![p] = NoSlots]
    BY <1>3 DEF ReserveTasks, Goto
  <2>4. lock = p
    BY <2>3 DEF CapInv, LockHeld, LockPC
  <2>5. \A t \in Tasks : InUse(t)' => InUse(t) \/ t \in S
    BY <2>2 DEF Reserves, InUse, TypeOK
  <2>6. CapacityRespected'
    <3> SUFFICES ASSUME NEW l \in Lanes PROVE Cardinality(Used(l)') <= Limit[l]
      BY DEF CapacityRespected, Used
    <3> DEFINE T == {t \in S : LaneOf[t] = l}
    <3>1. Used(l)' = {t \in Tasks : LaneOf[t] = l /\ InUse(t)'}
      BY DEF Used, InUse, Running, Reserved
    <3>2. Used(l)' \in SUBSET (Used(l) \cup T)
      BY <2>5, <3>1, UsedTasks
    <3>3. /\ IsFiniteSet(T) /\ Cardinality(T) \in Nat
          /\ IsFiniteSet(Used(l)) /\ Cardinality(Used(l)) \in Nat
      BY UsedTasks, TasksFinite
    <3>4. /\ IsFiniteSet(Used(l) \cup T)
          /\ Cardinality(Used(l) \cup T) <= Cardinality(Used(l)) + Cardinality(T)
      BY UsedTasks, UnionBound
    <3>5. Cardinality(Used(l)') <= Cardinality(Used(l) \cup T)
          /\ Cardinality(Used(l)') \in Nat /\ Cardinality(Used(l) \cup T) \in Nat
      BY <3>2, <3>4, FS_Subset, FS_CardinalityType
    <3>6. Cardinality(T) <= slots[p][l]
      BY <2>2 DEF Reserves, Oldest
    <3>7. slots[p][l] = 0 \/ Cardinality(Used(l)) + slots[p][l] <= Limit[l]
      BY <2>3 DEF CapInv, SlotsFree
    <3>8. Cardinality(Used(l)) <= Limit[l]
      BY DEF CapInv, CapacityRespected, Used
    <3>9. slots[p][l] \in Nat /\ Limit[l] \in Nat
      BY ConstantsAssumption DEF TypeOK
    <3>10. QED
      BY <3>3, <3>4, <3>5, <3>6, <3>7, <3>8, <3>9
  <2>7. \A q \in Procs \ {p} : pc'[q] = pc[q] /\ slots'[q] = slots[q] /\ pc[q] \notin LockPC
    BY <2>3, <2>4 DEF TypeOK, CapInv, LockHeld
  <2>8. LockHeld' /\ SlotsFree'
    BY <2>3, <2>4, <2>7 DEF LockHeld, SlotsFree, TypeOK, LockPC
  <2>9. OneTxn' /\ PlansOpen'
    BY <2>3, <2>7 DEF CapInv, OneTxn, PlansOpen, TypeOK, TxnPC
  <2>10. StartsReserved'
    <3>1. \A q \in Procs : \A t \in Tasks : plan[q][t] # "start"
      BY <2>3 DEF CapInv, PlansOpen, Turn, TxnPC
    <3>2. QED
      BY <2>3, <3>1 DEF StartsReserved
  <2>11. QED
    BY <2>6, <2>8, <2>9, <2>10 DEF CapInv
<1>4. CASE EnqueueReserved(p)
  <2>1. UNCHANGED <<row, lock, pc, plan, slots>>
    BY <1>4 DEF EnqueueReserved
  <2>2. \A t \in Tasks : InUse(t)' <=> InUse(t)
    BY <2>1 DEF InUse
  <2>3. QED
    BY <2>1, <2>2, CapStays
<1>5. CASE EnqueueFails(p)
  <2>1. UNCHANGED <<lock, pc, plan, slots>> /\ Turn(p) /\ pc[p] \notin TxnPC
    BY <1>5 DEF EnqueueFails, TxnPC
  <2>2. PICK e \in todo[p] : row' \in {row, [row EXCEPT ![e[1]] = Written(row[e[1]], "drop")]}
    BY <1>5 DEF EnqueueFails
  <2>3. \A t \in Tasks : InUse(t)' => InUse(t)
    <3> SUFFICES ASSUME NEW t \in Tasks, InUse(t)' PROVE InUse(t)
      OBVIOUS
    <3>1. row'[t] = row[t] \/ row'[t] = Written(row[t], "drop")
      BY <2>2 DEF TypeOK
    <3>2. row[t] \in Row /\ "drop" \in Writes
      BY DEF TypeOK, Writes
    <3>3. QED
      BY <3>1, <3>2, WrittenUse DEF InUse, RowInUse
  <2>4. QED
    BY <2>1, <2>3, CapStays
<1>6. QED
  BY <1>1, <1>2, <1>3, <1>4, <1>5 DEF Dispatch

(* run_task starts only the queued task that its job was reserved for. *)
LEMMA BeginStarts ==
  ASSUME NEW j, NEW t, NEW u \in Tasks, BeginPlan(j, t)[u] = "start"
  PROVE  u = t /\ row[t].status = "queued" /\ row[t].job = j
BY DEF BeginPlan, NoPlan

LEMMA WorkerCap ==
  ASSUME Serial, TypeOK, JobInv, CapInv, NEW w \in Workers, Worker(w)
  PROVE  CapInv'
<1>w. w \in Procs
  BY DEF Procs
<1>l. \A label \in {"idle", "begin", "check", "work", "finish", "abort", "fault", "lock"} :
        label \notin TxnPC \cup LockPC
  BY DEF TxnPC, LockPC
<1>1. CASE TakeJob(w) \/ BeginDeleted(w) \/ CheckCancel(w) \/ WorkRaises(w)
  <2>1. PICK label \in {"idle", "begin", "abort", "work", "fault"} :
          pc' = [pc EXCEPT ![w] = label]
    BY <1>1 DEF TakeJob, BeginDeleted, JobReturns, CheckCancel, WorkRaises, Goto
  <2>2. UNCHANGED <<row, lock, plan, slots>>
    BY <1>1 DEF TakeJob, BeginDeleted, CheckCancel, WorkRaises, local
  <2>3. pc[w] \notin TxnPC
    BY <1>1 DEF TakeJob, BeginDeleted, CheckCancel, WorkRaises, TxnPC
  <2>4. \A t \in Tasks : InUse(t)' <=> InUse(t)
    BY <2>2 DEF InUse
  <2>5. QED
    BY <1>w, <1>l, <2>1, <2>2, <2>3, <2>4, CapLeft
<1>2. CASE BeginTask(w)
  <2>1. \A t \in Tasks : BeginPlan(hold[w], TaskOf(w))[t] = "start" => InUse(t)
    <3>1. hold[w] # NoJob
      <4>1. pc[w] \in HolderPC
        BY <1>2 DEF BeginTask, HolderPC
      <4>2. QED
        BY <1>w, <4>1 DEF JobInv, HoldersHold
    <3>2. QED
      BY <3>1, BeginStarts DEF InUse
  <2>2. /\ pc' = [pc EXCEPT ![w] = "begun"] /\ Turn(w) /\ "begun" \in TxnPC
        /\ plan' = [plan EXCEPT ![w] = BeginPlan(hold[w], TaskOf(w))]
        /\ UNCHANGED <<row, lock, slots>>
    BY <1>2 DEF BeginTask, Goto, TxnPC
  <2>3. QED
    BY <1>w, <2>1, <2>2, CapOpened
<1>3. CASE CommitBegin(w) \/ \E label \in {"check", "finish"} : CommitProgress(w, label)
  <2>1. PICK label \in {"check", "lock", "finish"} : pc' = [pc EXCEPT ![w] = label]
    BY <1>3 DEF CommitBegin, CommitProgress, Goto
  <2>2. CommitPlan(w) /\ UNCHANGED <<lock, slots>> /\ pc[w] \in TxnPC
    BY <1>3 DEF CommitBegin, CommitProgress, TxnPC
  <2>3. \A t \in Tasks : InUse(t)' => InUse(t)
    BY <1>w, <2>2, CommitShrinks
  <2>4. plan' = [plan EXCEPT ![w] = NoPlan]
    BY <2>2 DEF CommitPlan
  <2>5. QED
    BY <1>w, <1>l, <2>1, <2>2, <2>3, <2>4, CapLeft
<1>4. CASE CommitBeginFails(w) \/ CommitProgressFails(w)
  <2>1. PICK label \in {"idle", "fault"} : pc' = [pc EXCEPT ![w] = label]
    BY <1>4 DEF CommitBeginFails, CommitProgressFails, Goto
  <2>2. plan' = [plan EXCEPT ![w] = NoPlan] /\ UNCHANGED <<row, lock, slots>> /\ pc[w] \in TxnPC
    BY <1>4 DEF CommitBeginFails, CommitProgressFails, Abandon, TxnPC
  <2>3. \A t \in Tasks : InUse(t)' <=> InUse(t)
    BY <2>2 DEF InUse
  <2>4. QED
    BY <1>w, <1>l, <2>1, <2>2, <2>3, CapLeft
<1>5. CASE WorkItem(w)
  <2>1. PICK write \in ProgressWrites(TaskOf(w)) : plan' = [plan EXCEPT ![w][TaskOf(w)] = write]
    BY <1>5 DEF WorkItem
  <2>2. write # "start"
    BY DEF ProgressWrites
  <2>3. pc[w] = "work" /\ pc[w] \notin TxnPC
    BY <1>5 DEF WorkItem, TxnPC
  <2>4. \A t \in Tasks : plan[w][t] = "none"
    BY <1>w, <2>3 DEF CapInv, PlansOpen
  <2> DEFINE f == [plan[w] EXCEPT ![TaskOf(w)] = write]
  <2>5. \A t \in Tasks : f[t] # "start"
    BY <1>w, <2>2, <2>4 DEF TypeOK
  <2>6. /\ pc' = [pc EXCEPT ![w] = "progress"] /\ Turn(w) /\ "progress" \in TxnPC
        /\ UNCHANGED <<row, lock, slots>>
    BY <1>5 DEF WorkItem, Goto, TxnPC
  <2>7. plan' = [plan EXCEPT ![w] = f]
    BY <2>1
  <2> HIDE DEF f
  <2>8. QED
    BY <1>w, <2>5, <2>6, <2>7, CapOpened
<1>6. CASE FinishTask(w) \/ AbortTask(w) \/ FailTask(w)
  <2>1. PICK statuses \in SUBSET Terminal : Finalise(w, statuses)
    BY <1>6 DEF FinishTask, AbortTask, FailTask, Terminal
  <2>2. pc[w] \notin TxnPC
    BY <1>6 DEF FinishTask, AbortTask, FailTask, TxnPC
  <2>3. \A t \in Tasks : InUse(t)' => InUse(t)
    <3>1. CASE row' = row
      BY <3>1 DEF InUse
    <3>2. CASE row' # row
      <4>1. PICK s \in Terminal :
              row' = [row EXCEPT ![TaskOf(w)] =
                        [@ EXCEPT !.status = s, !.marked = FALSE, !.stale = FALSE]]
        BY <2>1, <3>2 DEF Finalise
      <4>2. \A t \in Tasks : row'[t] = row[t] \/ row'[t].status \in Terminal
        BY <4>1 DEF TypeOK, Row
      <4>3. QED
        BY <4>2 DEF InUse, Terminal
    <3>3. QED
      BY <3>1, <3>2
  <2>4. pc' = [pc EXCEPT ![w] = "lock"] /\ Turn(w) /\ UNCHANGED <<lock, plan, slots>>
    BY <2>1 DEF Finalise, Goto, local
  <2>5. QED
    BY <1>w, <1>l, <2>2, <2>3, <2>4, CapLeft
<1>7. QED
  BY <1>1, <1>2, <1>3, <1>4, <1>5, <1>6 DEF Worker

LEMMA RequestCap ==
  ASSUME Serial, TypeOK, CapInv, NEW a \in Api, Request(a)
  PROVE  CapInv'
<1>a. a \in Procs
  BY DEF Procs
<1>l. "idle" \notin TxnPC \cup LockPC /\ "lock" \notin TxnPC \cup LockPC
      /\ "apply" \in TxnPC
  BY DEF TxnPC, LockPC
<1>1. CASE CreateTask(a)
  <2>1. /\ pc' = [pc EXCEPT ![a] = "lock"] /\ pc[a] = "idle" /\ UNCHANGED <<lock, plan, slots>>
    BY <1>1 DEF CreateTask, ThenDispatch, Goto
  <2>2. PICK t \in Tasks : /\ row[t].status = "new"
                          /\ row' = [row EXCEPT ![t] = [NewRow EXCEPT !.status = "queued"]]
    BY <1>1 DEF CreateTask
  <2>3. \A u \in Tasks : InUse(u)' <=> InUse(u)
    BY <2>2 DEF InUse, NewRow, TypeOK
  <2>4. QED
    BY <1>a, <1>l, <2>1, <2>3, CapLeft
<1>2. CASE RerunTask(a) \/ CancelTask(a) \/ DeleteTask(a)
  <2>1. PICK t \in Tasks, write \in Writes :
          write # "start" /\ plan' = [plan EXCEPT ![a][t] = write]
    BY <1>2 DEF RerunTask, CancelTask, DeleteTask, Writes
  <2>2. pc[a] = "idle" /\ Turn(a) /\ pc' = [pc EXCEPT ![a] = "apply"]
        /\ UNCHANGED <<row, lock, slots>>
    BY <1>2 DEF RerunTask, CancelTask, DeleteTask, Goto
  <2>3. \A u \in Tasks : plan[a][u] = "none"
    BY <1>a, <1>l, <2>2 DEF CapInv, PlansOpen
  <2> DEFINE f == [plan[a] EXCEPT ![t] = write]
  <2>4. \A u \in Tasks : f[u] # "start"
    BY <1>a, <2>1, <2>3 DEF TypeOK
  <2>5. plan' = [plan EXCEPT ![a] = f]
    BY <2>1
  <2> HIDE DEF f
  <2>6. QED
    BY <1>a, <1>l, <2>2, <2>4, <2>5, CapOpened
<1>3. CASE CommitApi(a)
  <2>1. PICK label \in {"idle", "lock"} : pc' = [pc EXCEPT ![a] = label]
    BY <1>3 DEF CommitApi, Goto
  <2>2. CommitPlan(a) /\ UNCHANGED <<lock, slots>> /\ pc[a] \in TxnPC
        /\ plan' = [plan EXCEPT ![a] = NoPlan]
    BY <1>3 DEF CommitApi, TxnPC, CommitPlan
  <2>3. \A t \in Tasks : InUse(t)' => InUse(t)
    BY <1>a, <2>2, CommitShrinks
  <2>4. QED
    BY <1>a, <1>l, <2>1, <2>2, <2>3, CapLeft
<1>4. CASE CommitApiFails(a)
  <2>1. /\ pc' = [pc EXCEPT ![a] = "idle"] /\ plan' = [plan EXCEPT ![a] = NoPlan]
        /\ UNCHANGED <<row, lock, slots>> /\ pc[a] \in TxnPC
    BY <1>4 DEF CommitApiFails, Abandon, Goto, TxnPC
  <2>2. \A t \in Tasks : InUse(t)' <=> InUse(t)
    BY <2>1 DEF InUse
  <2>3. QED
    BY <1>a, <1>l, <2>1, <2>2, CapLeft
<1>5. QED
  BY <1>1, <1>2, <1>3, <1>4 DEF Request

LEMMA ReconcileCap ==
  ASSUME Serial, TypeOK, CapInv, NEW p \in Api \cup {Runner}, Reconcile(p)
  PROVE  CapInv'
<1>p. p \in Procs
  BY DEF Procs
<1>l. "idle" \notin TxnPC \cup LockPC /\ "lock" \notin TxnPC \cup LockPC
      /\ "probe" \in TxnPC /\ "settle" \in TxnPC
  BY DEF TxnPC, LockPC
<1>1. CASE ReadRunning(p)
  <2>1. PICK f \in [Tasks -> Writes \ {"start"}] : plan' = [plan EXCEPT ![p] = f]
    BY <1>1 DEF ReadRunning, Writes, Probes
  <2>2. pc' = [pc EXCEPT ![p] = "probe"] /\ Turn(p) /\ UNCHANGED <<row, lock, slots>>
    BY <1>1 DEF ReadRunning, Goto
  <2>3. QED
    BY <1>p, <1>l, <2>1, <2>2, CapOpened
<1>2. CASE \E ripe \in 0..MaxTasks : ProbeRedis(p, ripe)
  <2>1. PICK ripe \in 0..MaxTasks : ProbeRedis(p, ripe)
    BY <1>2
  <2>2. PICK S \in SUBSET (1..ripe) :
          plan' = [plan EXCEPT ![p] = [t \in Tasks |->
                     IF t \in S THEN ReservationVerdict(t) ELSE RunningVerdict(t, plan[p][t])]]
    BY <2>1 DEF ProbeRedis
  <2> DEFINE f == [t \in Tasks |->
                     IF t \in S THEN ReservationVerdict(t) ELSE RunningVerdict(t, plan[p][t])]
  <2>3. \A t \in Tasks : f[t] = "start" => InUse(t)
    <3> SUFFICES ASSUME NEW t \in Tasks, f[t] = "start" PROVE plan[p][t] = "start"
      BY <1>p DEF CapInv, StartsReserved
    <3>1. ReservationVerdict(t) # "start"
      BY DEF ReservationVerdict
    <3>2. RunningVerdict(t, plan[p][t]) = "start"
      BY <3>1
    <3>3. QED
      BY <3>2 DEF RunningVerdict
  <2>4. pc' = [pc EXCEPT ![p] = "settle"] /\ pc[p] \in TxnPC /\ UNCHANGED <<row, lock, slots>>
    BY <1>l, <2>1 DEF ProbeRedis, Goto
  <2>5. plan' = [plan EXCEPT ![p] = f]
    BY <2>2
  <2> HIDE DEF f
  <2>6. QED
    BY <1>p, <1>l, <2>3, <2>4, <2>5, CapOpened
<1>3. CASE CommitReconcile(p)
  <2>1. PICK label \in {"idle", "lock"} : pc' = [pc EXCEPT ![p] = label]
    BY <1>3 DEF CommitReconcile, Goto
  <2>2. CommitPlan(p) /\ UNCHANGED <<lock, slots>> /\ pc[p] \in TxnPC
        /\ plan' = [plan EXCEPT ![p] = NoPlan]
    BY <1>3 DEF CommitReconcile, TxnPC, CommitPlan
  <2>3. \A t \in Tasks : InUse(t)' => InUse(t)
    BY <1>p, <2>2, CommitShrinks
  <2>4. QED
    BY <1>p, <1>l, <2>1, <2>2, <2>3, CapLeft
<1>4. CASE CommitReconcileFails(p)
  <2>1. /\ pc' = [pc EXCEPT ![p] = "idle"] /\ plan' = [plan EXCEPT ![p] = NoPlan]
        /\ UNCHANGED <<row, lock, slots>> /\ pc[p] \in TxnPC
    BY <1>4 DEF CommitReconcileFails, Abandon, Goto, TxnPC
  <2>2. \A t \in Tasks : InUse(t)' <=> InUse(t)
    BY <2>1 DEF InUse
  <2>3. QED
    BY <1>p, <1>l, <2>1, <2>2, CapLeft
<1>5. QED
  BY <1>1, <1>2, <1>3, <1>4 DEF Reconcile

LEMMA CleanupCap ==
  ASSUME Serial, TypeOK, CapInv, CleanupScheduled
  PROVE  CapInv'
<1>1. PICK S \in SUBSET Tasks :
        row' = [t \in Tasks |-> IF t \in S THEN Written(row[t], "delete") ELSE row[t]]
  BY DEF CleanupScheduled
<1>2. UNCHANGED <<lock, pc, plan, slots>> /\ Turn(Runner) /\ Runner \in Procs
      /\ pc[Runner] \notin TxnPC
  BY DEF CleanupScheduled, local, Procs, TxnPC
<1>3. \A t \in Tasks : InUse(t)' => InUse(t)
  <2> SUFFICES ASSUME NEW t \in Tasks, InUse(t)' PROVE InUse(t)
    OBVIOUS
  <2>1. row'[t] = row[t] \/ row'[t] = Written(row[t], "delete")
    BY <1>1
  <2>2. row[t] \in Row /\ "delete" \in Writes
    BY DEF TypeOK, Writes
  <2>3. QED
    BY <2>1, <2>2, WrittenUse DEF InUse, RowInUse
<1>4. QED
  BY <1>2, <1>3, CapStays

LEMMA EnvironmentCap ==
  ASSUME Serial, ~LockMayExpire, TypeOK, CapInv, Environment
  PROVE  CapInv'
<1>1. ASSUME NEW p \in Procs, Crash(p) PROVE CapInv'
  <2>1. /\ pc' = [pc EXCEPT ![p] = "idle"] /\ plan' = [plan EXCEPT ![p] = NoPlan]
        /\ slots' = [slots EXCEPT ![p] = NoSlots] /\ UNCHANGED <<row, lock>>
    BY <1>1 DEF Crash, Goto
  <2>2. \A t \in Tasks : InUse(t)' <=> InUse(t)
    BY <2>1 DEF InUse
  <2>3. "idle" \notin TxnPC \cup LockPC
    BY DEF TxnPC, LockPC
  <2>4. QED
    BY <2>1, <2>2, <2>3, CapLeft
<1>2. CASE \/ \E j \in Jobs : JobFails(j) \/ FailedJobExpires(j) \/ LoseJob(j)
           \/ \E o \in Owners : PauseOwner(o) \/ ResumeOwner(o)
  <2>1. UNCHANGED <<row, lock, pc, plan, slots>>
    BY <1>2 DEF JobFails, FailedJobExpires, LoseJob, PauseOwner, ResumeOwner, local
  <2>2. \A t \in Tasks : InUse(t)' <=> InUse(t)
    BY <2>1 DEF InUse
  <2>3. QED
    BY <2>1, <2>2, CapStays
<1>3. CASE LockExpires
  <2>1. UNCHANGED <<row, pc, plan, slots>> /\ pc[lock] \notin LockPC
    BY <1>3 DEF LockExpires, local
  <2>2. \A t \in Tasks : InUse(t)' <=> InUse(t)
    BY <2>1 DEF InUse
  <2>3. QED
    BY <2>1, <2>2, CapStays
<1>4. ASSUME NEW t \in Tasks, RowGoesStale(t) PROVE CapInv'
  <2>1. UNCHANGED <<lock, pc, plan, slots>> /\ row' = [row EXCEPT ![t].stale = TRUE]
    BY <1>4 DEF RowGoesStale, local
  <2>2. \A u \in Tasks : InUse(u)' <=> InUse(u)
    BY <2>1 DEF InUse, TypeOK, Row
  <2>3. QED
    BY <2>1, <2>2, CapStays
<1>5. QED
  BY <1>1, <1>2, <1>3, <1>4 DEF Environment

LEMMA InitCap ==
  ASSUME Init
  PROVE  CapInv
<1>1. \A t \in Tasks : ~InUse(t)
  BY DEF Init, NewRow, InUse
<1>2. CapacityRespected
  <2> SUFFICES ASSUME NEW l \in Lanes PROVE Cardinality(Used(l)) <= Limit[l]
    BY DEF CapacityRespected, Used
  <2>1. Used(l) = {}
    BY <1>1, UsedTasks
  <2>2. QED
    BY <2>1, FS_EmptySet, ConstantsAssumption
<1>3. LockHeld /\ OneTxn /\ PlansOpen /\ StartsReserved /\ SlotsFree
  BY DEF Init, LockHeld, OneTxn, PlansOpen, StartsReserved, SlotsFree, NoPlan, LockPC, TxnPC
<1>4. QED
  BY <1>2, <1>3 DEF CapInv

(* reserve_queued_crawl_tasks, for every instance: if the unlocked          *)
(* transactions are serial and the dispatch lock does not time out under    *)
(* its holder, no lane ever has more running and reserved tasks than its    *)
(* limit.                                                                   *)
THEOREM Capacity ==
  ASSUME Serial, ~LockMayExpire
  PROVE  Spec => []CapacityRespected
<1>1. Init => TypeOK /\ JobInv /\ CapInv
  BY InitTyped, InitCap
<1>2. TypeOK /\ JobInv /\ CapInv /\ [Next]_vars => (TypeOK /\ JobInv /\ CapInv)'
  <2> SUFFICES ASSUME TypeOK, JobInv, CapInv, [Next]_vars PROVE CapInv'
    BY NextType, NextJobInv
  <2>1. CASE Next
    BY <2>1, DispatchCap, WorkerCap, RequestCap, ReconcileCap, CleanupCap, EnvironmentCap
    DEF Next
  <2>2. CASE UNCHANGED vars
    <3>1. \A t \in Tasks : InUse(t)' <=> InUse(t)
      BY <2>2 DEF vars, InUse
    <3>2. QED
      BY <2>2, <3>1, CapStays DEF vars
  <2>3. QED
    BY <2>1, <2>2
<1>3. CapInv => CapacityRespected
  BY DEF CapInv
<1>4. QED
  BY <1>1, <1>2, <1>3, PTL DEF Spec

-----------------------------------------------------------------------------
(***************************************************************************)
(* Without the lock.  What is reserved may exceed the limit when the lock  *)
(* times out under a dispatcher; what runs may not, because run_task       *)
(* counts again in the transaction that starts the task.                   *)
(***************************************************************************)
Going(t) == row[t].status = "running"
LaneTasks(l) == {t \in Tasks : LaneOf[t] = l /\ Going(t)}

(* One task at a time is about to start, by run_task, and still fits.      *)
StartsFit == \A p \in Procs : \A t \in Tasks : plan[p][t] = "start" =>
  /\ pc[p] = "begun"
  /\ \A u \in Tasks : plan[p][u] = "start" => u = t
  /\ ~MustWait(t)

LaneInv == RunningWithinLimit /\ OneTxn /\ PlansOpen /\ StartsFit

LEMMA RunningTasks ==
  ASSUME NEW l \in Lanes
  PROVE  /\ Running(l) = LaneTasks(l)
         /\ Running(l) \in SUBSET Tasks
         /\ Cardinality(Running(l)) \in Nat
<1>1. Running(l) = LaneTasks(l) /\ Running(l) \in SUBSET Tasks
  BY DEF Running, LaneTasks, Going
<1>2. QED
  BY <1>1, TasksFinite

(* A set of running tasks that does not grow gets no larger. *)
LEMMA FewerTasks ==
  ASSUME NEW S \in SUBSET Tasks, NEW T \in SUBSET S
  PROVE  Cardinality(T) <= Cardinality(S) /\ Cardinality(T) \in Nat /\ Cardinality(S) \in Nat
<1>1. IsFiniteSet(S)
  BY TasksFinite
<1>2. QED
  BY <1>1, FS_Subset, FS_CardinalityType

(* If no task begins to run, no lane runs more, and a task that may start   *)
(* still may.                                                               *)
LEMMA FewerRunning ==
  ASSUME \A t \in Tasks : Going(t)' => Going(t)
  PROVE  /\ \A l \in Lanes : Cardinality(Running(l)') <= Cardinality(Running(l))
         /\ \A t \in Tasks : ~MustWait(t) => ~MustWait(t)'
<1>1. \A l \in Lanes : Running(l)' \subseteq Running(l) /\ Running(l) \subseteq Tasks
  BY DEF Running, Going
<1>2. \A l \in Lanes : Cardinality(Running(l)') <= Cardinality(Running(l))
  BY <1>1, FewerTasks
<1>3. ASSUME NEW t \in Tasks, ~MustWait(t) PROVE ~MustWait(t)'
  <2> DEFINE l == LaneOf[t]
             S == Running(l) \ {t}
             T == Running(l)' \ {t}
  <2>1. l \in Lanes /\ Limit[l] \in Nat
    BY ConstantsAssumption DEF Tasks
  <2>2. S \in SUBSET Tasks /\ T \in SUBSET S
    BY <1>1, <2>1
  <2>3. Cardinality(T) <= Cardinality(S) /\ Cardinality(T) \in Nat /\ Cardinality(S) \in Nat
    BY <2>2, FewerTasks
  <2>4. ~(Cardinality(S) >= Limit[l])
    BY <1>3 DEF MustWait
  <2>5. ~(Cardinality(T) >= Limit[l])
    BY <2>1, <2>3, <2>4
  <2>6. QED
    BY <2>5 DEF MustWait
<1>4. QED
  BY <1>2, <1>3

(* A step of p that lets no task begin to run preserves the invariant, if   *)
(* it respects the turn, leaves the other processes alone and plans no      *)
(* start that would not fit.                                                *)
LEMMA LaneKept ==
  ASSUME Serial, TypeOK, LaneInv, NEW p \in Procs,
         \A t \in Tasks : Going(t)' => Going(t),
         \A q \in Procs \ {p} : pc'[q] = pc[q] /\ plan'[q] = plan[q],
         pc'[p] \in TxnPC => pc[p] \in TxnPC \/ Turn(p),
         \A t \in Tasks : plan'[p][t] # "none" => pc'[p] \in TxnPC,
         \A t \in Tasks : plan'[p][t] = "start" =>
           /\ pc'[p] = "begun"
           /\ \A u \in Tasks : plan'[p][u] = "start" => u = t
           /\ ~MustWait(t)
  PROVE  LaneInv'
<1>1. RunningWithinLimit'
  <2> SUFFICES ASSUME NEW l \in Lanes PROVE Cardinality(Running(l)') <= Limit[l]
    BY DEF RunningWithinLimit
  <2>1. Cardinality(Running(l)) <= Limit[l] /\ Limit[l] \in Nat
    BY ConstantsAssumption DEF LaneInv, RunningWithinLimit
  <2>2. Running(l)' \in SUBSET Running(l)
    BY DEF Running, Going
  <2>3. QED
    BY <2>1, <2>2, FewerTasks, RunningTasks
<1>2. OneTxn'
  BY DEF LaneInv, OneTxn, Turn
<1>3. PlansOpen'
  BY DEF LaneInv, PlansOpen
<1>4. StartsFit'
  <2> SUFFICES ASSUME NEW q \in Procs, NEW t \in Tasks, plan'[q][t] = "start"
               PROVE  /\ pc'[q] = "begun"
                      /\ \A u \in Tasks : plan'[q][u] = "start" => u = t
                      /\ ~MustWait(t)'
    BY DEF StartsFit
  <2>1. /\ pc'[q] = "begun" /\ ~MustWait(t)
        /\ \A u \in Tasks : plan'[q][u] = "start" => u = t
    BY DEF LaneInv, StartsFit
  <2>2. QED
    BY <2>1, FewerRunning
<1>5. QED
  BY <1>1, <1>2, <1>3, <1>4 DEF LaneInv

(* The same for a step of p to a label outside transactions. *)
LEMMA LaneLeft ==
  ASSUME Serial, TypeOK, LaneInv, NEW p \in Procs, NEW label,
         label \notin TxnPC,
         pc' = [pc EXCEPT ![p] = label],
         plan' = [plan EXCEPT ![p] = NoPlan] \/ (plan' = plan /\ pc[p] \notin TxnPC),
         \A t \in Tasks : Going(t)' => Going(t)
  PROVE  LaneInv'
<1>1. \A t \in Tasks : plan'[p][t] = "none"
  BY DEF TypeOK, NoPlan, LaneInv, PlansOpen
<1>2. pc'[p] \notin TxnPC
  BY DEF TypeOK
<1>3. \A q \in Procs \ {p} : pc'[q] = pc[q] /\ plan'[q] = plan[q]
  BY DEF TypeOK
<1>4. QED
  BY <1>1, <1>2, <1>3, LaneKept

(* The same for a step of p that opens a transaction, or goes on with one,  *)
(* that starts nothing.                                                     *)
LEMMA LaneOpened ==
  ASSUME Serial, TypeOK, LaneInv, NEW p \in Procs, NEW label, NEW f,
         label \in TxnPC, pc[p] \in TxnPC \/ Turn(p),
         pc' = [pc EXCEPT ![p] = label],
         plan' = [plan EXCEPT ![p] = f],
         \A t \in Tasks : f[t] # "start",
         UNCHANGED row
  PROVE  LaneInv'
<1>1. \A t \in Tasks : Going(t)' <=> Going(t)
  BY DEF Going
<1>2. pc'[p] = label /\ plan'[p] = f
  BY DEF TypeOK
<1>3. \A q \in Procs \ {p} : pc'[q] = pc[q] /\ plan'[q] = plan[q]
  BY DEF TypeOK
<1>4. QED
  BY <1>1, <1>2, <1>3, LaneKept

(* The same for a step that moves no process. *)
LEMMA LaneStays ==
  ASSUME Serial, TypeOK, LaneInv, UNCHANGED <<pc, plan>>,
         \A t \in Tasks : Going(t)' => Going(t)
  PROVE  LaneInv'
<1>1. PICK p \in Procs : TRUE
  BY DEF Procs
<1>2. \A t \in Tasks : plan[p][t] # "none" => pc[p] \in TxnPC
  BY DEF LaneInv, PlansOpen
<1>3. \A t \in Tasks : plan[p][t] = "start" =>
        /\ pc[p] = "begun"
        /\ \A u \in Tasks : plan[p][u] = "start" => u = t
        /\ ~MustWait(t)
  BY DEF LaneInv, StartsFit
<1>4. pc'[p] = pc[p] /\ plan'[p] = plan[p]
  OBVIOUS
<1>5. \A q \in Procs \ {p} : pc'[q] = pc[q] /\ plan'[q] = plan[q]
  OBVIOUS
<1>6. \A t \in Tasks : plan'[p][t] # "none" => pc'[p] \in TxnPC
  BY <1>2, <1>4
<1>7. \A t \in Tasks : plan'[p][t] = "start" =>
        /\ pc'[p] = "begun"
        /\ \A u \in Tasks : plan'[p][u] = "start" => u = t
        /\ ~MustWait(t)
  BY <1>3, <1>4
<1>8. pc'[p] \in TxnPC => pc[p] \in TxnPC \/ Turn(p)
  BY <1>4
<1>9. QED
  BY <1>5, <1>6, <1>7, <1>8, LaneKept

(* No write but "start" makes a row running. *)
LEMMA WrittenGoing ==
  ASSUME NEW r \in Row, NEW w \in Writes, w # "start", Written(r, w).status = "running"
  PROVE  r.status = "running"
<1>1. CASE w \in {"cancel", "cancelDrop", "requeue", "fail", "delete"}
  BY <1>1 DEF Written, NewRow, Row
<1>2. CASE w \in {"drop", "mark", "progress", "progressMarked", "progressPlain"}
  BY <1>2 DEF Written, Row
<1>3. CASE w \in {"none"} \cup Probes
  BY <1>3 DEF Written, Probes
<1>4. QED
  BY <1>1, <1>2, <1>3 DEF Writes

(* A commit that starts nothing lets no task begin to run. *)
LEMMA CommitEases ==
  ASSUME TypeOK, NEW p \in Procs, CommitPlan(p), NEW t \in Tasks,
         plan[p][t] # "start", Going(t)'
  PROVE  Going(t)
<1>1. row'[t] = Written(row[t], plan[p][t]) /\ row[t] \in Row /\ plan[p][t] \in Writes
  BY DEF CommitPlan, TypeOK
<1>2. QED
  BY <1>1, WrittenGoing DEF Going

-----------------------------------------------------------------------------
LEMMA DispatchLane ==
  ASSUME Serial, TypeOK, LaneInv, NEW p \in Procs, Dispatch(p)
  PROVE  LaneInv'
<1>l. \A label \in {"idle", "lock", "reserve", "enqueue"} : label \notin TxnPC
  BY DEF TxnPC
<1>1. CASE DispatchSkipped(p) \/ CountSlots(p) \/ ReleaseLock(p)
  <2>1. PICK label \in {"idle", "reserve"} : pc' = [pc EXCEPT ![p] = label]
    BY <1>1 DEF DispatchSkipped, CountSlots, ReleaseLock, JobReturns, Goto
  <2>2. UNCHANGED <<row, plan>> /\ pc[p] \in {"lock", "enqueue"}
    BY <1>1 DEF DispatchSkipped, CountSlots, ReleaseLock
  <2>3. \A t \in Tasks : Going(t)' <=> Going(t)
    BY <2>2 DEF Going
  <2>4. QED
    BY <1>l, <2>1, <2>2, <2>3, LaneLeft
<1>2. CASE ReserveTasks(p)
  <2>1. pc' = [pc EXCEPT ![p] = "enqueue"] /\ plan' = plan /\ pc[p] = "reserve"
    BY <1>2 DEF ReserveTasks, Goto
  <2>2. PICK S \in SUBSET Tasks : \E id \in [S -> {j \in Jobs : Fresh(j)}] :
          row' = [t \in Tasks |-> IF t \in S THEN [row[t] EXCEPT !.job = id[t]] ELSE row[t]]
    BY <1>2, ReserveShape DEF Reserves
  <2>3. PICK id \in [S -> {j \in Jobs : Fresh(j)}] :
          row' = [t \in Tasks |-> IF t \in S THEN [row[t] EXCEPT !.job = id[t]] ELSE row[t]]
    BY <2>2
  <2>4. \A t \in Tasks : Going(t)' <=> Going(t)
    BY <2>3 DEF Going, TypeOK, Row
  <2>5. QED
    BY <1>l, <2>1, <2>4, LaneLeft
<1>3. CASE EnqueueReserved(p)
  <2>1. UNCHANGED <<row, pc, plan>>
    BY <1>3 DEF EnqueueReserved
  <2>2. \A t \in Tasks : Going(t)' <=> Going(t)
    BY <2>1 DEF Going
  <2>3. QED
    BY <2>1, <2>2, LaneStays
<1>4. CASE EnqueueFails(p)
  <2>1. UNCHANGED <<pc, plan>>
    BY <1>4 DEF EnqueueFails
  <2>2. PICK t : row' = row \/ row' = [row EXCEPT ![t] = Written(row[t], "drop")]
    BY <1>4 DEF EnqueueFails
  <2>3. \A u \in Tasks : row'[u] = row[u] \/ row'[u] = Written(row[u], "drop")
    BY <2>2 DEF TypeOK
  <2>4. \A u \in Tasks : Going(u)' => Going(u)
    <3> SUFFICES ASSUME NEW u \in Tasks, Going(u)' PROVE Going(u)
      OBVIOUS
    <3>1. row[u] \in Row /\ "drop" \in Writes
      BY DEF TypeOK, Writes
    <3>2. QED
      BY <2>3, <3>1, WrittenGoing DEF Going
  <2>5. QED
    BY <2>1, <2>4, LaneStays
<1>5. QED
  BY <1>1, <1>2, <1>3, <1>4 DEF Dispatch

(* crawl_task_start_wait_reason: the task fits the lane when it is read, as *)
(* the only one to start.                                                   *)
LEMMA BeginFits ==
  ASSUME NEW j, NEW t, NEW u \in Tasks, BeginPlan(j, t)[u] = "start"
  PROVE  u = t /\ ~MustWait(u)
BY DEF BeginPlan, NoPlan

(* When run_task commits, the lane has room for the task it starts. *)
LEMMA StartCommits ==
  ASSUME Serial, TypeOK, LaneInv, NEW w \in Procs, CommitPlan(w), NEW l \in Lanes
  PROVE  Cardinality(Running(l)') <= Limit[l]
<1>1. CASE \E t \in Tasks : plan[w][t] = "start" /\ LaneOf[t] = l
  <2>1. PICK t \in Tasks : plan[w][t] = "start" /\ LaneOf[t] = l
    BY <1>1
  <2>2. ~MustWait(t) /\ \A u \in Tasks : plan[w][u] = "start" => u = t
    BY <2>1 DEF LaneInv, StartsFit
  <2> DEFINE S == Running(l) \ {t}
  <2>3. S \in SUBSET Tasks /\ Running(l)' \in SUBSET (S \cup {t})
    BY <2>2, CommitEases DEF Running, Going
  <2>4. S \cup {t} \in SUBSET Tasks
    BY <2>3
  <2>5. IsFiniteSet(S) /\ t \notin S
    BY <2>3, TasksFinite
  <2>6. Cardinality(S \cup {t}) = Cardinality(S) + 1 /\ Cardinality(S) \in Nat
    BY <2>5, FS_AddElement, FS_CardinalityType
  <2>7. ~(Cardinality(S) >= Limit[l]) /\ Limit[l] \in Nat
    BY <2>1, <2>2, ConstantsAssumption DEF MustWait
  <2>8. /\ Cardinality(Running(l)') <= Cardinality(S \cup {t})
        /\ Cardinality(Running(l)') \in Nat
    BY <2>3, <2>4, FewerTasks
  <2> HIDE DEF S
  <2>9. QED
    BY <2>6, <2>7, <2>8
<1>2. CASE \A t \in Tasks : LaneOf[t] = l => plan[w][t] # "start"
  <2>1. Running(l) \in SUBSET Tasks /\ Running(l)' \in SUBSET Running(l)
    BY <1>2, CommitEases DEF Running, Going
  <2>2. Cardinality(Running(l)) <= Limit[l] /\ Limit[l] \in Nat
    BY ConstantsAssumption DEF LaneInv, RunningWithinLimit
  <2>3. /\ Cardinality(Running(l)') <= Cardinality(Running(l))
        /\ Cardinality(Running(l)') \in Nat /\ Cardinality(Running(l)) \in Nat
    BY <2>1, FewerTasks
  <2>4. QED
    BY <2>2, <2>3
<1>3. QED
  BY <1>1, <1>2

LEMMA WorkerLane ==
  ASSUME Serial, TypeOK, LaneInv, NEW w \in Workers, Worker(w)
  PROVE  LaneInv'
<1>w. w \in Procs
  BY DEF Procs
<1>l. \A label \in {"idle", "begin", "check", "work", "finish", "abort", "fault", "lock"} :
        label \notin TxnPC
  BY DEF TxnPC
<1>1. CASE TakeJob(w) \/ BeginDeleted(w) \/ CheckCancel(w) \/ WorkRaises(w)
  <2>1. PICK label \in {"idle", "begin", "abort", "work", "fault"} :
          pc' = [pc EXCEPT ![w] = label]
    BY <1>1 DEF TakeJob, BeginDeleted, JobReturns, CheckCancel, WorkRaises, Goto
  <2>2. UNCHANGED <<row, plan>>
    BY <1>1 DEF TakeJob, BeginDeleted, CheckCancel, WorkRaises, local
  <2>3. pc[w] \notin TxnPC
    BY <1>1 DEF TakeJob, BeginDeleted, CheckCancel, WorkRaises, TxnPC
  <2>4. \A t \in Tasks : Going(t)' <=> Going(t)
    BY <2>2 DEF Going
  <2>5. QED
    BY <1>w, <1>l, <2>1, <2>2, <2>3, <2>4, LaneLeft
<1>2. CASE BeginTask(w)
  <2> DEFINE f == BeginPlan(hold[w], TaskOf(w))
  <2>1. \A t, u \in Tasks : f[t] = "start" /\ f[u] = "start" => u = t /\ ~MustWait(t)
    BY BeginFits
  <2>2. /\ pc' = [pc EXCEPT ![w] = "begun"] /\ Turn(w) /\ plan' = [plan EXCEPT ![w] = f]
        /\ UNCHANGED row
    BY <1>2 DEF BeginTask, Goto
  <2> HIDE DEF f
  <2>3. pc'[w] = "begun" /\ plan'[w] = f /\ "begun" \in TxnPC
    BY <1>w, <2>2 DEF TypeOK, TxnPC
  <2>4. \A q \in Procs \ {w} : pc'[q] = pc[q] /\ plan'[q] = plan[q]
    BY <2>2 DEF TypeOK
  <2>5. \A t \in Tasks : Going(t)' <=> Going(t)
    BY <2>2 DEF Going
  <2>6. \A t \in Tasks : plan'[w][t] = "start" =>
          /\ pc'[w] = "begun"
          /\ \A u \in Tasks : plan'[w][u] = "start" => u = t
          /\ ~MustWait(t)
    BY <2>1, <2>3
  <2>7. QED
    BY <1>w, <2>2, <2>3, <2>4, <2>5, <2>6, LaneKept
<1>3. CASE CommitBegin(w)
  <2>1. /\ CommitPlan(w) /\ plan' = [plan EXCEPT ![w] = NoPlan]
    BY <1>3 DEF CommitBegin, CommitPlan
  <2>2. RunningWithinLimit'
    BY <1>w, <2>1, StartCommits DEF RunningWithinLimit
  <2>3. PICK label \in {"check", "lock"} : pc' = [pc EXCEPT ![w] = label]
    BY <1>3 DEF CommitBegin, Goto
  <2>4. /\ pc'[w] \notin TxnPC /\ plan'[w] = NoPlan
        /\ \A q \in Procs \ {w} : pc'[q] = pc[q] /\ plan'[q] = plan[q]
    BY <1>w, <1>l, <2>1, <2>3 DEF TypeOK
  <2>5. \A t \in Tasks : plan'[w][t] = "none"
    BY <2>4 DEF NoPlan
  <2>6. OneTxn' /\ PlansOpen'
    BY <2>4, <2>5 DEF LaneInv, OneTxn, PlansOpen
  <2>7. StartsFit'
    <3> SUFFICES ASSUME NEW q \in Procs, NEW t \in Tasks, plan'[q][t] = "start" PROVE FALSE
      BY DEF StartsFit
    <3>1. q # w /\ plan[q][t] = "start"
      BY <2>4, <2>5
    <3>2. pc[q] \in TxnPC /\ pc[w] \in TxnPC
      BY <1>3, <3>1 DEF LaneInv, PlansOpen, CommitBegin, TxnPC
    <3>3. QED
      BY <1>w, <3>1, <3>2 DEF LaneInv, OneTxn
  <2>8. QED
    BY <2>2, <2>6, <2>7 DEF LaneInv
<1>4. CASE \E label \in {"check", "finish"} : CommitProgress(w, label)
  <2>1. PICK label \in {"check", "finish"} : CommitProgress(w, label)
    BY <1>4
  <2>2. /\ pc' = [pc EXCEPT ![w] = label] /\ CommitPlan(w) /\ pc[w] = "progress"
        /\ plan' = [plan EXCEPT ![w] = NoPlan]
    BY <2>1 DEF CommitProgress, Goto, CommitPlan
  <2>3. \A t \in Tasks : plan[w][t] # "start"
    BY <1>w, <2>2 DEF LaneInv, StartsFit
  <2>4. \A t \in Tasks : Going(t)' => Going(t)
    BY <1>w, <2>2, <2>3, CommitEases
  <2>5. QED
    BY <1>w, <1>l, <2>2, <2>4, LaneLeft
<1>5. CASE CommitBeginFails(w) \/ CommitProgressFails(w)
  <2>1. PICK label \in {"idle", "fault"} : pc' = [pc EXCEPT ![w] = label]
    BY <1>5 DEF CommitBeginFails, CommitProgressFails, Goto
  <2>2. plan' = [plan EXCEPT ![w] = NoPlan] /\ UNCHANGED row
    BY <1>5 DEF CommitBeginFails, CommitProgressFails, Abandon
  <2>3. \A t \in Tasks : Going(t)' <=> Going(t)
    BY <2>2 DEF Going
  <2>4. QED
    BY <1>w, <1>l, <2>1, <2>2, <2>3, LaneLeft
<1>6. CASE WorkItem(w)
  <2>1. PICK write \in ProgressWrites(TaskOf(w)) : plan' = [plan EXCEPT ![w][TaskOf(w)] = write]
    BY <1>6 DEF WorkItem
  <2>2. write # "start"
    BY DEF ProgressWrites
  <2>3. \A t \in Tasks : plan[w][t] = "none"
    BY <1>w, <1>6 DEF LaneInv, PlansOpen, WorkItem, TxnPC
  <2> DEFINE f == [plan[w] EXCEPT ![TaskOf(w)] = write]
  <2>4. \A t \in Tasks : f[t] # "start"
    BY <1>w, <2>2, <2>3 DEF TypeOK
  <2>5. /\ pc' = [pc EXCEPT ![w] = "progress"] /\ Turn(w) /\ "progress" \in TxnPC
        /\ UNCHANGED row
    BY <1>6 DEF WorkItem, Goto, TxnPC
  <2>6. plan' = [plan EXCEPT ![w] = f]
    BY <2>1
  <2> HIDE DEF f
  <2>7. QED
    BY <1>w, <2>4, <2>5, <2>6, LaneOpened
<1>7. CASE FinishTask(w) \/ AbortTask(w) \/ FailTask(w)
  <2>1. PICK statuses \in SUBSET Terminal : Finalise(w, statuses)
    BY <1>7 DEF FinishTask, AbortTask, FailTask, Terminal
  <2>2. pc[w] \notin TxnPC
    BY <1>7 DEF FinishTask, AbortTask, FailTask, TxnPC
  <2>3. \A t \in Tasks : Going(t)' => Going(t)
    <3>1. CASE row' = row
      BY <3>1 DEF Going
    <3>2. CASE row' # row
      <4>1. PICK s \in Terminal :
              row' = [row EXCEPT ![TaskOf(w)] =
                        [@ EXCEPT !.status = s, !.marked = FALSE, !.stale = FALSE]]
        BY <2>1, <3>2 DEF Finalise
      <4>2. \A t \in Tasks : row'[t] = row[t] \/ row'[t].status \in Terminal
        BY <4>1 DEF TypeOK, Row
      <4>3. QED
        BY <4>2 DEF Going, Terminal
    <3>3. QED
      BY <3>1, <3>2
  <2>4. pc' = [pc EXCEPT ![w] = "lock"] /\ plan' = plan
    BY <2>1 DEF Finalise, Goto, local
  <2>5. QED
    BY <1>w, <1>l, <2>2, <2>3, <2>4, LaneLeft
<1>8. QED
  BY <1>1, <1>2, <1>3, <1>4, <1>5, <1>6, <1>7 DEF Worker

LEMMA RequestLane ==
  ASSUME Serial, TypeOK, LaneInv, NEW a \in Api, Request(a)
  PROVE  LaneInv'
<1>a. a \in Procs
  BY DEF Procs
<1>l. "idle" \notin TxnPC /\ "lock" \notin TxnPC /\ "apply" \in TxnPC
  BY DEF TxnPC
<1>1. CASE CreateTask(a)
  <2>1. pc' = [pc EXCEPT ![a] = "lock"] /\ pc[a] = "idle" /\ plan' = plan
    BY <1>1 DEF CreateTask, ThenDispatch, Goto
  <2>2. PICK t \in Tasks : row' = [row EXCEPT ![t] = [NewRow EXCEPT !.status = "queued"]]
    BY <1>1 DEF CreateTask
  <2>3. \A u \in Tasks : Going(u)' => Going(u)
    BY <2>2 DEF Going, NewRow, TypeOK
  <2>4. QED
    BY <1>a, <1>l, <2>1, <2>3, LaneLeft
<1>2. CASE RerunTask(a) \/ CancelTask(a) \/ DeleteTask(a)
  <2>1. PICK t \in Tasks, write \in Writes :
          write # "start" /\ plan' = [plan EXCEPT ![a][t] = write]
    BY <1>2 DEF RerunTask, CancelTask, DeleteTask, Writes
  <2>2. pc[a] = "idle" /\ Turn(a) /\ pc' = [pc EXCEPT ![a] = "apply"] /\ UNCHANGED row
    BY <1>2 DEF RerunTask, CancelTask, DeleteTask, Goto
  <2>3. \A u \in Tasks : plan[a][u] = "none"
    BY <1>a, <1>l, <2>2 DEF LaneInv, PlansOpen
  <2> DEFINE f == [plan[a] EXCEPT ![t] = write]
  <2>4. \A u \in Tasks : f[u] # "start"
    BY <1>a, <2>1, <2>3 DEF TypeOK
  <2>5. plan' = [plan EXCEPT ![a] = f]
    BY <2>1
  <2> HIDE DEF f
  <2>6. QED
    BY <1>a, <1>l, <2>2, <2>4, <2>5, LaneOpened
<1>3. CASE CommitApi(a)
  <2>1. PICK label \in {"idle", "lock"} : pc' = [pc EXCEPT ![a] = label]
    BY <1>3 DEF CommitApi, Goto
  <2>2. CommitPlan(a) /\ pc[a] = "apply" /\ plan' = [plan EXCEPT ![a] = NoPlan]
    BY <1>3 DEF CommitApi, CommitPlan
  <2>3. \A t \in Tasks : plan[a][t] # "start"
    BY <1>a, <2>2 DEF LaneInv, StartsFit
  <2>4. \A t \in Tasks : Going(t)' => Going(t)
    BY <1>a, <2>2, <2>3, CommitEases
  <2>5. QED
    BY <1>a, <1>l, <2>1, <2>2, <2>4, LaneLeft
<1>4. CASE CommitApiFails(a)
  <2>1. /\ pc' = [pc EXCEPT ![a] = "idle"] /\ plan' = [plan EXCEPT ![a] = NoPlan]
        /\ UNCHANGED row
    BY <1>4 DEF CommitApiFails, Abandon, Goto
  <2>2. \A t \in Tasks : Going(t)' <=> Going(t)
    BY <2>1 DEF Going
  <2>3. QED
    BY <1>a, <1>l, <2>1, <2>2, LaneLeft
<1>5. QED
  BY <1>1, <1>2, <1>3, <1>4 DEF Request

LEMMA ReconcileLane ==
  ASSUME Serial, TypeOK, LaneInv, NEW p \in Api \cup {Runner}, Reconcile(p)
  PROVE  LaneInv'
<1>p. p \in Procs
  BY DEF Procs
<1>l. "idle" \notin TxnPC /\ "lock" \notin TxnPC /\ "probe" \in TxnPC /\ "settle" \in TxnPC
  BY DEF TxnPC
<1>1. CASE ReadRunning(p)
  <2>1. PICK f \in [Tasks -> Writes \ {"start"}] : plan' = [plan EXCEPT ![p] = f]
    BY <1>1 DEF ReadRunning, Writes, Probes
  <2>2. pc' = [pc EXCEPT ![p] = "probe"] /\ Turn(p) /\ UNCHANGED row
    BY <1>1 DEF ReadRunning, Goto
  <2>3. QED
    BY <1>p, <1>l, <2>1, <2>2, LaneOpened
<1>2. CASE \E ripe \in 0..MaxTasks : ProbeRedis(p, ripe)
  <2>1. PICK ripe \in 0..MaxTasks : ProbeRedis(p, ripe)
    BY <1>2
  <2>2. PICK S \in SUBSET (1..ripe) :
          plan' = [plan EXCEPT ![p] = [t \in Tasks |->
                     IF t \in S THEN ReservationVerdict(t) ELSE RunningVerdict(t, plan[p][t])]]
    BY <2>1 DEF ProbeRedis
  <2> DEFINE f == [t \in Tasks |->
                     IF t \in S THEN ReservationVerdict(t) ELSE RunningVerdict(t, plan[p][t])]
  <2>3. pc' = [pc EXCEPT ![p] = "settle"] /\ pc[p] = "probe" /\ UNCHANGED row
    BY <2>1 DEF ProbeRedis, Goto
  <2>4. \A t \in Tasks : plan[p][t] # "start"
    BY <1>p, <2>3 DEF LaneInv, StartsFit
  <2>5. \A t \in Tasks : f[t] # "start"
    <3> SUFFICES ASSUME NEW t \in Tasks, f[t] = "start" PROVE FALSE
      OBVIOUS
    <3>1. ReservationVerdict(t) # "start"
      BY DEF ReservationVerdict
    <3>2. RunningVerdict(t, plan[p][t]) = "start"
      BY <3>1
    <3>3. QED
      BY <2>4, <3>2 DEF RunningVerdict
  <2>6. plan' = [plan EXCEPT ![p] = f]
    BY <2>2
  <2> HIDE DEF f
  <2>7. QED
    BY <1>p, <1>l, <2>3, <2>5, <2>6, LaneOpened
<1>3. CASE CommitReconcile(p)
  <2>1. PICK label \in {"idle", "lock"} : pc' = [pc EXCEPT ![p] = label]
    BY <1>3 DEF CommitReconcile, Goto
  <2>2. CommitPlan(p) /\ pc[p] = "settle" /\ plan' = [plan EXCEPT ![p] = NoPlan]
    BY <1>3 DEF CommitReconcile, CommitPlan
  <2>3. \A t \in Tasks : plan[p][t] # "start"
    BY <1>p, <2>2 DEF LaneInv, StartsFit
  <2>4. \A t \in Tasks : Going(t)' => Going(t)
    BY <1>p, <2>2, <2>3, CommitEases
  <2>5. QED
    BY <1>p, <1>l, <2>1, <2>2, <2>4, LaneLeft
<1>4. CASE CommitReconcileFails(p)
  <2>1. /\ pc' = [pc EXCEPT ![p] = "idle"] /\ plan' = [plan EXCEPT ![p] = NoPlan]
        /\ UNCHANGED row
    BY <1>4 DEF CommitReconcileFails, Abandon, Goto
  <2>2. \A t \in Tasks : Going(t)' <=> Going(t)
    BY <2>1 DEF Going
  <2>3. QED
    BY <1>p, <1>l, <2>1, <2>2, LaneLeft
<1>5. QED
  BY <1>1, <1>2, <1>3, <1>4 DEF Reconcile

(* Of the upkeep, the lost jobs, the crashes and the passing of time, none  *)
(* sets a task running, and the dispatch lock plays no part.                *)
LEMMA OthersLane ==
  ASSUME Serial, TypeOK, LaneInv, CleanupScheduled \/ Environment
  PROVE  LaneInv'
<1>1. CASE CleanupScheduled
  <2>1. PICK S \in SUBSET Tasks :
          row' = [t \in Tasks |-> IF t \in S THEN Written(row[t], "delete") ELSE row[t]]
    BY <1>1 DEF CleanupScheduled
  <2>2. UNCHANGED <<pc, plan>>
    BY <1>1 DEF CleanupScheduled, local
  <2>3. \A t \in Tasks : Going(t)' => Going(t)
    BY <2>1 DEF Going, Written, NewRow
  <2>4. QED
    BY <2>2, <2>3, LaneStays
<1>2. ASSUME NEW p \in Procs, Crash(p) PROVE LaneInv'
  <2>1. /\ pc' = [pc EXCEPT ![p] = "idle"] /\ plan' = [plan EXCEPT ![p] = NoPlan]
        /\ UNCHANGED row
    BY <1>2 DEF Crash, Goto
  <2>2. \A t \in Tasks : Going(t)' <=> Going(t)
    BY <2>1 DEF Going
  <2>3. "idle" \notin TxnPC
    BY DEF TxnPC
  <2>4. QED
    BY <2>1, <2>2, <2>3, LaneLeft
<1>3. CASE \/ \E j \in Jobs : JobFails(j) \/ FailedJobExpires(j) \/ LoseJob(j)
           \/ \E o \in Owners : PauseOwner(o) \/ ResumeOwner(o)
           \/ LockExpires
  <2>1. UNCHANGED <<row, pc, plan>>
    BY <1>3 DEF JobFails, FailedJobExpires, LoseJob, PauseOwner, ResumeOwner, LockExpires, local
  <2>2. \A t \in Tasks : Going(t)' <=> Going(t)
    BY <2>1 DEF Going
  <2>3. QED
    BY <2>1, <2>2, LaneStays
<1>4. ASSUME NEW t \in Tasks, RowGoesStale(t) PROVE LaneInv'
  <2>1. UNCHANGED <<pc, plan>> /\ row' = [row EXCEPT ![t].stale = TRUE]
    BY <1>4 DEF RowGoesStale, local
  <2>2. \A u \in Tasks : Going(u)' <=> Going(u)
    BY <2>1 DEF Going, TypeOK, Row
  <2>3. QED
    BY <2>1, <2>2, LaneStays
<1>5. QED
  BY <1>1, <1>2, <1>3, <1>4 DEF Environment

LEMMA InitLane ==
  ASSUME Init
  PROVE  LaneInv
<1>1. RunningWithinLimit
  <2> SUFFICES ASSUME NEW l \in Lanes PROVE Cardinality(Running(l)) <= Limit[l]
    BY DEF RunningWithinLimit
  <2>1. Running(l) = {}
    BY DEF Init, NewRow, Running
  <2>2. QED
    BY <2>1, FS_EmptySet, ConstantsAssumption
<1>2. OneTxn /\ PlansOpen /\ StartsFit
  BY DEF Init, OneTxn, PlansOpen, StartsFit, NoPlan, TxnPC
<1>3. QED
  BY <1>1, <1>2 DEF LaneInv

(* crawl_task_start_wait_reason, for every instance: if the unlocked        *)
(* transactions are serial, no lane ever runs more tasks than its limit,    *)
(* even when the dispatch lock times out under its holder and too many are  *)
(* reserved, and when live runs are given up as dead.                       *)
THEOREM RunningCapacity ==
  ASSUME Serial
  PROVE  Spec => []RunningWithinLimit
<1>1. Init => TypeOK /\ JobInv /\ LaneInv
  BY InitTyped, InitLane
<1>2. TypeOK /\ JobInv /\ LaneInv /\ [Next]_vars => (TypeOK /\ JobInv /\ LaneInv)'
  <2> SUFFICES ASSUME TypeOK, JobInv, LaneInv, [Next]_vars PROVE LaneInv'
    BY NextType, NextJobInv
  <2>1. CASE Next
    BY <2>1, DispatchLane, WorkerLane, RequestLane, ReconcileLane, OthersLane DEF Next
  <2>2. CASE UNCHANGED vars
    <3>1. \A t \in Tasks : Going(t)' <=> Going(t)
      BY <2>2 DEF vars, Going
    <3>2. QED
      BY <2>2, <3>1, LaneStays DEF vars
  <2>3. QED
    BY <2>1, <2>2
<1>3. LaneInv => RunningWithinLimit
  BY DEF LaneInv
<1>4. QED
  BY <1>1, <1>2, <1>3, PTL DEF Spec

-----------------------------------------------------------------------------
(***************************************************************************)
(* A task is executed by one worker at a time and nothing but that worker  *)
(* decides its fate, for every number of tasks, lanes, workers and API     *)
(* threads, provided unlocked transactions do not overlap and a live run   *)
(* touches its row in time.                                                *)
(***************************************************************************)

(* The row of a live run: running, or deleted under it, and recently touched. *)
Calm(t) == row[t].status \in {"running", "deleted"} /\ ~row[t].stale
LiveRowsCalm == \A t \in Tasks : LiveRun(t) => Calm(t)

(* Rows read as running by a transaction that has not asked Redis yet; those *)
(* read as stale.                                                           *)
StaleProbes == Probes \ {"probe"}

(* What a planned write may rely on until it is committed. *)
Safe(p, t) ==
  /\ plan[p][t] = "start" => row[t].status = "queued"
  /\ plan[p][t] \in {"fail"} \cup Probes => row[t].status = "running"
  /\ plan[p][t] = "requeue" => row[t].status \in Terminal /\ p \in Api
  /\ plan[p][t] \in {"cancel", "cancelDrop", "fail"} \cup StaleProbes => ~LiveRun(t)
  /\ plan[p][t] \in {"start", "progressPlain"} => ~row[t].marked
PlansSafe == \A p \in Procs : \A t \in Tasks : Safe(p, t)

RunInv == OneTxn /\ PlansOpen /\ LiveRowsCalm /\ PlansSafe /\ ExclusiveRun

NoRunAdded == \A w \in Workers : \A t \in Tasks : Runs(w, t)' => Runs(w, t)

-----------------------------------------------------------------------------
(* A run appears only if a worker enters one; a held job keeps its task. *)
LEMMA RunsOnly ==
  ASSUME TypeOK, JobInv, NEW p \in Procs,
         \A q \in Procs \ {p} : pc'[q] = pc[q] /\ hold'[q] = hold[q],
         pc'[p] \in RunPC => p \notin Workers \/ (pc[p] \in RunPC /\ hold'[p] = hold[p]),
         \A q \in Procs : hold'[q] = hold[q] /\ hold[q] # NoJob =>
                            jobs'[hold[q]].task = jobs[hold[q]].task
  PROVE  NoRunAdded
<1> SUFFICES ASSUME NEW w \in Workers, NEW t \in Tasks, Runs(w, t)'
             PROVE  Runs(w, t)
  BY DEF NoRunAdded
<1>1. w \in Procs /\ pc'[w] \in RunPC /\ jobs'[hold'[w]].task = t
  BY DEF Procs, Runs, TaskOf
<1>2. pc[w] \in RunPC /\ hold'[w] = hold[w]
  BY <1>1
<1>3. hold[w] # NoJob
  BY <1>1, <1>2 DEF JobInv, HoldersHold, HolderPC
<1>4. QED
  BY <1>1, <1>2, <1>3 DEF Runs, TaskOf

(* The three usual cases of it. *)
LEMMA RunsMove ==
  ASSUME TypeOK, JobInv, NEW p \in Procs, NEW label,
         pc' = [pc EXCEPT ![p] = label],
         label \in RunPC => p \notin Workers \/ pc[p] \in RunPC,
         UNCHANGED <<jobs, hold>>
  PROVE  NoRunAdded
<1>1. pc'[p] = label /\ \A q \in Procs \ {p} : pc'[q] = pc[q]
  BY DEF TypeOK
<1>2. QED
  BY <1>1, RunsOnly

LEMMA RunsReturn ==
  ASSUME TypeOK, JobInv, NEW p \in Procs, JobReturns(p)
  PROVE  NoRunAdded
<1>1. pc'[p] = "idle" /\ hold'[p] = NoJob
      /\ \A q \in Procs \ {p} : pc'[q] = pc[q] /\ hold'[q] = hold[q]
  BY DEF JobReturns, Goto, TypeOK
<1>2. \A q \in Procs : hold'[q] = hold[q] /\ hold[q] # NoJob => jobs'[hold[q]] = jobs[hold[q]]
  BY <1>1 DEF JobReturns, JobInv, HeldOnce, TypeOK
<1>3. "idle" \notin RunPC
  BY DEF RunPC
<1>4. QED
  BY <1>1, <1>2, <1>3, RunsOnly

LEMMA RunsStay ==
  ASSUME TypeOK, JobInv, UNCHANGED <<pc, hold>>,
         \A q \in Procs : hold[q] # NoJob => jobs'[hold[q]].task = jobs[hold[q]].task
  PROVE  NoRunAdded
<1>1. PICK p \in Procs : TRUE
  BY DEF Procs
<1>2. \A w \in Workers : w \in Procs
  BY DEF Procs
<1>3. QED
  BY <1>2 DEF NoRunAdded, Runs, TaskOf, JobInv, HoldersHold, HolderPC

(* A step of p preserves the invariant if no run appears, live rows stay    *)
(* calm, p's new plan is safe, and p had the turn or left what others read. *)
LEMMA RunKept ==
  ASSUME Serial, TypeOK, RunInv, NEW p \in Procs, NoRunAdded,
         \A q \in Procs \ {p} : pc'[q] = pc[q] /\ plan'[q] = plan[q],
         \A t \in Tasks : plan'[p][t] # "none" => pc'[p] \in TxnPC,
         pc'[p] \in TxnPC => pc[p] \in TxnPC \/ Turn(p),
         \A t \in Tasks : LiveRun(t)' => Calm(t)',
         \A t \in Tasks : Safe(p, t)',
         \/ Turn(p) \/ pc[p] \in TxnPC
         \/ \A t \in Tasks : \/ row'[t].status = row[t].status /\ row'[t].marked = row[t].marked
                             \/ row[t].status = "new" /\ ~row'[t].marked
  PROVE  RunInv'
<1>1. OneTxn' /\ PlansOpen'
  BY DEF RunInv, OneTxn, PlansOpen, Turn
<1>2. LiveRowsCalm' /\ ExclusiveRun'
  BY DEF RunInv, LiveRowsCalm, ExclusiveRun, NoRunAdded
<1>3. PlansSafe'
  <2> SUFFICES ASSUME NEW q \in Procs \ {p}, NEW t \in Tasks PROVE Safe(q, t)'
    BY DEF PlansSafe
  <2>1. Safe(q, t) /\ plan'[q] = plan[q]
    BY DEF RunInv, PlansSafe
  <2>2. CASE Turn(p) \/ pc[p] \in TxnPC
    <3>1. plan[q][t] = "none"
      BY <2>2 DEF RunInv, OneTxn, PlansOpen, Turn
    <3>2. QED
      BY <2>1, <3>1 DEF Safe, Probes, StaleProbes
  <2>3. LiveRun(t)' => LiveRun(t)
    BY DEF NoRunAdded, LiveRun
  <2>4. CASE row'[t].status = row[t].status /\ row'[t].marked = row[t].marked
    BY <2>1, <2>3, <2>4 DEF Safe, Probes, StaleProbes
  <2>5. CASE row[t].status = "new" /\ ~row'[t].marked
    BY <2>1, <2>3, <2>5 DEF Safe, Probes, StaleProbes, Terminal
  <2>6. QED
    BY <2>2, <2>4, <2>5
<1>4. QED
  BY <1>1, <1>2, <1>3 DEF RunInv

(* Rows whose status and marker stay and that get no staler stay calm. *)
RowsKept ==
  \A t \in Tasks : /\ row'[t].status = row[t].status /\ row'[t].marked = row[t].marked
                   /\ row'[t].stale => row[t].stale

LEMMA CalmKept ==
  ASSUME RunInv, NoRunAdded, RowsKept, NEW t \in Tasks, LiveRun(t)'
  PROVE  Calm(t)'
<1>1. LiveRun(t)
  BY DEF NoRunAdded, LiveRun
<1>2. QED
  BY <1>1 DEF RunInv, LiveRowsCalm, Calm, RowsKept

(* A step of p to a label outside transactions. *)
LEMMA RunLeft ==
  ASSUME Serial, TypeOK, RunInv, NEW p \in Procs, NEW label, NoRunAdded,
         label \notin TxnPC,
         pc' = [pc EXCEPT ![p] = label],
         plan' = [plan EXCEPT ![p] = NoPlan] \/ (plan' = plan /\ pc[p] \notin TxnPC),
         \A t \in Tasks : LiveRun(t)' => Calm(t)',
         Turn(p) \/ pc[p] \in TxnPC \/ RowsKept
  PROVE  RunInv'
<1>1. \A t \in Tasks : plan'[p][t] = "none"
  BY DEF TypeOK, NoPlan, RunInv, PlansOpen
<1>2. \A t \in Tasks : Safe(p, t)'
  BY <1>1 DEF Safe, Probes, StaleProbes
<1>3. pc'[p] \notin TxnPC
  BY DEF TypeOK
<1>4. \A q \in Procs \ {p} : pc'[q] = pc[q] /\ plan'[q] = plan[q]
  BY DEF TypeOK
<1>5. QED
  BY <1>1, <1>2, <1>3, <1>4, RunKept DEF RowsKept

(* A step of p that opens a transaction or goes on with one. *)
LEMMA RunOpened ==
  ASSUME Serial, TypeOK, JobInv, RunInv, NEW p \in Procs, NEW label, NEW f,
         label \in TxnPC, pc[p] \in TxnPC \/ Turn(p),
         label \in RunPC => p \notin Workers \/ pc[p] \in RunPC,
         pc' = [pc EXCEPT ![p] = label],
         plan' = [plan EXCEPT ![p] = f],
         \A t \in Tasks : plan'[p][t] = f[t] => Safe(p, t)',
         UNCHANGED <<row, jobs, hold>>
  PROVE  RunInv'
<1>1. NoRunAdded
  BY RunsMove
<1>2. RowsKept
  BY DEF RowsKept
<1>3. \A t \in Tasks : LiveRun(t)' => Calm(t)'
  BY <1>1, <1>2, CalmKept
<1>4. plan'[p] = f /\ pc'[p] = label
      /\ \A q \in Procs \ {p} : pc'[q] = pc[q] /\ plan'[q] = plan[q]
  BY DEF TypeOK
<1>5. QED
  BY <1>1, <1>3, <1>4, RunKept

(* A step that moves no process and leaves what a plan relies on. *)
LEMMA RunStays ==
  ASSUME Serial, TypeOK, RunInv, NoRunAdded, UNCHANGED <<pc, plan>>,
         \A t \in Tasks : LiveRun(t)' => Calm(t)',
         \/ \E p \in Procs : Turn(p) /\ pc[p] \notin TxnPC
         \/ \A t \in Tasks : row'[t].status = row[t].status /\ row'[t].marked = row[t].marked
  PROVE  RunInv'
<1>1. OneTxn' /\ PlansOpen'
  BY DEF RunInv, OneTxn, PlansOpen
<1>2. LiveRowsCalm' /\ ExclusiveRun'
  BY DEF RunInv, LiveRowsCalm, ExclusiveRun, NoRunAdded
<1>3. PlansSafe'
  <2> SUFFICES ASSUME NEW q \in Procs, NEW t \in Tasks PROVE Safe(q, t)'
    BY DEF PlansSafe
  <2>1. Safe(q, t)
    BY DEF RunInv, PlansSafe
  <2>2. LiveRun(t)' => LiveRun(t)
    BY DEF NoRunAdded, LiveRun
  <2>3. CASE \E p \in Procs : Turn(p) /\ pc[p] \notin TxnPC
    <3>1. plan[q][t] = "none"
      BY <2>3 DEF RunInv, PlansOpen, Turn
    <3>2. QED
      BY <2>1, <3>1 DEF Safe, Probes, StaleProbes
  <2>4. CASE \A u \in Tasks : row'[u].status = row[u].status /\ row'[u].marked = row[u].marked
    BY <2>1, <2>2, <2>4 DEF Safe, Probes, StaleProbes
  <2>5. QED
    BY <2>3, <2>4
<1>4. QED
  BY <1>1, <1>2, <1>3 DEF RunInv

(* A commit of safe writes leaves the rows of live runs calm. *)
LEMMA CommitCalm ==
  ASSUME TypeOK, RunInv, NEW p \in Procs, CommitPlan(p), NEW t \in Tasks, LiveRun(t)
  PROVE  Calm(t)' /\ (row'[t].status = row[t].status \/ row'[t].status = "deleted")
<1>1. row'[t] = Written(row[t], plan[p][t]) /\ row[t] \in Row /\ plan[p][t] \in Writes
  BY DEF CommitPlan, TypeOK
<1>2. row[t].status \in {"running", "deleted"} /\ ~row[t].stale /\ Safe(p, t)
  BY DEF RunInv, LiveRowsCalm, Calm, PlansSafe
<1>3. plan[p][t] \notin {"start", "requeue", "cancel", "cancelDrop", "fail"} \cup StaleProbes
  BY <1>2 DEF Safe, Terminal
<1>4. CASE plan[p][t] \in {"drop", "mark", "progress", "progressMarked", "progressPlain"}
  BY <1>1, <1>2, <1>4 DEF Written, Row, Calm
<1>5. CASE plan[p][t] = "delete"
  BY <1>1, <1>5 DEF Written, NewRow, Calm
<1>6. CASE plan[p][t] \in {"none", "probe"}
  BY <1>1, <1>2, <1>6 DEF Written, Calm
<1>7. QED
  BY <1>1, <1>3, <1>4, <1>5, <1>6 DEF Writes, Probes, StaleProbes

(* A step of p that commits its safe writes and leaves its transaction. *)
LEMMA RunCommitted ==
  ASSUME Serial, TypeOK, JobInv, RunInv, NEW p \in Procs, NEW label,
         CommitPlan(p), pc[p] \in TxnPC, label \notin TxnPC,
         label \in RunPC => p \notin Workers \/ pc[p] \in RunPC,
         pc' = [pc EXCEPT ![p] = label], UNCHANGED <<jobs, hold>>
  PROVE  RunInv'
<1>1. NoRunAdded
  BY RunsMove
<1>2. \A t \in Tasks : LiveRun(t)' => Calm(t)'
  BY <1>1, CommitCalm DEF NoRunAdded, LiveRun
<1>3. plan' = [plan EXCEPT ![p] = NoPlan]
  BY DEF CommitPlan
<1>4. QED
  BY <1>1, <1>2, <1>3, RunLeft

(* A step of p that gives its transaction up. *)
LEMMA RunAbandoned ==
  ASSUME Serial, TypeOK, RunInv, NEW p \in Procs, NEW label, NoRunAdded,
         Abandon(p), pc[p] \in TxnPC, label \notin TxnPC,
         pc' = [pc EXCEPT ![p] = label]
  PROVE  RunInv'
<1>1. plan' = [plan EXCEPT ![p] = NoPlan] /\ RowsKept
  BY DEF Abandon, RowsKept
<1>2. \A t \in Tasks : LiveRun(t)' => Calm(t)'
  BY <1>1, CalmKept
<1>3. QED
  BY <1>1, <1>2, RunLeft

(* A step of p outside transactions that keeps the rows. *)
LEMMA RunMoved ==
  ASSUME Serial, TypeOK, RunInv, NEW p \in Procs, NEW label, NoRunAdded,
         UNCHANGED plan, RowsKept, pc[p] \notin TxnPC, label \notin TxnPC,
         pc' = [pc EXCEPT ![p] = label]
  PROVE  RunInv'
<1>1. \A t \in Tasks : LiveRun(t)' => Calm(t)'
  BY CalmKept
<1>2. QED
  BY <1>1, RunLeft

-----------------------------------------------------------------------------
LEMMA DispatchRun ==
  ASSUME Serial, TypeOK, JobInv, RunInv, NEW p \in Procs, Dispatch(p)
  PROVE  RunInv'
<1>l. \A label \in {"idle", "lock", "reserve", "enqueue"} : label \notin TxnPC \cup RunPC
  BY DEF TxnPC, RunPC
<1>1. CASE DispatchSkipped(p) \/ ReleaseLock(p)
  <2>1. /\ JobReturns(p) /\ pc' = [pc EXCEPT ![p] = "idle"] /\ UNCHANGED <<row, plan>>
        /\ pc[p] \in {"lock", "enqueue"}
    BY <1>1 DEF DispatchSkipped, ReleaseLock, JobReturns, Goto
  <2>2. NoRunAdded /\ RowsKept
    BY <2>1, RunsReturn DEF RowsKept
  <2>3. QED
    BY <1>l, <2>1, <2>2, RunMoved
<1>2. CASE CountSlots(p)
  <2>1. /\ pc' = [pc EXCEPT ![p] = "reserve"] /\ UNCHANGED <<row, plan, jobs, hold>>
        /\ pc[p] = "lock"
    BY <1>2 DEF CountSlots, Goto
  <2>2. NoRunAdded /\ RowsKept
    BY <1>l, <2>1, RunsMove DEF RowsKept
  <2>3. QED
    BY <1>l, <2>1, <2>2, RunMoved
<1>3. CASE ReserveTasks(p)
  <2>1. PICK S \in SUBSET Tasks : \E id \in [S -> {j \in Jobs : Fresh(j)}] : Reserves(p, S, id)
    BY <1>3, ReserveShape
  <2>2. PICK id \in [S -> {j \in Jobs : Fresh(j)}] : Reserves(p, S, id)
    BY <2>1
  <2>3. RowsKept
    <3> SUFFICES ASSUME NEW t \in Tasks
                 PROVE  /\ row'[t].status = row[t].status /\ row'[t].marked = row[t].marked
                        /\ row'[t].stale => row[t].stale
      BY DEF RowsKept
    <3>1. row'[t] = row[t] \/ row'[t] = [row[t] EXCEPT !.job = id[t]]
      BY <2>2 DEF Reserves
    <3>2. row[t] \in Row
      BY DEF TypeOK
    <3>3. QED
      BY <3>1, <3>2 DEF Row
  <2>4. /\ pc' = [pc EXCEPT ![p] = "enqueue"] /\ UNCHANGED <<plan, jobs, hold>>
        /\ pc[p] = "reserve"
    BY <1>3 DEF ReserveTasks, Goto
  <2>5. NoRunAdded
    BY <1>l, <2>4, RunsMove
  <2>6. QED
    BY <1>l, <2>3, <2>4, <2>5, RunMoved
<1>4. CASE EnqueueReserved(p) \/ EnqueueFails(p)
  <2>1. PICK e \in todo[p] :
          /\ jobs' \in {jobs, [jobs EXCEPT ![e[2]] = [state |-> "queued", task |-> e[1]]]}
          /\ row' \in {row, [row EXCEPT ![e[1]] = Written(row[e[1]], "drop")]}
    BY <1>4 DEF EnqueueReserved, EnqueueFails
  <2>2. UNCHANGED <<pc, plan, hold>>
    BY <1>4 DEF EnqueueReserved, EnqueueFails
  <2>3. \A q \in Procs : hold[q] # NoJob => jobs'[hold[q]].task = jobs[hold[q]].task
    <3> SUFFICES ASSUME NEW q \in Procs, hold[q] # NoJob PROVE jobs'[hold[q]] = jobs[hold[q]]
      OBVIOUS
    <3>1. jobs[hold[q]].state = "started" /\ jobs[e[2]].state = "none"
      BY <2>1 DEF JobInv, HeldStarted, TodoUnsent
    <3>2. hold[q] # e[2]
      BY <3>1
    <3>3. QED
      BY <2>1, <3>2 DEF TypeOK
  <2>4. NoRunAdded
    BY <2>2, <2>3, RunsStay
  <2>5. RowsKept
    <3> SUFFICES ASSUME NEW t \in Tasks
                 PROVE  /\ row'[t].status = row[t].status /\ row'[t].marked = row[t].marked
                        /\ row'[t].stale => row[t].stale
      BY DEF RowsKept
    <3>1. row'[t] = row[t] \/ row'[t] = Written(row[t], "drop")
      BY <2>1 DEF TypeOK
    <3>2. Written(row[t], "drop") = [row[t] EXCEPT !.job = NoJob, !.stale = FALSE]
      BY DEF Written
    <3>3. row[t] \in Row
      BY DEF TypeOK
    <3>4. QED
      BY <3>1, <3>2, <3>3 DEF Row
  <2>6. \A t \in Tasks : LiveRun(t)' => Calm(t)'
    BY <2>4, <2>5, CalmKept
  <2>7. QED
    BY <2>2, <2>4, <2>5, <2>6, RunStays DEF RowsKept
<1>5. QED
  BY <1>1, <1>2, <1>3, <1>4 DEF Dispatch

(* The first transaction of run_task starts a queued, unmarked task, and    *)
(* finalises only runs that nobody executes.                                *)
LEMMA BeginSafe ==
  ASSUME TypeOK, RunInv, NEW j, NEW t, NEW u \in Tasks
  PROVE  /\ BeginPlan(j, t)[u] \in {"none", "drop", "cancel", "cancelDrop", "start"}
         /\ BeginPlan(j, t)[u] = "start" => row[u].status = "queued" /\ ~row[u].marked
         /\ BeginPlan(j, t)[u] = "cancelDrop" => row[u].status = "queued"
         /\ BeginPlan(j, t)[u] = "cancel" => row[u].stale
<1>1. CASE row[t].job # j \/ row[t].status # "queued" \/ row[t].marked
  BY <1>1 DEF BeginPlan, NoPlan
<1>2. CASE ~(row[t].job # j \/ row[t].status # "queued" \/ row[t].marked)
  <2>1. BeginPlan(j, t)[u] = IF u \in StaleCancelled(OwnerOfTask(t)) THEN "cancel"
                             ELSE IF u # t THEN "none" ELSE IF MustWait(t) THEN "drop" ELSE "start"
    BY <1>2 DEF BeginPlan
  <2>2. u \in StaleCancelled(OwnerOfTask(t)) => row[u].stale
    BY DEF StaleCancelled
  <2>3. QED
    BY <1>2, <2>1, <2>2
<1>3. QED
  BY <1>1, <1>2

(* A row that is queued, finished or stale is not executed by anyone. *)
LEMMA NotLive ==
  ASSUME RunInv, NEW t \in Tasks,
         row[t].status \notin {"running", "deleted"} \/ row[t].stale
  PROVE  ~LiveRun(t)
BY DEF RunInv, LiveRowsCalm, Calm

LEMMA WorkerRun ==
  ASSUME Serial, TypeOK, JobInv, RunInv, NEW w \in Workers, Worker(w)
  PROVE  RunInv'
<1>w. w \in Procs
  BY DEF Procs
<1>l. /\ \A label \in {"idle", "begin", "check", "work", "finish", "abort", "fault", "lock"} :
           label \notin TxnPC
      /\ \A label \in {"idle", "begin", "begun", "lock"} : label \notin RunPC
      /\ \A label \in {"check", "work", "progress", "finish", "abort", "fault"} : label \in RunPC
      /\ "begun" \in TxnPC /\ "progress" \in TxnPC
  BY DEF TxnPC, RunPC
<1>1. CASE TakeJob(w)
  <2>1. PICK j \in Jobs : /\ jobs[j].state = "queued"
                          /\ jobs' = [jobs EXCEPT ![j].state = "started"]
                          /\ hold' = [hold EXCEPT ![w] = j]
    BY <1>1 DEF TakeJob
  <2>2. pc' = [pc EXCEPT ![w] = "begin"] /\ pc[w] = "idle" /\ UNCHANGED <<row, plan>>
    BY <1>1 DEF TakeJob, Goto
  <2>3. pc'[w] = "begin" /\ \A q \in Procs \ {w} : pc'[q] = pc[q] /\ hold'[q] = hold[q]
    BY <1>w, <2>1, <2>2 DEF TypeOK
  <2>4. \A q \in Procs : hold'[q] = hold[q] /\ hold[q] # NoJob =>
                           jobs'[hold[q]].task = jobs[hold[q]].task
    BY <2>1 DEF TypeOK, Job
  <2>5. NoRunAdded
    BY <1>w, <1>l, <2>3, <2>4, RunsOnly
  <2>6. RowsKept
    BY <2>2 DEF RowsKept
  <2>7. QED
    BY <1>w, <1>l, <2>2, <2>5, <2>6, RunMoved
<1>2. CASE BeginDeleted(w)
  <2>1. /\ JobReturns(w) /\ pc' = [pc EXCEPT ![w] = "idle"] /\ UNCHANGED <<row, plan>>
        /\ pc[w] = "begin"
    BY <1>2 DEF BeginDeleted, JobReturns, Goto
  <2>2. NoRunAdded /\ RowsKept
    BY <1>w, <2>1, RunsReturn DEF RowsKept
  <2>3. QED
    BY <1>w, <1>l, <2>1, <2>2, RunMoved
<1>3. CASE CheckCancel(w) \/ WorkRaises(w)
  <2>1. PICK label \in {"abort", "work", "fault"} : pc' = [pc EXCEPT ![w] = label]
    BY <1>3 DEF CheckCancel, WorkRaises, Goto
  <2>2. UNCHANGED <<row, jobs, hold, plan>> /\ pc[w] \in {"check", "work"}
    BY <1>3 DEF CheckCancel, WorkRaises, local
  <2>3. NoRunAdded /\ RowsKept
    BY <1>w, <1>l, <2>1, <2>2, RunsMove DEF RowsKept
  <2>4. QED
    BY <1>w, <1>l, <2>1, <2>2, <2>3, RunMoved
<1>4. CASE BeginTask(w)
  <2> DEFINE f == BeginPlan(hold[w], TaskOf(w))
  <2>1. /\ pc' = [pc EXCEPT ![w] = "begun"] /\ Turn(w) /\ plan' = [plan EXCEPT ![w] = f]
        /\ UNCHANGED <<row, jobs, hold>>
    BY <1>4 DEF BeginTask, Goto
  <2>2. NoRunAdded
    BY <1>w, <1>l, <2>1, RunsMove
  <2>3. ASSUME NEW t \in Tasks, plan'[w][t] = f[t] PROVE Safe(w, t)'
    <3>1. /\ f[t] \in {"none", "drop", "cancel", "cancelDrop", "start"}
          /\ f[t] = "start" => row[t].status = "queued" /\ ~row[t].marked
          /\ f[t] \in {"cancel", "cancelDrop"} => ~LiveRun(t)
      BY BeginSafe, NotLive
    <3>2. LiveRun(t)' => LiveRun(t)
      BY <2>2 DEF NoRunAdded, LiveRun
    <3>3. QED
      BY <2>1, <2>3, <3>1, <3>2 DEF Safe, Probes, StaleProbes
  <2> HIDE DEF f
  <2>4. QED
    BY <1>w, <1>l, <2>1, <2>3, RunOpened
<1>5. CASE CommitBegin(w)
  <2>1. /\ pc[w] = "begun" /\ CommitPlan(w) /\ UNCHANGED <<jobs, hold>>
        /\ pc' = [pc EXCEPT ![w] = IF plan[w][TaskOf(w)] = "start" THEN "check" ELSE "lock"]
    BY <1>5 DEF CommitBegin, Goto
  <2>2. CASE plan[w][TaskOf(w)] # "start"
    <3>1. pc' = [pc EXCEPT ![w] = "lock"]
      BY <2>1, <2>2
    <3>2. QED
      BY <1>w, <1>l, <2>1, <3>1, RunCommitted
  <2>3. CASE plan[w][TaskOf(w)] = "start"
    <3> DEFINE t == TaskOf(w)
    <3>1. hold[w] # NoJob
      BY <1>w, <2>1 DEF JobInv, HoldersHold, HolderPC
    <3>2. t \in Tasks
      BY <1>w, <3>1, HeldTask
    <3>3. row[t].status = "queued" /\ ~LiveRun(t)
      BY <1>w, <2>3, <3>2, NotLive DEF RunInv, PlansSafe, Safe
    <3>4. pc' = [pc EXCEPT ![w] = "check"] /\ plan' = [plan EXCEPT ![w] = NoPlan]
      BY <2>1, <2>3 DEF CommitPlan
    <3>5. \A v \in Workers : \A u \in Tasks :
            Runs(v, u)' => Runs(v, u) \/ (v = w /\ u = t)
      BY <1>w, <2>1, <3>4 DEF Runs, TaskOf, TypeOK
    <3>6. ExclusiveRun'
      BY <3>3, <3>5 DEF RunInv, ExclusiveRun, LiveRun
    <3>7. LiveRowsCalm'
      <4> SUFFICES ASSUME NEW u \in Tasks, LiveRun(u)' PROVE Calm(u)'
        BY DEF LiveRowsCalm
      <4>1. CASE LiveRun(u)
        BY <1>w, <2>1, <4>1, CommitCalm
      <4>2. CASE u = t
        <5>1. row'[u] = [row[u] EXCEPT !.status = "running", !.job = NoJob,
                                       !.marked = FALSE, !.stale = FALSE]
          BY <2>1, <2>3, <3>2, <4>2 DEF CommitPlan, Written
        <5>2. row[u] \in Row
          BY <3>2, <4>2 DEF TypeOK
        <5>3. QED
          BY <5>1, <5>2 DEF Row, Calm
      <4>3. QED
        BY <3>5, <4>1, <4>2 DEF LiveRun
    <3>8. \A q \in Procs : \A u \in Tasks : plan'[q][u] = "none"
      BY <1>w, <2>1, <3>4 DEF RunInv, OneTxn, PlansOpen, TypeOK, NoPlan, TxnPC
    <3>9. PlansSafe' /\ PlansOpen'
      BY <3>8 DEF PlansSafe, Safe, Probes, StaleProbes, PlansOpen
    <3>10. OneTxn'
      BY <1>w, <1>l, <3>4 DEF RunInv, OneTxn, TypeOK
    <3>11. QED
      BY <3>6, <3>7, <3>9, <3>10 DEF RunInv
  <2>4. QED
    BY <2>2, <2>3
<1>6. CASE CommitBeginFails(w)
  <2>1. /\ pc[w] = "begun" /\ Abandon(w) /\ pc' = [pc EXCEPT ![w] = "idle"]
        /\ hold' = [hold EXCEPT ![w] = NoJob] /\ jobs' = [jobs EXCEPT ![hold[w]].state = "failed"]
    BY <1>6 DEF CommitBeginFails, Goto
  <2>2. pc'[w] = "idle" /\ \A q \in Procs \ {w} : pc'[q] = pc[q] /\ hold'[q] = hold[q]
    BY <1>w, <2>1 DEF TypeOK
  <2>3. \A q \in Procs : hold'[q] = hold[q] /\ hold[q] # NoJob =>
                           jobs'[hold[q]].task = jobs[hold[q]].task
    BY <2>1 DEF TypeOK, Job
  <2>4. NoRunAdded
    BY <1>w, <1>l, <2>2, <2>3, RunsOnly
  <2>5. QED
    BY <1>w, <1>l, <2>1, <2>4, RunAbandoned
<1>7. CASE WorkItem(w)
  <2>1. PICK write \in ProgressWrites(TaskOf(w)) : plan' = [plan EXCEPT ![w][TaskOf(w)] = write]
    BY <1>7 DEF WorkItem
  <2>2. /\ pc' = [pc EXCEPT ![w] = "progress"] /\ Turn(w) /\ pc[w] = "work"
        /\ UNCHANGED <<row, jobs, hold>>
    BY <1>7 DEF WorkItem, Goto
  <2>3. \A t \in Tasks : plan[w][t] = "none"
    BY <1>w, <1>l, <2>2 DEF RunInv, PlansOpen
  <2> DEFINE f == [plan[w] EXCEPT ![TaskOf(w)] = write]
  <2>4. plan' = [plan EXCEPT ![w] = f]
    BY <2>1
  <2>5. ASSUME NEW t \in Tasks, plan'[w][t] = f[t] PROVE Safe(w, t)'
    <3>1. f[t] = "none" \/ (t = TaskOf(w) /\ f[t] = write)
      BY <1>w, <2>3 DEF TypeOK
    <3>2. write \in {"none", "progress", "progressMarked", "progressPlain"}
          /\ (write = "progressPlain" => ~row[TaskOf(w)].marked)
      BY DEF ProgressWrites
    <3>3. QED
      BY <2>2, <2>5, <3>1, <3>2 DEF Safe, Probes, StaleProbes
  <2> HIDE DEF f
  <2>6. QED
    BY <1>w, <1>l, <2>2, <2>4, <2>5, RunOpened
<1>8. CASE \E label \in {"check", "finish"} : CommitProgress(w, label)
  <2>1. PICK label \in {"check", "finish"} : pc' = [pc EXCEPT ![w] = label]
    BY <1>8 DEF CommitProgress, Goto
  <2>2. CommitPlan(w) /\ UNCHANGED <<jobs, hold>> /\ pc[w] = "progress"
    BY <1>8 DEF CommitProgress
  <2>3. QED
    BY <1>w, <1>l, <2>1, <2>2, RunCommitted
<1>9. CASE CommitProgressFails(w)
  <2>1. /\ pc[w] = "progress" /\ Abandon(w) /\ pc' = [pc EXCEPT ![w] = "fault"]
        /\ UNCHANGED <<jobs, hold>>
    BY <1>9 DEF CommitProgressFails, Goto
  <2>2. NoRunAdded
    BY <1>w, <1>l, <2>1, RunsMove
  <2>3. QED
    BY <1>w, <1>l, <2>1, <2>2, RunAbandoned
<1>10. CASE FinishTask(w) \/ AbortTask(w) \/ FailTask(w)
  <2>1. PICK statuses \in SUBSET Terminal : Finalise(w, statuses)
    BY <1>10 DEF FinishTask, AbortTask, FailTask, Terminal
  <2>2. pc[w] \in RunPC /\ pc[w] \notin TxnPC
    BY <1>10 DEF FinishTask, AbortTask, FailTask, RunPC, TxnPC
  <2>3. pc' = [pc EXCEPT ![w] = "lock"] /\ Turn(w) /\ UNCHANGED <<jobs, hold, plan>>
    BY <2>1 DEF Finalise, Goto, local
  <2>4. NoRunAdded
    BY <1>w, <1>l, <2>3, RunsMove
  <2>5. ASSUME NEW t \in Tasks, LiveRun(t)' PROVE Calm(t)'
    <3>1. PICK v \in Workers : Runs(v, t)'
      BY <2>5 DEF LiveRun
    <3>2. v # w
      BY <1>w, <1>l, <2>3, <3>1 DEF Runs, TypeOK
    <3>3. Runs(v, t)
      BY <2>4, <3>1 DEF NoRunAdded
    <3>4. TaskOf(w) # t
      BY <2>2, <3>2, <3>3 DEF RunInv, ExclusiveRun, Runs
    <3>5. row'[t] = row[t]
      BY <2>1, <3>4 DEF Finalise, TypeOK
    <3>6. QED
      BY <3>3, <3>5 DEF RunInv, LiveRowsCalm, Calm, LiveRun
  <2>6. QED
    BY <1>w, <1>l, <2>2, <2>3, <2>4, <2>5, RunLeft
<1>11. QED
  BY <1>1, <1>2, <1>3, <1>4, <1>5, <1>6, <1>7, <1>8, <1>9, <1>10 DEF Worker

LEMMA RequestRun ==
  ASSUME Serial, TypeOK, JobInv, RunInv, NEW a \in Api, Request(a)
  PROVE  RunInv'
<1>a. a \in Procs /\ a \notin Workers
  BY ConstantsAssumption DEF Procs
<1>l. "idle" \notin TxnPC \cup RunPC /\ "lock" \notin TxnPC \cup RunPC
      /\ "apply" \in TxnPC /\ "apply" \notin RunPC
  BY DEF TxnPC, RunPC
<1>1. CASE CreateTask(a)
  <2>1. /\ pc' = [pc EXCEPT ![a] = "lock"] /\ pc[a] = "idle" /\ UNCHANGED <<plan, jobs, hold>>
    BY <1>1 DEF CreateTask, ThenDispatch, Goto
  <2>2. PICK t \in Tasks : /\ row[t].status = "new"
                          /\ row' = [row EXCEPT ![t] = [NewRow EXCEPT !.status = "queued"]]
    BY <1>1 DEF CreateTask
  <2>3. NoRunAdded
    BY <1>a, <1>l, <2>1, RunsMove
  <2>4. \A u \in Tasks : \/ row'[u] = row[u]
                         \/ row[u].status = "new" /\ ~row'[u].marked
    BY <2>2 DEF TypeOK, NewRow
  <2>5. ASSUME NEW u \in Tasks, LiveRun(u)' PROVE Calm(u)'
    <3>1. LiveRun(u) /\ Calm(u)
      BY <2>3, <2>5 DEF NoRunAdded, LiveRun, RunInv, LiveRowsCalm
    <3>2. row'[u] = row[u]
      BY <2>4, <3>1 DEF Calm
    <3>3. QED
      BY <3>1, <3>2 DEF Calm
  <2>6. \A u \in Tasks : plan'[a][u] = "none"
    BY <1>a, <1>l, <2>1 DEF RunInv, PlansOpen
  <2>7. \A u \in Tasks : Safe(a, u)'
    BY <2>6 DEF Safe, Probes, StaleProbes
  <2>8. pc'[a] = "lock" /\ \A q \in Procs \ {a} : pc'[q] = pc[q] /\ plan'[q] = plan[q]
    BY <1>a, <2>1 DEF TypeOK
  <2>9. QED
    BY <1>a, <1>l, <2>3, <2>4, <2>5, <2>6, <2>7, <2>8, RunKept
<1>2. CASE RerunTask(a) \/ CancelTask(a) \/ DeleteTask(a)
  <2>1. PICK t \in Tasks, write \in {"none", "requeue", "cancel", "mark", "delete"} :
          /\ plan' = [plan EXCEPT ![a][t] = write]
          /\ write = "requeue" => row[t].status \in Terminal
          /\ write = "cancel" => row[t].status = "queued"
    BY <1>2 DEF RerunTask, CancelTask, DeleteTask, Rerunnable
  <2>2. pc[a] = "idle" /\ Turn(a) /\ pc' = [pc EXCEPT ![a] = "apply"]
        /\ UNCHANGED <<row, jobs, hold>>
    BY <1>2 DEF RerunTask, CancelTask, DeleteTask, Goto
  <2>3. \A u \in Tasks : plan[a][u] = "none"
    BY <1>a, <1>l, <2>2 DEF RunInv, PlansOpen
  <2>4. NoRunAdded
    BY <1>a, <1>l, <2>2, RunsMove
  <2> DEFINE f == [plan[a] EXCEPT ![t] = write]
  <2>5. plan' = [plan EXCEPT ![a] = f]
    BY <2>1
  <2>6. ASSUME NEW u \in Tasks, plan'[a][u] = f[u] PROVE Safe(a, u)'
    <3>1. f[u] = "none" \/ (u = t /\ f[u] = write)
      BY <1>a, <2>3 DEF TypeOK
    <3>2. write = "cancel" => ~LiveRun(t)
      BY <2>1, NotLive
    <3>3. write = "cancel" => ~LiveRun(t)'
      BY <2>4, <3>2 DEF NoRunAdded, LiveRun
    <3>4. QED
      BY <2>1, <2>2, <2>6, <3>1, <3>3 DEF Safe, Probes, StaleProbes
  <2> HIDE DEF f
  <2>7. QED
    BY <1>a, <1>l, <2>2, <2>5, <2>6, RunOpened
<1>3. CASE CommitApi(a)
  <2>1. PICK label \in {"idle", "lock"} : pc' = [pc EXCEPT ![a] = label]
    BY <1>3 DEF CommitApi, Goto
  <2>2. CommitPlan(a) /\ UNCHANGED <<jobs, hold>> /\ pc[a] \in TxnPC
    BY <1>l, <1>3 DEF CommitApi
  <2>3. QED
    BY <1>a, <1>l, <2>1, <2>2, RunCommitted
<1>4. CASE CommitApiFails(a)
  <2>1. /\ pc' = [pc EXCEPT ![a] = "idle"] /\ Abandon(a) /\ pc[a] \in TxnPC
        /\ UNCHANGED <<jobs, hold>>
    BY <1>l, <1>4 DEF CommitApiFails, Goto
  <2>2. NoRunAdded
    BY <1>a, <1>l, <2>1, RunsMove
  <2>3. QED
    BY <1>a, <1>l, <2>1, <2>2, RunAbandoned
<1>5. QED
  BY <1>1, <1>2, <1>3, <1>4 DEF Request

(* A task that a worker executes has an active job. *)
LEMMA LiveActive ==
  ASSUME TypeOK, JobInv, NEW t \in Tasks, LiveRun(t)
  PROVE  RedisState(t) = "active"
<1>1. PICK w \in Workers : Runs(w, t)
  BY DEF LiveRun
<1>2. w \in Procs /\ hold[w] # NoJob
  BY <1>1 DEF Procs, Runs, JobInv, HoldersHold, HolderPC
<1>3. hold[w] \in Jobs /\ jobs[hold[w]].state = "started" /\ jobs[hold[w]].task = t
  BY <1>1, <1>2 DEF Runs, TaskOf, TypeOK, JobInv, HeldStarted
<1>4. QED
  BY <1>3 DEF RedisState, InRedis

LEMMA ReconcileRun ==
  ASSUME Serial, TypeOK, JobInv, RunInv, NEW p \in Api \cup {Runner}, Reconcile(p)
  PROVE  RunInv'
<1>p. p \in Procs /\ p \notin Workers
  BY ConstantsAssumption DEF Procs
<1>l. "idle" \notin TxnPC \cup RunPC /\ "lock" \notin TxnPC \cup RunPC
      /\ "probe" \in TxnPC /\ "settle" \in TxnPC
  BY DEF TxnPC, RunPC
<1>1. CASE ReadRunning(p)
  <2>0. PICK late \in SUBSET Tasks :
          plan' = [plan EXCEPT ![p] = [t \in Tasks |->
            IF row[t].status # "running" THEN "none"
            ELSE IF p # Runner /\ row[t].stale /\ row[t].marked
                 THEN IF t \in late THEN "probeMarkedStale" ELSE "probeMarked"
            ELSE IF row[t].stale THEN "probeStale" ELSE "probe"]]
    BY <1>1 DEF ReadRunning
  <2> DEFINE f == [t \in Tasks |->
            IF row[t].status # "running" THEN "none"
            ELSE IF p # Runner /\ row[t].stale /\ row[t].marked
                 THEN IF t \in late THEN "probeMarkedStale" ELSE "probeMarked"
            ELSE IF row[t].stale THEN "probeStale" ELSE "probe"]
  <2>1. /\ pc' = [pc EXCEPT ![p] = "probe"] /\ Turn(p) /\ UNCHANGED <<row, jobs, hold>>
        /\ plan' = [plan EXCEPT ![p] = f]
    BY <1>1, <2>0 DEF ReadRunning, Goto
  <2>2. NoRunAdded
    BY <1>p, <2>1, RunsMove
  <2>3. ASSUME NEW t \in Tasks, plan'[p][t] = f[t] PROVE Safe(p, t)'
    <3>1. /\ f[t] \in {"none"} \cup Probes
          /\ f[t] # "none" => row[t].status = "running"
          /\ f[t] \in StaleProbes => row[t].stale
      BY DEF Probes, StaleProbes
    <3>2. f[t] \in StaleProbes => ~LiveRun(t)
      BY <3>1, NotLive
    <3>3. LiveRun(t)' => LiveRun(t)
      BY <2>2 DEF NoRunAdded, LiveRun
    <3> HIDE DEF f
    <3>4. QED
      BY <2>1, <2>3, <3>1, <3>2, <3>3 DEF Safe, Probes, StaleProbes
  <2> HIDE DEF f
  <2>4. QED
    BY <1>p, <1>l, <2>1, <2>3, RunOpened
<1>2. CASE \E ripe \in 0..MaxTasks : ProbeRedis(p, ripe)
  <2>1. PICK ripe \in 0..MaxTasks : ProbeRedis(p, ripe)
    BY <1>2
  <2>2. PICK S \in SUBSET (1..ripe) :
          /\ IF p = Runner
             THEN Oldest(S, {t \in 1..ripe : row[t].status = "queued" /\ row[t].job # NoJob},
                         RequeueLimit)
             ELSE S = {}
          /\ plan' = [plan EXCEPT ![p] = [t \in Tasks |->
                        IF t \in S THEN ReservationVerdict(t) ELSE RunningVerdict(t, plan[p][t])]]
    BY <2>1 DEF ProbeRedis
  <2> DEFINE f == [t \in Tasks |->
                     IF t \in S THEN ReservationVerdict(t) ELSE RunningVerdict(t, plan[p][t])]
  <2>3. /\ pc' = [pc EXCEPT ![p] = "settle"] /\ pc[p] \in TxnPC /\ UNCHANGED <<row, jobs, hold>>
        /\ plan' = [plan EXCEPT ![p] = f]
    BY <1>l, <2>1, <2>2 DEF ProbeRedis, Goto
  <2>4. NoRunAdded
    BY <1>p, <2>3, RunsMove
  <2>5. ASSUME NEW t \in Tasks, plan'[p][t] = f[t] PROVE Safe(p, t)'
    <3>1. Safe(p, t)
      BY <1>p DEF RunInv, PlansSafe
    <3>2. LiveRun(t)' => LiveRun(t)
      BY <2>4 DEF NoRunAdded, LiveRun
    <3>3. CASE t \in S
      <4>1. row[t].status = "queued"
        BY <2>2, <3>3 DEF Oldest
      <4>2. ~LiveRun(t)
        BY <4>1, NotLive
      <4>3. f[t] \in {"none", "drop", "cancelDrop"}
        BY <3>3 DEF ReservationVerdict
      <4> HIDE DEF f
      <4>4. QED
        BY <2>3, <2>5, <3>2, <4>2, <4>3 DEF Safe, Probes, StaleProbes
    <3>4. CASE t \notin S
      <4>1. f[t] = RunningVerdict(t, plan[p][t])
        BY <3>4
      <4>2. CASE plan[p][t] = "probe"
        <5>1. f[t] = IF RedisState(t) = "failed" THEN "fail" ELSE "none"
          BY <4>1, <4>2 DEF RunningVerdict
        <5>2. f[t] = "fail" => RedisState(t) # "active"
          BY <5>1
        <5>3. f[t] = "fail" => ~LiveRun(t)
          BY <5>2, LiveActive
        <5> HIDE DEF f
        <5>4. QED
          BY <2>3, <2>5, <3>1, <3>2, <4>2, <5>1, <5>3 DEF Safe, Probes, StaleProbes
      <4>3. CASE plan[p][t] \in StaleProbes
        <5>1. f[t] \in {"none", "cancel", "fail"}
          BY <4>1, <4>3 DEF RunningVerdict, Probes, StaleProbes
        <5> HIDE DEF f
        <5>2. QED
          BY <2>3, <2>5, <3>1, <3>2, <4>3, <5>1 DEF Safe, Probes, StaleProbes
      <4>4. CASE plan[p][t] \notin Probes
        <5>1. f[t] = plan[p][t]
          BY <4>1, <4>4 DEF RunningVerdict, Probes
        <5> HIDE DEF f
        <5>2. QED
          BY <2>3, <2>5, <3>1, <3>2, <5>1 DEF Safe
      <4>5. QED
        BY <4>2, <4>3, <4>4 DEF StaleProbes
    <3>5. QED
      BY <3>3, <3>4
  <2> HIDE DEF f
  <2>6. QED
    BY <1>p, <1>l, <2>3, <2>5, RunOpened
<1>3. CASE CommitReconcile(p)
  <2>1. PICK label \in {"idle", "lock"} : pc' = [pc EXCEPT ![p] = label]
    BY <1>3 DEF CommitReconcile, Goto
  <2>2. CommitPlan(p) /\ UNCHANGED <<jobs, hold>> /\ pc[p] \in TxnPC
    BY <1>l, <1>3 DEF CommitReconcile
  <2>3. QED
    BY <1>p, <1>l, <2>1, <2>2, RunCommitted
<1>4. CASE CommitReconcileFails(p)
  <2>1. /\ pc' = [pc EXCEPT ![p] = "idle"] /\ Abandon(p) /\ pc[p] \in TxnPC
        /\ UNCHANGED <<jobs, hold>>
    BY <1>l, <1>4 DEF CommitReconcileFails, Goto
  <2>2. NoRunAdded
    BY <1>p, <1>l, <2>1, RunsMove
  <2>3. QED
    BY <1>p, <1>l, <2>1, <2>2, RunAbandoned
<1>5. QED
  BY <1>1, <1>2, <1>3, <1>4 DEF Reconcile

LEMMA CleanupRun ==
  ASSUME Serial, TypeOK, JobInv, RunInv, CleanupScheduled
  PROVE  RunInv'
<1>1. PICK S \in SUBSET {t \in Tasks : row[t].status \in Terminal /\ LaneOf[t] \in ScheduledLanes} :
        /\ row' = [t \in Tasks |-> IF t \in S THEN Written(row[t], "delete") ELSE row[t]]
        /\ jobs' = [j \in Jobs |-> IF jobs[j].task \in S /\ jobs[j].state \in {"queued", "failed"}
                                   THEN GoneJob ELSE jobs[j]]
  BY DEF CleanupScheduled
<1>2. UNCHANGED <<pc, hold, plan>> /\ Turn(Runner) /\ Runner \in Procs /\ pc[Runner] \notin TxnPC
  BY DEF CleanupScheduled, local, Procs, TxnPC
<1>3. NoRunAdded
  <2>1. ASSUME NEW q \in Procs, hold[q] # NoJob PROVE jobs'[hold[q]] = jobs[hold[q]]
    BY <1>1, <2>1 DEF JobInv, HeldStarted, TypeOK
  <2>2. QED
    BY <1>2, <2>1, RunsStay
<1>4. ASSUME NEW t \in Tasks, LiveRun(t)' PROVE Calm(t)'
  <2>1. LiveRun(t) /\ Calm(t)
    BY <1>3, <1>4 DEF NoRunAdded, LiveRun, RunInv, LiveRowsCalm
  <2>2. row'[t] = row[t]
    BY <1>1, <2>1 DEF Calm, Terminal
  <2>3. QED
    BY <2>1, <2>2 DEF Calm
<1>5. QED
  BY <1>2, <1>3, <1>4, RunStays

LEMMA EnvironmentRun ==
  ASSUME Serial, ~SlowRuns, TypeOK, JobInv, RunInv, Environment
  PROVE  RunInv'
<1>1. ASSUME NEW p \in Procs, Crash(p) PROVE RunInv'
  <2>1. /\ pc' = [pc EXCEPT ![p] = "idle"] /\ hold' = [hold EXCEPT ![p] = NoJob]
        /\ plan' = [plan EXCEPT ![p] = NoPlan] /\ UNCHANGED <<row, jobs>>
    BY <1>1 DEF Crash, Goto
  <2>2. pc'[p] = "idle" /\ \A q \in Procs \ {p} : pc'[q] = pc[q] /\ hold'[q] = hold[q]
    BY <2>1 DEF TypeOK
  <2>3. "idle" \notin TxnPC \cup RunPC
    BY DEF TxnPC, RunPC
  <2>4. NoRunAdded /\ RowsKept
    BY <2>1, <2>2, <2>3, RunsOnly DEF RowsKept
  <2>5. \A t \in Tasks : LiveRun(t)' => Calm(t)'
    BY <2>4, CalmKept
  <2>6. QED
    BY <2>1, <2>3, <2>4, <2>5, RunLeft
<1>2. ASSUME NEW j \in Jobs, JobFails(j) \/ FailedJobExpires(j) \/ LoseJob(j) PROVE RunInv'
  <2>1. UNCHANGED <<row, pc, hold, plan>>
    BY <1>2 DEF JobFails, FailedJobExpires, LoseJob, local
  <2>2. \/ jobs' = [jobs EXCEPT ![j].state = "failed"]
        \/ jobs[j].state # "started" /\ jobs' = [jobs EXCEPT ![j] = GoneJob]
    BY <1>2 DEF JobFails, FailedJobExpires, LoseJob
  <2>3. ASSUME NEW q \in Procs, hold[q] # NoJob
        PROVE  jobs'[hold[q]].task = jobs[hold[q]].task
    <3>1. jobs[hold[q]].state = "started" /\ hold[q] \in Jobs
      BY <2>3 DEF JobInv, HeldStarted, TypeOK
    <3>2. jobs[j] \in Job /\ jobs \in [Jobs -> Job]
      BY DEF TypeOK
    <3>3. CASE jobs' = [jobs EXCEPT ![j].state = "failed"]
      BY <3>1, <3>2, <3>3 DEF Job
    <3>4. CASE jobs[j].state # "started" /\ jobs' = [jobs EXCEPT ![j] = GoneJob]
      BY <3>1, <3>2, <3>4
    <3>5. QED
      BY <2>2, <3>3, <3>4
  <2>4. NoRunAdded /\ RowsKept
    BY <2>1, <2>3, RunsStay DEF RowsKept
  <2>5. \A t \in Tasks : LiveRun(t)' => Calm(t)'
    BY <2>4, CalmKept
  <2>6. QED
    BY <2>1, <2>4, <2>5, RunStays DEF RowsKept
<1>3. CASE LockExpires \/ \E o \in Owners : PauseOwner(o) \/ ResumeOwner(o)
  <2>1. UNCHANGED <<row, jobs, pc, hold, plan>>
    BY <1>3 DEF LockExpires, PauseOwner, ResumeOwner, local
  <2>2. NoRunAdded /\ RowsKept
    BY <2>1, RunsStay DEF RowsKept
  <2>3. \A t \in Tasks : LiveRun(t)' => Calm(t)'
    BY <2>2, CalmKept
  <2>4. QED
    BY <2>1, <2>2, <2>3, RunStays DEF RowsKept
<1>4. ASSUME NEW t \in Tasks, RowGoesStale(t) PROVE RunInv'
  <2>1. UNCHANGED <<jobs, pc, hold, plan>> /\ row' = [row EXCEPT ![t].stale = TRUE]
        /\ ~LiveRun(t)
    BY <1>4 DEF RowGoesStale, local
  <2>2. NoRunAdded
    BY <2>1, RunsStay
  <2>3. \A u \in Tasks : row'[u].status = row[u].status /\ row'[u].marked = row[u].marked
    BY <2>1 DEF TypeOK, Row
  <2>4. ASSUME NEW u \in Tasks, LiveRun(u)' PROVE Calm(u)'
    <3>1. LiveRun(u) /\ Calm(u)
      BY <2>2, <2>4 DEF NoRunAdded, LiveRun, RunInv, LiveRowsCalm
    <3>2. row'[u] = row[u]
      BY <2>1, <3>1 DEF TypeOK
    <3>3. QED
      BY <3>1, <3>2 DEF Calm
  <2>5. QED
    BY <2>1, <2>2, <2>3, <2>4, RunStays
<1>5. QED
  BY <1>1, <1>2, <1>3, <1>4 DEF Environment

LEMMA InitRun ==
  ASSUME Init
  PROVE  RunInv
<1>1. \A p \in Procs : pc[p] = "idle" /\ \A t \in Tasks : plan[p][t] = "none"
  BY DEF Init, NoPlan
<1>2. \A w \in Workers : \A t \in Tasks : ~Runs(w, t)
  BY <1>1 DEF Runs, RunPC, Procs
<1>3. OneTxn /\ PlansOpen /\ PlansSafe
  BY <1>1 DEF OneTxn, PlansOpen, PlansSafe, Safe, Probes, StaleProbes, TxnPC
<1>4. LiveRowsCalm /\ ExclusiveRun
  BY <1>2 DEF LiveRowsCalm, ExclusiveRun, LiveRun
<1>5. QED
  BY <1>3, <1>4 DEF RunInv

(* The invariant, for every instance. *)
LEMMA RunInvariant ==
  ASSUME Serial, ~SlowRuns
  PROVE  Spec => [](TypeOK /\ JobInv /\ RunInv)
<1>1. Init => TypeOK /\ JobInv /\ RunInv
  BY InitTyped, InitRun
<1>2. TypeOK /\ JobInv /\ RunInv /\ [Next]_vars => (TypeOK /\ JobInv /\ RunInv)'
  <2> SUFFICES ASSUME TypeOK, JobInv, RunInv, [Next]_vars PROVE RunInv'
    BY NextType, NextJobInv
  <2>1. CASE Next
    BY <2>1, DispatchRun, WorkerRun, RequestRun, ReconcileRun, CleanupRun, EnvironmentRun
    DEF Next
  <2>2. CASE UNCHANGED vars
    <3>1. NoRunAdded /\ RowsKept
      BY <2>2, RunsStay DEF vars, RowsKept
    <3>2. \A t \in Tasks : LiveRun(t)' => Calm(t)'
      BY <3>1, CalmKept
    <3>3. QED
      BY <2>2, <3>1, <3>2, RunStays DEF vars, RowsKept
  <2>3. QED
    BY <2>1, <2>2
<1>3. QED
  BY <1>1, <1>2, PTL DEF Spec

(* run_task, for every instance: if unlocked transactions are serial and    *)
(* live runs touch their rows in time, no two workers execute one task.     *)
THEOREM Exclusion ==
  ASSUME Serial, ~SlowRuns
  PROVE  Spec => []ExclusiveRun
<1>1. RunInv => ExclusiveRun
  BY DEF RunInv
<1>2. QED
  BY <1>1, RunInvariant, PTL

-----------------------------------------------------------------------------
(* The ways in which a step changes the status of a task. *)
Deleted(t) == row'[t].status = "deleted"
Created(t) == row[t].status = "new"
Committed(t) == \E p \in Procs : CommitPlan(p) /\ row'[t] # row[t]
Finished(t) == \E w \in Workers : Runs(w, t) /\ pc'[w] # pc[w]

LEMMA StatusChange ==
  ASSUME TypeOK, JobInv, Next, NEW t \in Tasks, row'[t].status # row[t].status
  PROVE  Deleted(t) \/ Created(t) \/ Committed(t) \/ Finished(t)
<1>0. row[t] \in Row
  BY DEF TypeOK
<1>1. ASSUME NEW p \in Procs, Dispatch(p) PROVE FALSE
  <2>1. CASE ReserveTasks(p)
    <3>1. PICK S \in SUBSET Tasks : \E id \in [S -> {j \in Jobs : Fresh(j)}] : Reserves(p, S, id)
      BY <2>1, ReserveShape
    <3>2. PICK id \in [S -> {j \in Jobs : Fresh(j)}] : Reserves(p, S, id)
      BY <3>1
    <3>3. row'[t] = row[t] \/ row'[t] = [row[t] EXCEPT !.job = id[t]]
      BY <3>2 DEF Reserves
    <3>4. QED
      BY <1>0, <3>3 DEF Row
  <2>2. CASE EnqueueFails(p)
    <3>1. PICK e \in todo[p] : row' \in {row, [row EXCEPT ![e[1]] = Written(row[e[1]], "drop")]}
      BY <2>2 DEF EnqueueFails
    <3>2. row'[t] = row[t] \/ row'[t] = Written(row[t], "drop")
      BY <3>1 DEF TypeOK
    <3>3. Written(row[t], "drop") = [row[t] EXCEPT !.job = NoJob, !.stale = FALSE]
      BY DEF Written
    <3>4. Written(row[t], "drop").status = row[t].status
      BY <1>0, <3>3 DEF Row
    <3>5. QED
      BY <3>2, <3>4
  <2>3. QED
    BY <1>1, <2>1, <2>2 DEF Dispatch, DispatchSkipped, CountSlots, EnqueueReserved, ReleaseLock
<1>2. ASSUME NEW w \in Workers, Worker(w) PROVE Committed(t) \/ Finished(t)
  <2>w. w \in Procs
    BY DEF Procs
  <2>1. CASE CommitBegin(w) \/ \E label \in {"check", "finish"} : CommitProgress(w, label)
    BY <2>w, <2>1 DEF CommitBegin, CommitProgress, Committed
  <2>2. CASE FinishTask(w) \/ AbortTask(w) \/ FailTask(w)
    <3>1. PICK statuses : Finalise(w, statuses)
      BY <2>2 DEF FinishTask, AbortTask, FailTask
    <3>2. pc[w] \in RunPC /\ pc[w] # "lock"
      BY <2>2 DEF FinishTask, AbortTask, FailTask, RunPC
    <3>3. pc'[w] = "lock"
      BY <2>w, <3>1 DEF Finalise, Goto, TypeOK
    <3>4. t = TaskOf(w)
      BY <3>1 DEF Finalise, TypeOK
    <3>5. QED
      BY <3>2, <3>3, <3>4 DEF Finished, Runs
  <2>3. QED
    BY <1>2, <2>1, <2>2
    DEF Worker, TakeJob, BeginTask, BeginDeleted, CommitBeginFails, CheckCancel, WorkItem,
        WorkRaises, CommitProgressFails, Abandon
<1>3. ASSUME NEW a \in Api, Request(a) PROVE Created(t) \/ Committed(t)
  <2>a. a \in Procs
    BY DEF Procs
  <2>1. CASE CreateTask(a)
    BY <2>1 DEF CreateTask, Created, TypeOK
  <2>2. CASE CommitApi(a)
    BY <2>a, <2>2 DEF CommitApi, Committed
  <2>3. QED
    BY <1>3, <2>1, <2>2
    DEF Request, RerunTask, CancelTask, DeleteTask, CommitApiFails, Abandon
<1>4. ASSUME NEW p \in Api \cup {Runner}, Reconcile(p) PROVE Committed(t)
  <2>p. p \in Procs
    BY DEF Procs
  <2>1. QED
    BY <1>4, <2>p
    DEF Reconcile, ReadRunning, ProbeRedis, CommitReconcile, CommitReconcileFails, Abandon, Committed
<1>5. CASE CleanupScheduled
  <2>1. PICK S : row' = [u \in Tasks |-> IF u \in S THEN Written(row[u], "delete") ELSE row[u]]
    BY <1>5 DEF CleanupScheduled
  <2>2. row'[t] = Written(row[t], "delete")
    BY <2>1
  <2>3. Written(row[t], "delete").status = "deleted"
    BY DEF Written, NewRow
  <2>4. QED
    BY <2>2, <2>3 DEF Deleted
<1>6. CASE Environment
  <2>1. row' = row \/ \E u \in Tasks : row' = [row EXCEPT ![u].stale = TRUE]
    BY <1>6 DEF Environment, Crash, JobFails, FailedJobExpires, LoseJob, LockExpires,
                RowGoesStale, PauseOwner, ResumeOwner
  <2>2. QED
    BY <1>0, <2>1 DEF TypeOK, Row
<1>7. QED
  BY <1>1, <1>2, <1>3, <1>4, <1>5, <1>6 DEF Next

(* A commit of p that changes a status was planned as such a change. *)
LEMMA CommitChange ==
  ASSUME TypeOK, NEW p \in Procs, CommitPlan(p), NEW t \in Tasks,
         row'[t].status # row[t].status
  PROVE  \/ plan[p][t] \in {"start", "requeue", "fail"}
         \/ plan[p][t] \in {"cancel", "cancelDrop"} /\ row'[t].status = "cancelled"
         \/ row'[t].status = "deleted"
<1>1. row'[t] = Written(row[t], plan[p][t]) /\ row[t] \in Row /\ plan[p][t] \in Writes
  BY DEF CommitPlan, TypeOK
<1>2. CASE plan[p][t] \in {"drop", "mark", "progress", "progressMarked", "progressPlain"}
  BY <1>1, <1>2 DEF Written, Row
<1>3. CASE plan[p][t] \in {"cancel", "cancelDrop"}
  BY <1>1, <1>3 DEF Written, Row
<1>4. CASE plan[p][t] = "delete"
  BY <1>1, <1>4 DEF Written, NewRow
<1>5. CASE plan[p][t] \in {"none"} \cup Probes
  BY <1>1, <1>5 DEF Written, Probes
<1>6. QED
  BY <1>1, <1>2, <1>3, <1>4, <1>5 DEF Writes

(* request_task_cancel, for every instance: under the same two conditions a *)
(* cancelled task changes its status only by a re-run or a deletion.        *)
THEOREM Cancellation ==
  ASSUME Serial, ~SlowRuns
  PROVE  Spec => CancelSticks
<1> DEFINE A == \A t \in Tasks :
                  row[t].status = "cancelled" /\ row'[t].status # "cancelled" =>
                    \/ row'[t].status = "deleted"
                    \/ \E a \in Api : plan[a][t] = "requeue"
<1>1. ASSUME TypeOK, JobInv, RunInv, [Next]_vars PROVE A
  <2> SUFFICES ASSUME NEW t \in Tasks, row[t].status = "cancelled", row'[t].status # "cancelled",
                      row'[t].status # "deleted"
               PROVE  \E a \in Api : plan[a][t] = "requeue"
    OBVIOUS
  <2>1. Next
    BY <1>1 DEF vars
  <2>2. ~Finished(t)
    <3>1. ~LiveRun(t)
      BY <1>1, NotLive
    <3>2. QED
      BY <3>1 DEF Finished, LiveRun
  <2>3. Committed(t)
    BY <1>1, <2>1, <2>2, StatusChange DEF Deleted, Created
  <2>4. PICK p \in Procs : CommitPlan(p)
    BY <2>3 DEF Committed
  <2>5. plan[p][t] \in {"start", "requeue", "fail"}
    BY <1>1, <2>4, CommitChange
  <2>6. Safe(p, t)
    BY <1>1 DEF RunInv, PlansSafe
  <2>7. QED
    BY <2>5, <2>6 DEF Safe
<1>2. TypeOK /\ JobInv /\ RunInv /\ [Next]_vars => [A]_vars
  BY <1>1
<1> HIDE DEF A
<1>3. [][A]_vars => CancelSticks
  BY PTL DEF CancelSticks, A
<1>4. QED
  BY <1>2, <1>3, RunInvariant, PTL DEF Spec

(* reconcile_interrupted_running_tasks, for every instance: under the same  *)
(* two conditions nobody but its worker ends a live run, short of deleting  *)
(* the task.                                                                *)
THEOREM LiveRunsKept ==
  ASSUME Serial, ~SlowRuns
  PROVE  Spec => LiveRunKeepsItsRow
<1> DEFINE A == \A t \in Tasks : \A w \in Workers :
                  Runs(w, t) /\ row'[t].status # row[t].status =>
                    pc'[w] # pc[w] \/ row'[t].status = "deleted"
<1>1. ASSUME TypeOK, JobInv, RunInv, [Next]_vars PROVE A
  <2> SUFFICES ASSUME NEW t \in Tasks, NEW w \in Workers, Runs(w, t),
                      row'[t].status # row[t].status, row'[t].status # "deleted"
               PROVE  pc'[w] # pc[w]
    OBVIOUS
  <2>1. Next
    BY <1>1 DEF vars
  <2>2. LiveRun(t) /\ Calm(t)
    BY <1>1 DEF LiveRun, RunInv, LiveRowsCalm
  <2>3. ~Committed(t)
    BY <1>1, <2>2, CommitCalm DEF Committed
  <2>4. Finished(t)
    BY <1>1, <2>1, <2>2, <2>3, StatusChange DEF Deleted, Created, Calm
  <2>5. QED
    BY <1>1, <2>4 DEF Finished, RunInv, ExclusiveRun
<1>2. TypeOK /\ JobInv /\ RunInv /\ [Next]_vars => [A]_vars
  BY <1>1
<1> HIDE DEF A
<1>3. [][A]_vars => LiveRunKeepsItsRow
  BY PTL DEF LiveRunKeepsItsRow, A
<1>4. QED
  BY <1>2, <1>3, RunInvariant, PTL DEF Spec

(* A step that clears the marker of a task also ends its run. *)
LEMMA MarkerChange ==
  ASSUME TypeOK, RunInv, Next, NEW t \in Tasks, row[t].marked, ~row'[t].marked
  PROVE  row'[t].status # "running"
<1>0. row[t] \in Row
  BY DEF TypeOK
<1>1. ASSUME NEW p \in Procs, CommitPlan(p) PROVE row'[t].status # "running"
  <2>1. row'[t] = Written(row[t], plan[p][t]) /\ plan[p][t] \in Writes
    BY <1>1 DEF CommitPlan, TypeOK
  <2>2. plan[p][t] \notin {"start", "progressPlain"}
    BY <1>1 DEF RunInv, PlansSafe, Safe
  <2>3. CASE plan[p][t] \in {"cancel", "cancelDrop", "requeue", "fail"}
    BY <1>0, <2>1, <2>3 DEF Written, Row
  <2>4. CASE plan[p][t] = "delete"
    BY <2>1, <2>4 DEF Written, NewRow
  <2>5. CASE plan[p][t] \in {"drop", "mark", "progress", "progressMarked"}
    BY <1>0, <2>1, <2>5 DEF Written, Row
  <2>6. CASE plan[p][t] \in {"none"} \cup Probes
    BY <2>1, <2>6 DEF Written, Probes
  <2>7. QED
    BY <2>1, <2>2, <2>3, <2>4, <2>5, <2>6 DEF Writes
<1>2. ASSUME NEW p \in Procs, Dispatch(p) PROVE FALSE
  <2>1. CASE ReserveTasks(p)
    <3>1. PICK S \in SUBSET Tasks : \E id \in [S -> {j \in Jobs : Fresh(j)}] : Reserves(p, S, id)
      BY <2>1, ReserveShape
    <3>2. PICK id \in [S -> {j \in Jobs : Fresh(j)}] : Reserves(p, S, id)
      BY <3>1
    <3>3. row'[t] = row[t] \/ row'[t] = [row[t] EXCEPT !.job = id[t]]
      BY <3>2 DEF Reserves
    <3>4. [row[t] EXCEPT !.job = id[t]].marked = row[t].marked
      BY <1>0 DEF Row
    <3>5. QED
      BY <3>3, <3>4
  <2>2. CASE EnqueueFails(p)
    <3>1. PICK e \in todo[p] : row' \in {row, [row EXCEPT ![e[1]] = Written(row[e[1]], "drop")]}
      BY <2>2 DEF EnqueueFails
    <3>2. row'[t] = row[t] \/ row'[t] = Written(row[t], "drop")
      BY <3>1 DEF TypeOK
    <3>3. Written(row[t], "drop") = [row[t] EXCEPT !.job = NoJob, !.stale = FALSE]
      BY DEF Written
    <3>4. Written(row[t], "drop").marked = row[t].marked
      BY <1>0, <3>3 DEF Row
    <3>5. QED
      BY <3>2, <3>4
  <2>3. QED
    BY <1>2, <2>1, <2>2 DEF Dispatch, DispatchSkipped, CountSlots, EnqueueReserved, ReleaseLock
<1>3. ASSUME NEW w \in Workers, Worker(w) PROVE row'[t].status # "running"
  <2>w. w \in Procs
    BY DEF Procs
  <2>1. CASE CommitBegin(w) \/ \E label \in {"check", "finish"} : CommitProgress(w, label)
    BY <1>1, <2>w, <2>1 DEF CommitBegin, CommitProgress
  <2>2. CASE FinishTask(w) \/ AbortTask(w) \/ FailTask(w)
    <3>1. PICK statuses \in SUBSET Terminal : Finalise(w, statuses)
      BY <2>2 DEF FinishTask, AbortTask, FailTask, Terminal
    <3>2. PICK s \in Terminal :
            row' = [row EXCEPT ![TaskOf(w)] =
                      [@ EXCEPT !.status = s, !.marked = FALSE, !.stale = FALSE]]
      BY <3>1 DEF Finalise
    <3>3. row'[t] = row[t] \/ row'[t] = [row[t] EXCEPT !.status = s, !.marked = FALSE, !.stale = FALSE]
      BY <3>2 DEF TypeOK
    <3>4. QED
      BY <1>0, <3>3 DEF Row, Terminal
  <2>3. QED
    BY <1>3, <2>1, <2>2
    DEF Worker, TakeJob, BeginTask, BeginDeleted, CommitBeginFails, CheckCancel, WorkItem,
        WorkRaises, CommitProgressFails, Abandon
<1>4. ASSUME NEW a \in Api, Request(a) PROVE row'[t].status # "running"
  <2>a. a \in Procs
    BY DEF Procs
  <2>1. CASE CreateTask(a)
    <3>1. PICK u \in Tasks : row' = [row EXCEPT ![u] = [NewRow EXCEPT !.status = "queued"]]
      BY <2>1 DEF CreateTask
    <3>2. QED
      BY <3>1 DEF TypeOK, NewRow
  <2>2. CASE CommitApi(a)
    BY <1>1, <2>a, <2>2 DEF CommitApi
  <2>3. QED
    BY <1>4, <2>1, <2>2
    DEF Request, RerunTask, CancelTask, DeleteTask, CommitApiFails, Abandon
<1>5. ASSUME NEW p \in Api \cup {Runner}, Reconcile(p) PROVE row'[t].status # "running"
  <2>1. p \in Procs
    BY DEF Procs
  <2>2. QED
    BY <1>1, <1>5, <2>1
    DEF Reconcile, ReadRunning, ProbeRedis, CommitReconcile, CommitReconcileFails, Abandon
<1>6. CASE CleanupScheduled
  <2>1. PICK S : row' = [u \in Tasks |-> IF u \in S THEN Written(row[u], "delete") ELSE row[u]]
    BY <1>6 DEF CleanupScheduled
  <2>2. row'[t] = Written(row[t], "delete")
    BY <2>1
  <2>3. QED
    BY <2>2 DEF Written, NewRow
<1>7. CASE Environment
  <2>1. row' = row \/ \E u \in Tasks : row' = [row EXCEPT ![u].stale = TRUE]
    BY <1>7 DEF Environment, Crash, JobFails, FailedJobExpires, LoseJob, LockExpires,
                RowGoesStale, PauseOwner, ResumeOwner
  <2>2. QED
    BY <1>0, <2>1 DEF TypeOK, Row
<1>8. QED
  BY <1>2, <1>3, <1>4, <1>5, <1>6, <1>7 DEF Next

(* update_task_progress, for every instance: under the same two conditions  *)
(* a cancel request is not lost before the run ends.                        *)
THEOREM MarkersKept ==
  ASSUME Serial, ~SlowRuns
  PROVE  Spec => MarkerKept
<1> DEFINE A == \A t \in Tasks : row[t].marked => row'[t].marked \/ row'[t].status # "running"
<1>1. ASSUME TypeOK, JobInv, RunInv, [Next]_vars PROVE A
  BY <1>1, MarkerChange DEF vars
<1>2. TypeOK /\ JobInv /\ RunInv /\ [Next]_vars => [A]_vars
  BY <1>1
<1> HIDE DEF A
<1>3. [][A]_vars => MarkerKept
  BY PTL DEF MarkerKept, A
<1>4. QED
  BY <1>2, <1>3, RunInvariant, PTL DEF Spec
=============================================================================
