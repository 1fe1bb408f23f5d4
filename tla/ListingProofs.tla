---------------------------- MODULE ListingProofs ----------------------------
(***************************************************************************)
(* A listing task is run by one worker at a time, its products are listed  *)
(* by nobody else meanwhile, a cancelled task stays cancelled, the running *)
(* tasks keep to their limits, and a finished task accounts for every one  *)
(* of its products: for every number of tasks, products, stores, workers,  *)
(* API threads and jobs.                                                   *)
(***************************************************************************)
EXTENDS ListingTasks, FiniteSetTheorems, WellFoundedInduction, TLAPS

(* Who holds a job executes it; it is stored in Redis as started and names  *)
(* a task.                                                                  *)
Holders == \A p \in Procs : hold[p] # NoJob =>
             p \in Workers /\ pc[p] # "idle" /\ jobs[hold[p]].state = "started"
OneHolder == \A v, w \in Workers : hold[v] # NoJob /\ hold[v] = hold[w] => v = w
WorkersHold == \A w \in Workers : pc[w] # "idle" => hold[w] # NoJob
JobsNamed == \A j \in Jobs : jobs[j].state # "none" => jobs[j].task \in Tasks
HoldInv == Holders /\ OneHolder /\ WorkersHold /\ JobsNamed

(* Workers alone run tasks, at one of the task's stores while they try its  *)
(* products, and the runner alone reconciles.                               *)
WorkerPC == RunPC \cup {"begin", "begun"}
PlaceInv == \A p \in Procs :
  /\ pc[p] \in WorkerPC => p \in Workers
  /\ pc[p] = "sweep" => p = Runner
TryPC == {"begun", "store", "attempt"}
StoreInv == \A w \in Workers :
  /\ pc[w] \in TryPC => run[w].store \in Nat \ {0}
  /\ pc[w] = "attempt" => StoreLeft(w)
TypedInv == TypeOK /\ HoldInv /\ PlaceInv /\ StoreInv

(* What is to be retried, has failed or is being tried are products of the  *)
(* task.                                                                    *)
Inside(r, t) == r.retry \subseteq ProductsOf[t] /\ r.failed \subseteq ProductsOf[t]
RowsInside == \A t \in Tasks : Inside(row[t], t)
RunsInside == \A w \in Workers :
                pc[w] \in TryPC => Inside(run[w], TaskOf(w))
AttsInside == \A w \in Workers : \A x \in Products :
                att[w][x] # "none" => pc[w] = "attempt" /\ x \in ProductsOf[TaskOf(w)]
PayloadInv == RowsInside /\ RunsInside /\ AttsInside

(* With the long transactions one after the other: one is open at a time,   *)
(* and what it has planned still suits the rows when it commits.            *)
OneTxn == \A p, q \in Procs : pc[p] \in TxnPC /\ pc[q] \in TxnPC => p = q
OpenPlans == \A p \in Procs : \A t \in Tasks : plan[p][t] # "none" => pc[p] \in TxnPC
PlansSafe == \A p \in Procs : \A t \in Tasks :
  /\ plan[p][t] = "start" =>
       p \in Workers /\ pc[p] = "begun" /\ TaskOf(p) = t /\ row[t].status = "queued"
  /\ plan[p][t] \in {"cancel", "interrupt"} => row[t].status = "running" /\ ~LiveRun(t)

(* Marks are on running rows, a worker is at a running row that is not      *)
(* stale (or deleted), and at no other worker's.                            *)
MarksInv == \A t \in Tasks : row[t].marked \/ row[t].stale => row[t].status = "running"
RunningRows == \A w \in Workers : pc[w] \in RunPC /\ Exists(TaskOf(w)) =>
                 row[TaskOf(w)].status = "running" /\ ~row[TaskOf(w)].stale
OneRunner == \A v, w \in Workers :
  pc[v] \in RunPC /\ pc[w] \in RunPC /\ TaskOf(v) = TaskOf(w) /\ Exists(TaskOf(v)) => v = w

(* Nothing refers to a task that was never created, and a group is created  *)
(* as a whole.                                                              *)
JobsKnown == \A j \in Jobs : jobs[j].state # "none" => row[jobs[j].task].status # "new"
TodoKnown == \A p \in Procs : \A t \in todo[p] : row[t].status # "new"
Together == \A t \in Tasks : \A u \in Batch(t) : row[t].status = "new" <=> row[u].status = "new"

SafeInv == /\ OneTxn /\ OpenPlans /\ PlansSafe
           /\ MarksInv /\ RunningRows /\ OneRunner
           /\ JobsKnown /\ TodoKnown /\ Together

-----------------------------------------------------------------------------
(* Helpers. *)

LEMMA FirstIn ==
  ASSUME NEW S, S \subseteq Tasks, S # {}
  PROVE  First(S) \in S
<1> DEFINE R == OpToRel(<, Nat)
<1>1. IsWellFoundedOn(R, Nat)
  BY NatLessThanWellFounded, Zenon
<1>2. \A x, y \in Nat : x < y => <<x, y>> \in R
  BY DEF OpToRel
<1> HIDE DEF R
<1>0. S \subseteq Nat
  BY ConstantsAssumption DEF Tasks
<1>3. PICK x \in S : \A y \in S : ~ (<<y, x>> \in R)
  BY <1>0, <1>1, WFMin
<1>4. ASSUME NEW y \in S
      PROVE  x <= y
  <2>1. x \in Nat /\ y \in Nat /\ ~ (<<y, x>> \in R)
    BY <1>0, <1>3
  <2>2. ~ (y < x)
    BY <1>2, <2>1
  <2>3. QED
    BY <2>1, <2>2
<1>5. QED
  BY <1>4 DEF First

LEMMA Kinds ==
  /\ \A w \in Workers : w \in Procs
  /\ \A a \in Api : a \in Procs /\ a \notin Workers
  /\ Runner \in Procs /\ Runner \notin Workers
  /\ NoTask \notin Tasks /\ 0..MaxTasks = Tasks \cup {NoTask}
  /\ NoPlan \in [Tasks -> Writes] /\ \A t \in Tasks : NoPlan[t] = "none"
  /\ NoAtt \in [Products -> Attempts] /\ \A x \in Products : NoAtt[x] = "none"
  /\ NoRun \in Run /\ NewRow \in Row /\ GoneJob \in Job
  /\ \A t \in Tasks : ProductsOf[t] \subseteq Products
BY ConstantsAssumption DEF Procs, Tasks, NoTask, NoPlan, Writes, NoAtt, Attempts, NoRun, Run,
   NewRow, Row, Statuses, GoneJob, Job, JobState

LEMMA WorkerTask ==
  ASSUME TypeOK, HoldInv, NEW w \in Workers, pc[w] # "idle"
  PROVE  /\ w \in Procs /\ hold[w] \in Jobs /\ hold[w] # NoJob
         /\ jobs[hold[w]].state = "started" /\ TaskOf(w) \in Tasks
BY Kinds, ConstantsAssumption DEF TypeOK, HoldInv, Holders, WorkersHold, JobsNamed, TaskOf

LEMMA ReleasedTyped ==
  ASSUME TypeOK, NEW S
  PROVE  Released(S) \in [Products -> Tasks \cup {NoTask}]
BY DEF Released, TypeOK

LEMMA PayloadTyped ==
  ASSUME TypeOK, NEW t \in Tasks
  PROVE  /\ row[t] \in Row /\ row[t].status \in Statuses
         /\ row[t].ok \subseteq Products /\ row[t].failed \subseteq Products
         /\ row[t].retry \subseteq Products
         /\ RetryIds(t) \subseteq Products /\ ActiveIds(t) \subseteq Products
<1>1. row[t] \in Row /\ ProductsOf[t] \subseteq Products
  BY Kinds DEF TypeOK
<1>2. QED
  BY <1>1 DEF Row, RetryIds, ActiveIds

LEMMA WrittenTyped ==
  ASSUME TypeOK, NEW t \in Tasks
  PROVE  /\ Started(t) \in Row /\ CancelledRow(t) \in Row /\ Interrupted(t) \in Row
         /\ \A w \in Writes : Written(t, w) \in Row
         /\ Retried(t) \in Row
<1>1. Started(t) \in Row /\ CancelledRow(t) \in Row
  BY PayloadTyped DEF Started, CancelledRow, Row, Statuses
<1>2. Interrupted(t) \in Row
  BY PayloadTyped DEF Interrupted, Row, Statuses
<1>3. Retried(t) \in Row
  BY PayloadTyped DEF Retried, Row, Statuses, NewRow
<1>4. ASSUME NEW w \in Writes
      PROVE  Written(t, w) \in Row
  BY <1>1, <1>2, <1>4, PayloadTyped DEF Written, Writes
<1>5. QED
  BY <1>1, <1>2, <1>3, <1>4

LEMMA PlanTyped ==
  ASSUME TypeOK, NEW up \in Upkeep
  PROVE  up \in [Tasks -> Writes]
BY DEF Upkeep

LEMMA CommitTyped ==
  ASSUME TypeOK, NEW p \in Procs, CommitPlan(p)
  PROVE  /\ row' \in [Tasks -> Row] /\ lock' \in [Products -> Tasks \cup {NoTask}]
         /\ plan' \in [Procs -> [Tasks -> Writes]]
<1>1. plan[p] \in [Tasks -> Writes]
  BY DEF TypeOK
<1>2. row' \in [Tasks -> Row]
  BY <1>1, WrittenTyped DEF CommitPlan
<1>3. lock' \in [Products -> Tasks \cup {NoTask}]
  BY ReleasedTyped DEF CommitPlan
<1>4. plan' \in [Procs -> [Tasks -> Writes]]
  BY Kinds DEF CommitPlan, TypeOK
<1>5. QED
  BY <1>2, <1>3, <1>4

-----------------------------------------------------------------------------
(* Every variable keeps its type.                                           *)

LEMMA TypedInit == Init => TypedInv
<1> SUFFICES ASSUME Init
             PROVE  TypedInv
  OBVIOUS
<1>1. TypeOK
  BY Kinds, ConstantsAssumption DEF Init, TypeOK, PCs
<1>2. HoldInv
  BY Kinds DEF Init, HoldInv, Holders, OneHolder, WorkersHold, JobsNamed, GoneJob
<1>3. PlaceInv /\ StoreInv
  BY Kinds DEF Init, PlaceInv, StoreInv, TryPC, WorkerPC, RunPC
<1>4. QED
  BY <1>1, <1>2, <1>3 DEF TypedInv

LEMMA DispatchTypes ==
  ASSUME TypeOK, HoldInv, NEW p \in Procs, Dispatch(p)
  PROVE  TypeOK'
<1>1. CASE SelectNext(p)
  <2>1. PICK held \in SUBSET Tasks, up \in Upkeep :
          /\ HeldBySync(held)
          /\ todo' = [todo EXCEPT ![p] = Picks(held)]
          /\ plan' = [plan EXCEPT ![p] = [t \in Tasks |->
                        IF row[t].status = "queued" /\ row[t].marked THEN "cancel" ELSE up[t]]]
    BY <1>1 DEF SelectNext
  <2>2. Picks(held) \subseteq Tasks
    BY DEF Picks
  <2>3. up \in [Tasks -> Writes]
    BY PlanTyped
  <2>4. [t \in Tasks |-> IF row[t].status = "queued" /\ row[t].marked THEN "cancel" ELSE up[t]]
          \in [Tasks -> Writes]
    BY <2>3 DEF Writes
  <2>5. todo' \in [Procs -> SUBSET Tasks] /\ plan' \in [Procs -> [Tasks -> Writes]]
    BY <2>1, <2>2, <2>4 DEF TypeOK
  <2>6. faults' \in 0..MaxFaults
    BY <2>1, ConstantsAssumption DEF TypeOK, HeldBySync
  <2>7. pc' \in [Procs -> PCs]
    BY <1>1 DEF SelectNext, Goto, TypeOK, PCs, TxnPC
  <2>8. QED
    BY <1>1, <2>5, <2>6, <2>7 DEF SelectNext, TypeOK
<1>2. CASE CommitSelect(p)
  BY <1>2, CommitTyped DEF CommitSelect, Goto, TypeOK, PCs, budget
<1>3. CASE CommitSelectFails(p)
  BY <1>3, Kinds DEF CommitSelectFails, Abandon, Goto, TypeOK, PCs, budget
<1>4. CASE Enqueue(p)
  <2>1. First(todo[p]) \in Tasks
    BY <1>4, FirstIn DEF Enqueue, TypeOK
  <2>2. [state |-> "queued", task |-> First(todo[p])] \in Job
    BY <2>1, Kinds DEF Job, JobState
  <2>3. jobs' \in [Jobs -> Job]
    BY <1>4, <2>2 DEF Enqueue, TypeOK
  <2>4. todo' \in [Procs -> SUBSET Tasks]
    BY <1>4 DEF Enqueue, TypeOK
  <2>5. QED
    BY <1>4, <2>3, <2>4 DEF Enqueue, TypeOK, budget
<1>5. CASE EnqueueFails(p)
  <2> DEFINE t == First(todo[p])
  <2>1. t \in Tasks
    BY <1>5, FirstIn DEF EnqueueFails, TypeOK
  <2>2. [state |-> "queued", task |-> t] \in Job
    BY <2>1, Kinds DEF Job, JobState
  <2>3. jobs' \in [Jobs -> Job]
    BY <1>5, <2>2 DEF EnqueueFails, TypeOK
  <2>4. row' \in [Tasks -> Row]
    <3>1. CASE Exists(t)
      <4>1. row' = [row EXCEPT ![t].status = "failed", ![t].marked = FALSE, ![t].stale = FALSE]
        BY <1>5, <3>1 DEF EnqueueFails
      <4>2. row[t] \in Row
        BY <2>1 DEF TypeOK
      <4> HIDE DEF t
      <4>3. [row[t] EXCEPT !.status = "failed", !.marked = FALSE, !.stale = FALSE] \in Row
        BY <4>2 DEF Row, Statuses
      <4>4. QED
        BY <2>1, <4>1, <4>3 DEF TypeOK
    <3>2. CASE ~Exists(t)
      BY <1>5, <3>2 DEF EnqueueFails, TypeOK
    <3>3. QED
      BY <3>1, <3>2
  <2>5. lock' \in [Products -> Tasks \cup {NoTask}]
    BY <1>5, ReleasedTyped DEF EnqueueFails, TypeOK
  <2>6. faults' \in 0..MaxFaults
    BY <1>5, ConstantsAssumption DEF EnqueueFails, TypeOK
  <2>7. todo' \in [Procs -> SUBSET Tasks] /\ plan' \in [Procs -> [Tasks -> Writes]]
    BY <1>5, Kinds DEF EnqueueFails, TypeOK
  <2>8. pc' \in [Procs -> PCs]
    BY <1>5 DEF EnqueueFails, Goto, TypeOK, PCs
  <2>9. QED
    BY <1>5, <2>3, <2>4, <2>5, <2>6, <2>7, <2>8 DEF EnqueueFails, TypeOK
<1>6. CASE EndDispatch(p)
  BY <1>6, Kinds DEF EndDispatch, Done, Goto, TypeOK, PCs, budget
<1>7. QED
  BY <1>1, <1>2, <1>3, <1>4, <1>5, <1>6 DEF Dispatch

LEMMA AttemptTypes ==
  ASSUME TypeOK, HoldInv, StoreInv, NEW w \in Workers, NEW x \in Products, Attempt(w, x)
  PROVE  TypeOK'
<1>0. w \in Procs /\ att[w] \in [Products -> Attempts] /\ run[w] \in Run
  BY Kinds DEF TypeOK
<1>00. ASSUME NEW a \in Attempts, att' = [att EXCEPT ![w][x] = a]
       PROVE  att' \in [Procs -> [Products -> Attempts]]
  BY <1>0, <1>00 DEF TypeOK
<1>1. CASE BeginAttempt(w, x)
  <2> DEFINE a == IF lock[x] \notin {NoTask, TaskOf(w)} THEN "failed"
                  ELSE IF CurrentStore(w) \in listed[x] THEN "done"
                  ELSE IF lock[x] = TaskOf(w) THEN "own" ELSE "free"
  <2>1. a \in Attempts
    BY DEF Attempts
  <2>2. att' = [att EXCEPT ![w][x] = a]
    BY <1>1 DEF BeginAttempt
  <2> HIDE DEF a
  <2>3. QED
    BY <1>00, <1>1, <2>1, <2>2 DEF BeginAttempt, TypeOK, budget
<1>2. CASE EndAttempt(w, x)
  <2>1. pc[w] = "attempt"
    BY <1>2 DEF EndAttempt
  <2>2. TaskOf(w) \in Tasks /\ run[w].store \in 1..Len(StoresOf[TaskOf(w)])
    BY <2>1, WorkerTask DEF StoreInv, TryPC, StoreLeft
  <2>3. CurrentStore(w) \in Stores
    BY <2>2, ConstantsAssumption DEF CurrentStore
  <2>4. listed' \in [Products -> SUBSET Stores]
    <3>1. listed' = listed \/ listed' = [listed EXCEPT ![x] = @ \cup {CurrentStore(w)}]
      BY <1>2 DEF EndAttempt
    <3>2. listed[x] \cup {CurrentStore(w)} \in SUBSET Stores
      BY <2>3 DEF TypeOK
    <3>3. QED
      BY <3>1, <3>2 DEF TypeOK
  <2>5. lock' \in [Products -> Tasks \cup {NoTask}]
    BY <1>2 DEF EndAttempt, TypeOK
  <2>6. att' \in [Procs -> [Products -> Attempts]]
    <3>1. PICK a \in {"done", "failed"} : att' = [att EXCEPT ![w][x] = a]
      BY <1>2 DEF EndAttempt
    <3>2. QED
      BY <1>00, <3>1 DEF Attempts
  <2>7. QED
    BY <1>2, <2>4, <2>5, <2>6 DEF EndAttempt, TypeOK, budget
<1>3. CASE AttemptRaises(w, x)
  BY <1>0, <1>3, ConstantsAssumption DEF AttemptRaises, TypeOK, Attempts
<1>4. CASE StopAttempt(w, x)
  BY <1>0, <1>4 DEF StopAttempt, TypeOK, Attempts, budget
<1>5. CASE CollectResult(w, x)
  <2> DEFINE t == TaskOf(w)
             good == Succeeded(w, x)
             ok == IF good THEN run[w].ok \cup {x} ELSE run[w].ok
             failed == IF good THEN run[w].failed \ {x} ELSE run[w].failed \cup {x}
  <2>1. /\ run' = [run EXCEPT ![w].ok = ok, ![w].failed = failed,
                           ![w].lost = @ \/ ~good, ![w].stopping = CancelSeen(t)]
        /\ row' = IF ~Exists(t) THEN row
                  ELSE [row EXCEPT ![t].ok = ok, ![t].failed = failed \ ok,
                                ![t].retry = run[w].retry, ![t].stale = FALSE]
        /\ att' = [att EXCEPT ![w] = IF CancelSeen(t) THEN Remaining(w, x)
                                     ELSE [@ EXCEPT ![x] = "none"]]
    BY <1>5 DEF CollectResult
  <2>2. /\ run[w].store \in Nat /\ run[w].ok \subseteq Products /\ run[w].failed \subseteq Products
        /\ run[w].retry \subseteq Products /\ run[w].lost \in BOOLEAN
    BY <1>0 DEF Run
  <2>3. ok \subseteq Products /\ failed \subseteq Products
    BY <2>2
  <2>4. t \in Tasks
    BY <1>5, WorkerTask DEF CollectResult
  <2>5. CancelSeen(t) \in BOOLEAN
    BY <2>4 DEF CancelSeen, Exists, TypeOK, Row
  <2>6. good \in BOOLEAN
    BY DEF Succeeded
  <2> HIDE DEF ok, failed, good, t
  <2>7. run' \in [Procs -> Run]
    BY <1>0, <2>1, <2>2, <2>3, <2>5, <2>6 DEF Run, TypeOK
  <2>8. row' \in [Tasks -> Row]
    <3>1. row[t] \in Row
      BY <2>4 DEF TypeOK
    <3>2. QED
      BY <2>1, <2>2, <2>3, <2>4, <3>1 DEF TypeOK, Row
  <2>9. att' \in [Procs -> [Products -> Attempts]]
    BY <1>0, <2>1 DEF Remaining, TypeOK, Attempts
  <2>10. QED
    BY <1>5, <2>7, <2>8, <2>9 DEF CollectResult, TypeOK, budget
<1>6. CASE CollectStopped(w, x)
  <2>1. run' \in [Procs -> Run]
    BY <1>0, <1>6 DEF CollectStopped, TypeOK, Run
  <2>2. att' \in [Procs -> [Products -> Attempts]]
    BY <1>0, <1>6 DEF CollectStopped, Remaining, TypeOK, Attempts
  <2>3. QED
    BY <1>6, <2>1, <2>2 DEF CollectStopped, TypeOK, budget
<1>7. QED
  BY <1>1, <1>2, <1>3, <1>4, <1>5, <1>6 DEF Attempt

LEMMA WorkerTypes ==
  ASSUME TypeOK, HoldInv, StoreInv, NEW w \in Workers, Worker(w)
  PROVE  TypeOK'
<1>0. w \in Procs /\ att[w] \in [Products -> Attempts] /\ run[w] \in Run
  BY Kinds DEF TypeOK
<1>00. ASSUME NEW label \in PCs, Goto(w, label)
       PROVE  pc' \in [Procs -> PCs]
  BY <1>0, <1>00 DEF Goto, TypeOK
<1>1. CASE TakeJob(w)
  <2>1. PICK j \in Jobs : /\ jobs' = [jobs EXCEPT ![j].state = "started"]
                          /\ hold' = [hold EXCEPT ![w] = j]
    BY <1>1 DEF TakeJob
  <2>2. jobs' \in [Jobs -> Job] /\ hold' \in [Procs -> Jobs \cup {NoJob}]
    BY <2>1 DEF TypeOK, Job, JobState
  <2>3. QED
    BY <1>00, <1>1, <2>2 DEF TakeJob, TypeOK, PCs, budget
<1>2. CASE NotStarted(w)
  BY <1>00, <1>2 DEF NotStarted, TypeOK, PCs, RunPC, budget, local
<1>3. CASE ReadStart(w)
  <2> DEFINE t == TaskOf(w)
  <2>1. PICK up \in Upkeep, held \in {{}, {t}} :
          /\ HeldBySync(held)
          /\ plan' = [plan EXCEPT ![w] =
                        IF MayStart(t) /\ held = {} THEN [up EXCEPT ![t] = "start"] ELSE up]
    BY <1>3 DEF ReadStart
  <2>2. t \in Tasks
    BY <1>3, WorkerTask DEF ReadStart
  <2>3. /\ row[t].retry \subseteq Products /\ row[t].ok \subseteq Products
    BY <2>2, PayloadTyped
  <2>4. run' = [run EXCEPT ![w] =
                  [NoRun EXCEPT !.store = 1, !.retry = row[t].retry,
                     !.ok = IF row[t].retry # {} THEN row[t].ok \ row[t].retry ELSE {}]]
    BY <1>3 DEF ReadStart
  <2> HIDE DEF t
  <2>5. up \in [Tasks -> Writes]
    BY PlanTyped
  <2>6. [up EXCEPT ![t] = "start"] \in [Tasks -> Writes]
    BY <2>2, <2>5 DEF Writes
  <2>7. plan' \in [Procs -> [Tasks -> Writes]]
    BY <1>0, <2>1, <2>5, <2>6 DEF TypeOK
  <2>8. run' \in [Procs -> Run]
    BY <1>0, <2>3, <2>4 DEF TypeOK, Run, NoRun
  <2>9. faults' \in 0..MaxFaults
    BY <2>1, ConstantsAssumption DEF TypeOK, HeldBySync
  <2>10. QED
    BY <1>00, <1>3, <2>7, <2>8, <2>9 DEF ReadStart, TypeOK, PCs, TxnPC
<1>4. CASE CommitStart(w)
  <2>1. run' \in [Procs -> Run]
    BY <1>0, <1>4, Kinds DEF CommitStart, TypeOK
  <2>2. pc' \in [Procs -> PCs]
    BY <1>00, <1>4 DEF CommitStart, PCs, RunPC
  <2>3. QED
    BY <1>0, <1>4, <2>1, <2>2, CommitTyped DEF CommitStart, TypeOK, budget
<1>5. CASE CommitStartFails(w)
  BY <1>00, <1>5, Kinds DEF CommitStartFails, Abandon, TypeOK, PCs, RunPC, budget
<1>6. CASE NoticeCancel(w)
  BY <1>00, <1>6 DEF NoticeCancel, TypeOK, PCs, RunPC, local, budget
<1>7. CASE OpenStore(w)
  <2>1. att' \in [Procs -> [Products -> Attempts]]
    BY <1>7 DEF OpenStore, TypeOK, Attempts
  <2>2. QED
    BY <1>00, <1>7, <2>1 DEF OpenStore, TypeOK, PCs, RunPC, budget
<1>8. CASE StoreUnavailable(w)
  <2>1. TaskOf(w) \in Tasks /\ row[TaskOf(w)] \in Row
    BY <1>8, WorkerTask DEF StoreUnavailable, TypeOK
  <2>2. RunIds(w) \subseteq Products
    BY <1>0, <2>1, Kinds DEF RunIds, Run
  <2>3. run' = [run EXCEPT ![w].store = @ + 1, ![w].failed = @ \cup RunIds(w), ![w].lost = TRUE]
    BY <1>8 DEF StoreUnavailable
  <2>4. ASSUME NEW n \in Nat, NEW F \in SUBSET Products
        PROVE  [run[w] EXCEPT !.store = n, !.failed = F, !.lost = TRUE] \in Run
    BY <1>0 DEF Run
  <2>5. run[w].store + 1 \in Nat /\ run[w].failed \cup RunIds(w) \in SUBSET Products
    BY <1>0, <2>2 DEF Run
  <2>40. run' \in [Procs -> Run]
    BY <1>0, <2>3, <2>4, <2>5 DEF TypeOK
  <2>6. row' \in [Tasks -> Row]
    BY <1>8, <2>1 DEF StoreUnavailable, TypeOK, Row
  <2>7. QED
    BY <1>8, <2>40, <2>6, ConstantsAssumption DEF StoreUnavailable, TypeOK
<1>9. CASE \E x \in Products : Attempt(w, x)
  BY <1>9, AttemptTypes
<1>10. CASE StoreStopped(w)
  BY <1>00, <1>10, Kinds DEF StoreStopped, TypeOK, PCs, RunPC, budget
<1>11. CASE StoreDone(w)
  <2>0. [run[w] EXCEPT !.store = @ + 1] \in Run
    BY <1>0 DEF Run
  <2>1. run' \in [Procs -> Run]
    BY <1>11, <2>0 DEF StoreDone, TypeOK
  <2>2. QED
    BY <1>00, <1>11, <2>1 DEF StoreDone, TypeOK, PCs, RunPC, budget
<1>12. ASSUME Leave(w), NEW f \in Row, \/ UNCHANGED row
                                       \/ row' = [row EXCEPT ![TaskOf(w)] = f]
       PROVE  run' \in [Procs -> Run] /\ pc' \in [Procs -> PCs] /\ row' \in [Tasks -> Row]
  <2>1. run' \in [Procs -> Run]
    BY <1>12, Kinds DEF Leave, TypeOK
  <2>2. pc' \in [Procs -> PCs]
    BY <1>00, <1>12 DEF Leave, PCs
  <2>3. row' \in [Tasks -> Row]
    BY <1>12 DEF TypeOK
  <2>4. QED
    BY <2>1, <2>2, <2>3
<1>13. CASE Finish(w)
  <2> DEFINE f == [NewRow EXCEPT !.status = FinalStatus(w), !.ok = run[w].ok,
                                 !.failed = run[w].failed \ run[w].ok]
  <2>1. f \in Row
    BY <1>0 DEF NewRow, Row, Run, FinalStatus, Statuses
  <2>2. UNCHANGED row \/ row' = [row EXCEPT ![TaskOf(w)] = f]
    BY <1>13 DEF Finish
  <2> HIDE DEF f
  <2>3. run' \in [Procs -> Run] /\ pc' \in [Procs -> PCs] /\ row' \in [Tasks -> Row]
    BY <1>12, <1>13, <2>1, <2>2 DEF Finish
  <2>4. lock' \in [Products -> Tasks \cup {NoTask}]
    BY <1>13 DEF Finish, TypeOK
  <2>5. QED
    BY <1>13, <2>3, <2>4 DEF Finish, TypeOK, budget
<1>14. CASE Abort(w)
  <2> DEFINE f == CancelledRow(TaskOf(w))
  <2>1. f \in Row
    BY <1>14, WorkerTask, WrittenTyped DEF Abort
  <2>2. UNCHANGED row \/ row' = [row EXCEPT ![TaskOf(w)] = f]
    BY <1>14 DEF Abort
  <2> HIDE DEF f
  <2>3. run' \in [Procs -> Run] /\ pc' \in [Procs -> PCs] /\ row' \in [Tasks -> Row]
    BY <1>12, <1>14, <2>1, <2>2 DEF Abort
  <2>4. lock' \in [Products -> Tasks \cup {NoTask}]
    BY <1>14, ReleasedTyped DEF Abort, TypeOK
  <2>5. QED
    BY <1>14, <2>3, <2>4 DEF Abort, TypeOK, budget
<1>15. CASE RunRaises(w)
  BY <1>00, <1>15, Kinds, ConstantsAssumption DEF RunRaises, TypeOK, PCs, RunPC
<1>16. CASE Fail(w)
  <2> DEFINE ids == ActiveIds(TaskOf(w))
             ok == row[TaskOf(w)].ok \ ids
             f == [NewRow EXCEPT !.status = IF ok # {} THEN "partial" ELSE "failed",
                                 !.ok = ok, !.failed = ids]
  <2>1. ids \subseteq Products /\ ok \subseteq Products
    BY <1>16, WorkerTask, PayloadTyped DEF Fail
  <2>2. UNCHANGED row \/ row' = [row EXCEPT ![TaskOf(w)] = f]
    BY <1>16 DEF Fail
  <2>3. lock' \in [Products -> Tasks \cup {NoTask}]
    BY <1>16 DEF Fail, TypeOK
  <2> HIDE DEF ids, ok
  <2>4. f \in Row
    BY <2>1 DEF NewRow, Row, Statuses
  <2> HIDE DEF f
  <2>5. run' \in [Procs -> Run] /\ pc' \in [Procs -> PCs] /\ row' \in [Tasks -> Row]
    BY <1>12, <1>16, <2>2, <2>4 DEF Fail
  <2>6. QED
    BY <1>16, <2>3, <2>5 DEF Fail, TypeOK, budget
<1>17. QED
  BY <1>1, <1>2, <1>3, <1>4, <1>5, <1>6, <1>7, <1>8, <1>9, <1>10, <1>11, <1>13, <1>14, <1>15, <1>16
     DEF Worker

LEMMA RequestTypes ==
  ASSUME TypeOK, NEW a \in Api, Request(a)
  PROVE  TypeOK'
<1>0. a \in Procs
  BY Kinds
<1>00. ASSUME Goto(a, "dispatch")
       PROVE  pc' \in [Procs -> PCs]
  BY <1>0, <1>00 DEF Goto, TypeOK, PCs
<1>1. CASE Create(a)
  <2>1. PICK t \in Tasks :
          /\ row' = [u \in Tasks |-> IF u \in Batch(t) THEN [NewRow EXCEPT !.status = "queued"]
                                     ELSE row[u]]
          /\ lock' = [x \in Products |->
                        IF \E u \in Batch(t) : x \in ProductsOf[u]
                        THEN CHOOSE u \in Batch(t) : x \in ProductsOf[u] ELSE lock[x]]
    BY <1>1 DEF Create
  <2>2. [NewRow EXCEPT !.status = "queued"] \in Row
    BY DEF NewRow, Row, Statuses
  <2>3. row' \in [Tasks -> Row]
    BY <2>1, <2>2 DEF TypeOK
  <2>4. Batch(t) \subseteq Tasks
    BY DEF Batch, GroupMates
  <2>5. lock' \in [Products -> Tasks \cup {NoTask}]
    BY <2>1, <2>4 DEF TypeOK
  <2>6. QED
    BY <1>00, <1>1, <2>3, <2>5 DEF Create, TypeOK, local, budget
<1>2. CASE Cancel(a)
  <2>1. PICK t \in Tasks :
       \/ /\ row[t].status = "queued"
          /\ row' = [row EXCEPT ![t] = CancelledRow(t)]
          /\ lock' = Released({t})
       \/ /\ row[t].status = "running"
          /\ row' = [row EXCEPT ![t].marked = TRUE, ![t].stale = @ /\ row[t].marked]
          /\ UNCHANGED lock
    BY <1>2 DEF Cancel
  <2>2. row' \in [Tasks -> Row]
    <3>1. row[t] \in Row /\ CancelledRow(t) \in Row
      BY WrittenTyped DEF TypeOK
    <3>2. [row[t] EXCEPT !.marked = TRUE, !.stale = @ /\ row[t].marked] \in Row
      BY <3>1 DEF Row
    <3>3. QED
      BY <2>1, <3>1, <3>2 DEF TypeOK
  <2>3. lock' \in [Products -> Tasks \cup {NoTask}]
    BY <2>1, ReleasedTyped DEF TypeOK
  <2>4. QED
    BY <1>00, <1>2, <2>2, <2>3 DEF Cancel, TypeOK, local, budget
<1>3. CASE Retry(a)
  <2>1. PICK R \in SUBSET Tasks :
          /\ row' = [t \in Tasks |-> IF t \in R THEN Retried(t) ELSE row[t]]
          /\ lock' = [x \in Products |-> IF lock[x] = NoTask /\ {t \in R : x \in RetryIds(t)} # {}
                                         THEN First({t \in R : x \in RetryIds(t)}) ELSE lock[x]]
    BY <1>3 DEF Retry
  <2>2. row' \in [Tasks -> Row]
    BY <2>1, WrittenTyped DEF TypeOK
  <2>3. ASSUME NEW x \in Products
        PROVE  lock'[x] \in Tasks \cup {NoTask}
    <3>1. {t \in R : x \in RetryIds(t)} \subseteq Tasks
      OBVIOUS
    <3>2. {t \in R : x \in RetryIds(t)} # {} => First({t \in R : x \in RetryIds(t)}) \in Tasks
      BY <3>1, FirstIn
    <3>3. QED
      BY <2>1, <3>2 DEF TypeOK
  <2>4. lock' \in [Products -> Tasks \cup {NoTask}]
    BY <2>1, <2>3
  <2>5. retries' \in 0..MaxRetries
    BY <1>3, ConstantsAssumption DEF Retry, TypeOK
  <2>6. pc' \in [Procs -> PCs]
    BY <1>00, <1>3 DEF Retry
  <2>7. QED
    BY <1>3, <2>2, <2>4, <2>5, <2>6 DEF Retry, TypeOK, local
<1>4. CASE Delete(a)
  <2>1. [NewRow EXCEPT !.status = "deleted"] \in Row
    BY DEF NewRow, Row, Statuses
  <2>2. row' \in [Tasks -> Row]
    BY <1>4, <2>1 DEF Delete, TypeOK
  <2>3. QED
    BY <1>4, <2>2 DEF Delete, TypeOK, local, budget
<1>5. CASE Poll(a)
  BY <1>00, <1>5 DEF Poll, TypeOK, local, budget
<1>6. QED
  BY <1>1, <1>2, <1>3, <1>4, <1>5 DEF Request

LEMMA OtherTypes ==
  ASSUME TypeOK, HoldInv, Sweep \/ Environment \/ UNCHANGED vars
  PROVE  TypeOK'
<1>1. ASSUME NEW ripe \in Tasks, ReadSweep(ripe)
      PROVE  TypeOK'
  <2> DEFINE missing == {t \in 1..ripe : row[t].status = "queued" /\ HasNoJob(t)}
  <2>1. PICK up \in Upkeep :
          /\ plan' = [plan EXCEPT ![Runner] = [t \in Tasks |->
                         IF t \in missing /\ row[t].marked THEN "cancel" ELSE up[t]]]
          /\ todo' = [todo EXCEPT ![Runner] = {t \in missing : ~row[t].marked}]
    BY <1>1 DEF ReadSweep
  <2>2. missing \subseteq Tasks
    BY ConstantsAssumption DEF Tasks
  <2> HIDE DEF missing
  <2>3. up \in [Tasks -> Writes]
    BY PlanTyped
  <2>4. [t \in Tasks |-> IF t \in missing /\ row[t].marked THEN "cancel" ELSE up[t]]
          \in [Tasks -> Writes]
    BY <2>3 DEF Writes
  <2>5. todo' \in [Procs -> SUBSET Tasks] /\ plan' \in [Procs -> [Tasks -> Writes]]
    BY <2>1, <2>2, <2>4, Kinds DEF TypeOK
  <2>6. pc' \in [Procs -> PCs]
    BY <1>1, Kinds DEF ReadSweep, Goto, TypeOK, PCs, TxnPC
  <2>7. QED
    BY <1>1, <2>5, <2>6 DEF ReadSweep, TypeOK, budget
<1>2. CASE CommitSweep
  BY <1>2, Kinds, CommitTyped DEF CommitSweep, Goto, TypeOK, PCs, budget
<1>3. CASE CommitSweepFails
  BY <1>3, Kinds DEF CommitSweepFails, Abandon, Goto, TypeOK, PCs, budget
<1>4. ASSUME NEW p \in Procs, Crash(p)
      PROVE  TypeOK'
  BY <1>4, Kinds, ConstantsAssumption DEF Crash, Goto, TypeOK, PCs
<1>5. ASSUME NEW j \in Jobs, JobFails(j) \/ FailedJobExpires(j) \/ LoseJob(j)
      PROVE  TypeOK'
  <2>0. jobs[j] \in Job /\ [jobs[j] EXCEPT !.state = "failed"] \in Job
    BY DEF TypeOK, Job, JobState
  <2>1. jobs' \in [Jobs -> Job]
    BY <1>5, <2>0, Kinds DEF JobFails, FailedJobExpires, LoseJob, TypeOK
  <2>2. faults' \in 0..MaxFaults
    BY <1>5, ConstantsAssumption DEF JobFails, FailedJobExpires, LoseJob, TypeOK, budget
  <2>3. QED
    BY <1>5, <2>1, <2>2 DEF JobFails, FailedJobExpires, LoseJob, TypeOK, budget, local
<1>6. ASSUME NEW t \in Tasks, RowGoesStale(t)
      PROVE  TypeOK'
  <2>0. row[t] \in Row
    BY DEF TypeOK
  <2>00. [row[t] EXCEPT !.stale = TRUE] \in Row
    BY <2>0 DEF Row
  <2>1. row' \in [Tasks -> Row]
    BY <1>6, <2>00 DEF RowGoesStale, TypeOK
  <2>2. QED
    BY <1>6, <2>1 DEF RowGoesStale, TypeOK, local, budget
<1>7. CASE UNCHANGED vars
  BY <1>7 DEF vars, TypeOK
<1>8. ASSUME Enqueue(Runner) \/ EnqueueFails(Runner)
      PROVE  TypeOK'
  BY <1>8, DispatchTypes, Kinds DEF Dispatch
<1>9. QED
  BY <1>1, <1>2, <1>3, <1>4, <1>5, <1>6, <1>7, <1>8 DEF Sweep, Environment

-----------------------------------------------------------------------------
(* A held job stays what it is until its holder is done.                    *)

LEMMA HoldMoves ==
  ASSUME TypeOK, HoldInv, NEW p \in Procs, NEW label, Goto(p, label), UNCHANGED <<jobs, hold>>,
         pc[p] # "idle" \/ p \notin Workers, label # "idle" \/ p \notin Workers
  PROVE  HoldInv'
<1>1. pc'[p] = label /\ \A q \in Procs : q # p => pc'[q] = pc[q]
  BY DEF Goto, TypeOK
<1>2. \A q \in Procs : hold[q] # NoJob => q \in Workers /\ pc[q] # "idle"
  BY DEF HoldInv, Holders
<1>3. Holders'
  BY <1>1, <1>2 DEF HoldInv, Holders
<1>4. OneHolder' /\ JobsNamed'
  BY DEF HoldInv, OneHolder, JobsNamed
<1>5. WorkersHold'
  BY <1>1, Kinds DEF HoldInv, WorkersHold
<1>6. QED
  BY <1>3, <1>4, <1>5 DEF HoldInv

(* A step that moves no process and touches no job that is held.            *)
LEMMA HoldJobs ==
  ASSUME TypeOK, HoldInv, UNCHANGED <<pc, hold>>, NEW j \in Jobs, NEW b,
         jobs' = [jobs EXCEPT ![j] = b], b.state # "none" => b.task \in Tasks,
         \A p \in Procs : hold[p] # j
  PROVE  HoldInv'
<1>1. jobs'[j] = b /\ \A i \in Jobs : i # j => jobs'[i] = jobs[i]
  BY DEF TypeOK
<1>2. Holders'
  BY <1>1 DEF HoldInv, Holders, TypeOK
<1>3. OneHolder' /\ WorkersHold'
  BY DEF HoldInv, OneHolder, WorkersHold
<1>4. JobsNamed'
  BY <1>1 DEF HoldInv, JobsNamed
<1>5. QED
  BY <1>2, <1>3, <1>4 DEF HoldInv

LEMMA HoldStep ==
  ASSUME TypeOK, HoldInv, PlaceInv, [Next]_vars
  PROVE  HoldInv'
<1>1. ASSUME NEW p \in Procs, Enqueue(p)
      PROVE  HoldInv'
  <2>1. PICK j \in Jobs :
          Fresh(j) /\ jobs' = [jobs EXCEPT ![j] = [state |-> "queued", task |-> First(todo[p])]]
    BY <1>1 DEF Enqueue
  <2>2. First(todo[p]) \in Tasks
    BY <1>1, FirstIn DEF Enqueue, TypeOK
  <2>3. QED
    BY <1>1, <2>1, <2>2, HoldJobs DEF Enqueue, Fresh
<1>2. ASSUME NEW p \in Procs, EnqueueFails(p)
      PROVE  HoldInv'
  <2> DEFINE t == First(todo[p])
             label == IF pc[p] = "sweep" THEN "idle" ELSE "enqueue"
  <2>1. PICK j \in Jobs :
          Fresh(j) /\ jobs' \in {jobs, [jobs EXCEPT ![j] = [state |-> "queued", task |-> t]]}
    BY <1>2 DEF EnqueueFails
  <2>2. t \in Tasks
    BY <1>2, FirstIn DEF EnqueueFails, TypeOK
  <2>3. hold' = hold /\ pc' = [pc EXCEPT ![p] = label] /\ pc[p] \in {"enqueue", "sweep"}
    BY <1>2 DEF EnqueueFails, Goto
  <2> HIDE DEF t
  <2>4. \A i \in Jobs : jobs'[i] = jobs[i] \/ (i = j /\ jobs'[i].task = t)
    BY <2>1 DEF TypeOK
  <2>5. \A q \in Procs : hold[q] # NoJob => jobs'[hold[q]] = jobs[hold[q]]
    BY <2>1 DEF TypeOK, Fresh
  <2>6. \A q \in Procs : pc'[q] = IF q = p THEN label ELSE pc[q]
    BY <2>3 DEF TypeOK
  <2>7. p \in Workers => label # "idle" /\ pc[p] # "idle"
    BY <2>3, Kinds DEF PlaceInv
  <2> HIDE DEF label
  <2>8. Holders'
    BY <2>3, <2>5, <2>6, <2>7 DEF HoldInv, Holders
  <2>9. OneHolder' /\ WorkersHold'
    BY <2>3, <2>6, <2>7, Kinds DEF HoldInv, OneHolder, WorkersHold
  <2>10. JobsNamed'
    BY <2>2, <2>4 DEF HoldInv, JobsNamed
  <2>11. QED
    BY <2>8, <2>9, <2>10 DEF HoldInv
<1>3. ASSUME NEW p \in Procs, EndDispatch(p)
      PROVE  HoldInv'
  <2>1. /\ \A q \in Procs : hold'[q] = IF q = p THEN NoJob ELSE hold[q]
        /\ \A q \in Procs : pc'[q] = IF q = p THEN "idle" ELSE pc[q]
        /\ \A i \in Jobs : jobs'[i] = IF i = hold[p] THEN GoneJob ELSE jobs[i]
    BY <1>3, ConstantsAssumption DEF EndDispatch, Done, Goto, TypeOK
  <2>2. \A q \in Procs : hold[q] # NoJob => q \in Workers /\ hold[q] \in Jobs
    BY DEF HoldInv, Holders, TypeOK
  <2>3. Holders'
    BY <2>1, <2>2 DEF HoldInv, Holders, OneHolder
  <2>4. OneHolder' /\ WorkersHold'
    BY <2>1, Kinds DEF HoldInv, OneHolder, WorkersHold
  <2>5. JobsNamed'
    BY <2>1 DEF HoldInv, JobsNamed, GoneJob
  <2>6. QED
    BY <2>3, <2>4, <2>5 DEF HoldInv
<1>4. ASSUME NEW w \in Workers, TakeJob(w)
      PROVE  HoldInv'
  <2>1. PICK j \in Jobs : /\ jobs[j].state = "queued"
                          /\ jobs' = [jobs EXCEPT ![j].state = "started"]
                          /\ hold' = [hold EXCEPT ![w] = j]
    BY <1>4 DEF TakeJob
  <2>2. /\ \A q \in Procs : hold'[q] = IF q = w THEN j ELSE hold[q]
        /\ \A q \in Procs : pc'[q] = IF q = w THEN "begin" ELSE pc[q]
        /\ \A i \in Jobs : i # j => jobs'[i] = jobs[i]
        /\ jobs'[j].state = "started" /\ jobs'[j].task = jobs[j].task
    BY <1>4, <2>1, Kinds DEF TakeJob, Goto, TypeOK, Job
  <2>3. \A q \in Procs : hold[q] # j /\ (hold[q] # NoJob => hold[q] \in Jobs)
    BY <2>1, ConstantsAssumption DEF HoldInv, Holders, TypeOK
  <2>4. Holders'
    BY <2>2, <2>3 DEF HoldInv, Holders
  <2>5. OneHolder' /\ WorkersHold'
    BY <2>1, <2>2, <2>3, Kinds, ConstantsAssumption DEF HoldInv, OneHolder, WorkersHold
  <2>6. JobsNamed'
    BY <2>1, <2>2 DEF HoldInv, JobsNamed
  <2>7. QED
    BY <2>4, <2>5, <2>6 DEF HoldInv
<1>5. ASSUME NEW p \in Procs, Crash(p)
      PROVE  HoldInv'
  <2>1. /\ \A q \in Procs : hold'[q] = IF q = p THEN NoJob ELSE hold[q]
        /\ \A q \in Procs : pc'[q] = IF q = p THEN "idle" ELSE pc[q]
        /\ jobs' = jobs
    BY <1>5 DEF Crash, Goto, TypeOK
  <2>2. QED
    BY <2>1, Kinds DEF HoldInv, Holders, OneHolder, WorkersHold, JobsNamed
<1>6. ASSUME NEW j \in Jobs, JobFails(j) \/ FailedJobExpires(j) \/ LoseJob(j)
      PROVE  HoldInv'
  <2>1. jobs[j].state \in {"failed", "queued"} \/ \A w \in Workers : hold[w] # j
    BY <1>6 DEF JobFails, FailedJobExpires, LoseJob
  <2>2. \A p \in Procs : hold[p] # j
    BY <2>1, ConstantsAssumption DEF HoldInv, Holders
  <2>3. UNCHANGED <<pc, hold>>
    BY <1>6 DEF JobFails, FailedJobExpires, LoseJob, local
  <2>4. CASE JobFails(j)
    <3>1. jobs' = [jobs EXCEPT ![j] = [jobs[j] EXCEPT !.state = "failed"]]
      BY <2>4 DEF JobFails, TypeOK
    <3>2. [jobs[j] EXCEPT !.state = "failed"].task = jobs[j].task /\ jobs[j].task \in Tasks
      BY <2>4 DEF JobFails, HoldInv, JobsNamed, TypeOK, Job
    <3>3. QED
      BY <2>2, <2>3, <3>1, <3>2, HoldJobs
  <2>5. CASE FailedJobExpires(j) \/ LoseJob(j)
    <3>1. jobs' = [jobs EXCEPT ![j] = GoneJob] /\ GoneJob.state = "none"
      BY <2>5 DEF FailedJobExpires, LoseJob, GoneJob
    <3>2. QED
      BY <2>2, <2>3, <3>1, HoldJobs
  <2>6. QED
    BY <1>6, <2>4, <2>5
<1>7. ASSUME NEW p \in Workers \cup Api, SelectNext(p) \/ CommitSelect(p) \/ CommitSelectFails(p)
      PROVE  HoldInv'
  <2>1. p \in Procs /\ pc[p] # "idle" /\ UNCHANGED <<jobs, hold>>
    BY <1>7, Kinds DEF SelectNext, CommitSelect, CommitSelectFails
  <2>2. Goto(p, "selected") \/ Goto(p, "enqueue")
    BY <1>7 DEF SelectNext, CommitSelect, CommitSelectFails
  <2>3. QED
    BY <2>1, <2>2, HoldMoves
<1>8. ASSUME NEW w \in Workers, UNCHANGED <<jobs, hold>>, pc[w] # "idle", NEW label, label # "idle",
             Goto(w, label)
      PROVE  HoldInv'
  BY <1>8, HoldMoves, Kinds
<1>9. ASSUME NEW w \in Workers, Worker(w)
      PROVE  HoldInv'
  <2>1. CASE TakeJob(w)
    BY <1>4, <2>1
  <2>2. CASE NotStarted(w) \/ ReadStart(w) \/ CommitStart(w) \/ CommitStartFails(w)
    BY <1>8, <2>2 DEF NotStarted, ReadStart, CommitStart, CommitStartFails, local
  <2>3. CASE NoticeCancel(w) \/ OpenStore(w) \/ StoreStopped(w) \/ StoreDone(w) \/ RunRaises(w)
    BY <1>8, <2>3 DEF NoticeCancel, OpenStore, StoreStopped, StoreDone, RunRaises, local
  <2>4. CASE Finish(w) \/ Abort(w) \/ Fail(w)
    BY <1>8, <2>4 DEF Finish, Abort, Fail, Leave
  <2>5. CASE StoreUnavailable(w) \/ \E x \in Products : Attempt(w, x)
    <3>1. UNCHANGED <<pc, hold, jobs>>
      BY <2>5 DEF StoreUnavailable, Attempt, BeginAttempt, EndAttempt, AttemptRaises, StopAttempt,
                  CollectResult, CollectStopped
    <3>2. QED
      BY <3>1 DEF HoldInv, Holders, OneHolder, WorkersHold, JobsNamed
  <2>6. QED
    BY <1>9, <2>1, <2>2, <2>3, <2>4, <2>5 DEF Worker
<1>10. ASSUME NEW a \in Api, Request(a)
       PROVE  HoldInv'
  <2>1. UNCHANGED <<jobs, hold>>
    BY <1>10 DEF Request, Create, Cancel, Retry, Delete, Poll, local
  <2>2. CASE Delete(a)
    BY <2>1, <2>2 DEF Delete, HoldInv, Holders, OneHolder, WorkersHold, JobsNamed
  <2>3. CASE Goto(a, "dispatch")
    BY <2>1, <2>3, HoldMoves, Kinds
  <2>4. QED
    BY <1>10, <2>2, <2>3 DEF Request, Create, Cancel, Retry, Poll
<1>11. CASE Sweep
  <2>1. CASE Enqueue(Runner) \/ EnqueueFails(Runner)
    BY <1>1, <1>2, <2>1, Kinds
  <2>2. CASE CommitSweep \/ CommitSweepFails \/ \E ripe \in Tasks : ReadSweep(ripe)
    <3>1. UNCHANGED <<jobs, hold>> /\ (Goto(Runner, "idle") \/ Goto(Runner, "sweep"))
      BY <2>2 DEF CommitSweep, CommitSweepFails, ReadSweep
    <3>2. QED
      BY <3>1, HoldMoves, Kinds
  <2>3. QED
    BY <1>11, <2>1, <2>2 DEF Sweep
<1>12. CASE UNCHANGED vars \/ \E t \in Tasks : RowGoesStale(t)
  BY <1>12 DEF vars, RowGoesStale, local, HoldInv, Holders, OneHolder, WorkersHold, JobsNamed
<1>13. QED
  BY <1>1, <1>2, <1>3, <1>5, <1>6, <1>7, <1>9, <1>10, <1>11, <1>12, Kinds
     DEF Next, Dispatch, Environment

-----------------------------------------------------------------------------
(* A step is one process's own, or nobody's.                                *)
Acts(p) ==
  \/ (p \in Workers \cup Api /\ Dispatch(p))
  \/ (p \in Workers /\ Worker(p))
  \/ (p \in Api /\ Request(p))
  \/ (p = Runner /\ Sweep)
  \/ Crash(p)
Ambient ==
  \/ \E j \in Jobs : JobFails(j) \/ FailedJobExpires(j) \/ LoseJob(j)
  \/ \E t \in Tasks : RowGoesStale(t)
  \/ UNCHANGED vars

LEMMA StepCases ==
  ASSUME [Next]_vars
  PROVE  Ambient \/ \E p \in Procs : Acts(p)
BY DEF Next, Environment, Ambient, Acts, Procs

LEMMA AmbientKeeps ==
  ASSUME Ambient
  PROVE  UNCHANGED <<lock, listed, pc, hold, plan, todo, run, att>>
BY DEF Ambient, JobFails, FailedJobExpires, LoseJob, RowGoesStale, vars, local

(* What the others have, and the task they work on, stays.                  *)
LEMMA OthersKept ==
  ASSUME TypeOK, NEW p \in Procs, Acts(p), NEW q \in Procs, q # p
  PROVE  /\ pc'[q] = pc[q] /\ hold'[q] = hold[q] /\ plan'[q] = plan[q]
         /\ run'[q] = run[q] /\ att'[q] = att[q] /\ todo'[q] = todo[q]
<1>1. CASE Dispatch(p)
  BY <1>1 DEF Dispatch, SelectNext, CommitSelect, CommitSelectFails, Enqueue, EnqueueFails, EndDispatch,
     CommitPlan, Abandon, Done, Goto, TypeOK
<1>2. CASE Worker(p)
  <2>1. CASE TakeJob(p) \/ NotStarted(p) \/ ReadStart(p) \/ CommitStart(p) \/ CommitStartFails(p)
    BY <2>1 DEF TakeJob, NotStarted, ReadStart, CommitStart, CommitStartFails, CommitPlan, Abandon, Goto,
       TypeOK, local
  <2>2. CASE NoticeCancel(p) \/ OpenStore(p) \/ StoreUnavailable(p) \/ StoreStopped(p) \/ StoreDone(p)
    BY <2>2 DEF NoticeCancel, OpenStore, StoreUnavailable, StoreStopped, StoreDone, Goto, TypeOK, local
  <2>3. CASE \E x \in Products : Attempt(p, x)
    BY <2>3 DEF Attempt, BeginAttempt, EndAttempt, AttemptRaises, StopAttempt, CollectResult,
       CollectStopped, TypeOK
  <2>4. CASE Finish(p) \/ Abort(p) \/ RunRaises(p) \/ Fail(p)
    BY <2>4 DEF Finish, Abort, RunRaises, Fail, Leave, Goto, TypeOK
  <2>5. QED
    BY <1>2, <2>1, <2>2, <2>3, <2>4 DEF Worker
<1>3. CASE Request(p)
  BY <1>3 DEF Request, Create, Cancel, Retry, Delete, Poll, Goto, TypeOK, local
<1>4. CASE p = Runner /\ Sweep
  <2>1. CASE Enqueue(p) \/ EnqueueFails(p)
    BY <1>1, <2>1 DEF Dispatch
  <2>2. CASE CommitSweep \/ CommitSweepFails \/ \E ripe \in Tasks : ReadSweep(ripe)
    BY <1>4, <2>2 DEF CommitSweep, CommitSweepFails, ReadSweep, CommitPlan, Abandon, Goto, TypeOK
  <2>3. QED
    BY <1>4, <2>1, <2>2 DEF Sweep
<1>5. CASE Crash(p)
  BY <1>5 DEF Crash, Goto, TypeOK
<1>6. QED
  BY <1>1, <1>2, <1>3, <1>4, <1>5 DEF Acts

LEMMA TaskKept ==
  ASSUME TypeOK, HoldInv, [Next]_vars, NEW w \in Workers, pc[w] # "idle", pc'[w] # "idle"
  PROVE  hold'[w] = hold[w] /\ TaskOf(w)' = TaskOf(w)
<1>0. /\ w \in Procs /\ hold[w] \in Jobs /\ hold[w] # NoJob /\ jobs[hold[w]].state = "started"
      /\ hold[w] \notin {NoJob}
  BY WorkerTask
<1>1. ASSUME hold'[w] = hold[w], jobs'[hold[w]].task = jobs[hold[w]].task
      PROVE  hold'[w] = hold[w] /\ TaskOf(w)' = TaskOf(w)
  BY <1>1 DEF TaskOf
<1>2. ASSUME hold'[w] = hold[w],
             jobs' = jobs \/ \E j \in Jobs : j # hold[w] /\ \E b : jobs' = [jobs EXCEPT ![j] = b]
      PROVE  hold'[w] = hold[w] /\ TaskOf(w)' = TaskOf(w)
  <2>1. jobs'[hold[w]] = jobs[hold[w]]
    BY <1>0, <1>2 DEF TypeOK
  <2>2. QED
    BY <1>1, <1>2, <2>1
<1>3. ASSUME NEW p \in Procs, Enqueue(p) \/ EnqueueFails(p)
      PROVE  hold'[w] = hold[w] /\ TaskOf(w)' = TaskOf(w)
  <2>1. hold' = hold
    BY <1>3 DEF Enqueue, EnqueueFails
  <2>2. PICK j \in Jobs : Fresh(j) /\ (jobs' = jobs \/ \E b : jobs' = [jobs EXCEPT ![j] = b])
    BY <1>3 DEF Enqueue, EnqueueFails
  <2>3. j # hold[w]
    BY <1>0, <2>2 DEF Fresh
  <2>4. QED
    BY <1>2, <2>1, <2>2, <2>3
<1>4. ASSUME NEW p \in Procs, EndDispatch(p)
      PROVE  hold'[w] = hold[w] /\ TaskOf(w)' = TaskOf(w)
  <2>1. p # w
    BY <1>0, <1>4 DEF EndDispatch, Done, Goto, TypeOK
  <2>2. hold'[w] = hold[w]
    BY <1>0, <1>4, <2>1 DEF EndDispatch, Done, TypeOK
  <2>3. hold[p] # NoJob => hold[p] # hold[w] /\ hold[p] \in Jobs
    BY <1>0, <2>1 DEF HoldInv, Holders, OneHolder, TypeOK
  <2>4. jobs' = IF hold[p] = NoJob THEN jobs ELSE [jobs EXCEPT ![hold[p]] = GoneJob]
    BY <1>4 DEF EndDispatch, Done
  <2>5. QED
    BY <1>2, <2>2, <2>3, <2>4
<1>5. ASSUME NEW v \in Workers, TakeJob(v)
      PROVE  hold'[w] = hold[w] /\ TaskOf(w)' = TaskOf(w)
  <2>1. v # w
    BY <1>5 DEF TakeJob
  <2>2. PICK j \in Jobs : /\ jobs[j].state = "queued"
                          /\ jobs' = [jobs EXCEPT ![j].state = "started"]
                          /\ hold' = [hold EXCEPT ![v] = j]
    BY <1>5 DEF TakeJob
  <2>3. hold'[w] = hold[w]
    BY <1>0, <2>1, <2>2 DEF TypeOK
  <2>4. QED
    BY <1>0, <1>2, <2>2, <2>3
<1>6. ASSUME NEW p \in Procs, Crash(p)
      PROVE  hold'[w] = hold[w] /\ TaskOf(w)' = TaskOf(w)
  <2>1. p # w
    BY <1>0, <1>6 DEF Crash, Goto, TypeOK
  <2>2. QED
    BY <1>0, <1>1, <1>6, <2>1 DEF Crash, TypeOK
<1>7. ASSUME NEW j \in Jobs, JobFails(j) \/ FailedJobExpires(j) \/ LoseJob(j)
      PROVE  hold'[w] = hold[w] /\ TaskOf(w)' = TaskOf(w)
  <2>1. hold' = hold /\ \E b : jobs' = [jobs EXCEPT ![j] = b]
    BY <1>7 DEF JobFails, FailedJobExpires, LoseJob, local
  <2>2. j # hold[w]
    BY <1>0, <1>7 DEF JobFails, FailedJobExpires, LoseJob
  <2>3. QED
    BY <1>2, <2>1, <2>2
<1>8. ASSUME UNCHANGED <<jobs, hold>>
      PROVE  hold'[w] = hold[w] /\ TaskOf(w)' = TaskOf(w)
  BY <1>8 DEF TaskOf
<1>9. ASSUME NEW p \in Procs, SelectNext(p) \/ CommitSelect(p) \/ CommitSelectFails(p)
      PROVE  UNCHANGED <<jobs, hold>>
  BY <1>9 DEF SelectNext, CommitSelect, CommitSelectFails
<1>10. ASSUME NEW v \in Workers, Worker(v), ~TakeJob(v)
       PROVE  UNCHANGED <<jobs, hold>>
  BY <1>10 DEF Worker, NotStarted, ReadStart, CommitStart, CommitStartFails, NoticeCancel, OpenStore,
     StoreUnavailable, Attempt, BeginAttempt, EndAttempt, AttemptRaises, StopAttempt, CollectResult,
     CollectStopped, StoreStopped, StoreDone, Finish, Abort, RunRaises, Fail, local
<1>11. ASSUME NEW a \in Api, Request(a)
       PROVE  UNCHANGED <<jobs, hold>>
  BY <1>11 DEF Request, Create, Cancel, Retry, Delete, Poll, local
<1>12. ASSUME CommitSweep \/ CommitSweepFails \/ (\E ripe \in Tasks : ReadSweep(ripe))
              \/ UNCHANGED vars \/ \E t \in Tasks : RowGoesStale(t)
       PROVE  UNCHANGED <<jobs, hold>>
  BY <1>12 DEF CommitSweep, CommitSweepFails, ReadSweep, RowGoesStale, vars, local
<1>13. ASSUME NEW p \in Procs, Dispatch(p)
       PROVE  hold'[w] = hold[w] /\ TaskOf(w)' = TaskOf(w)
  BY <1>3, <1>4, <1>8, <1>9, <1>13 DEF Dispatch
<1>14. ASSUME NEW v \in Workers, Worker(v)
       PROVE  hold'[w] = hold[w] /\ TaskOf(w)' = TaskOf(w)
  BY <1>5, <1>8, <1>10, <1>14
<1>15. CASE Sweep
  BY <1>3, <1>8, <1>12, <1>15, Kinds DEF Sweep
<1>16. CASE Ambient
  BY <1>7, <1>8, <1>12, <1>16 DEF Ambient
<1>17. ASSUME NEW p \in Procs, Acts(p)
       PROVE  hold'[w] = hold[w] /\ TaskOf(w)' = TaskOf(w)
  BY <1>6, <1>8, <1>11, <1>13, <1>14, <1>15, <1>17 DEF Acts
<1>18. QED
  BY <1>16, <1>17, StepCases

LEMMA PlaceStep ==
  ASSUME TypeOK, PlaceInv, [Next]_vars
  PROVE  PlaceInv'
<1>1. ASSUME NEW p \in Procs, Acts(p)
      PROVE  /\ pc'[p] \in WorkerPC => p \in Workers
             /\ pc'[p] = "sweep" => p = Runner
  <2>1. CASE Dispatch(p)
    BY <2>1 DEF Dispatch, SelectNext, CommitSelect, CommitSelectFails, Enqueue, EnqueueFails,
       EndDispatch, Done, Goto, TypeOK, WorkerPC, RunPC, PlaceInv
  <2>2. CASE p \in Workers /\ Worker(p)
    <3>1. pc'[p] = pc[p] \/ \E label \in PCs \ {"sweep"} : pc' = [pc EXCEPT ![p] = label]
      BY <2>2 DEF Worker, TakeJob, NotStarted, ReadStart, CommitStart, CommitStartFails, NoticeCancel,
         OpenStore, StoreUnavailable, Attempt, BeginAttempt, EndAttempt, AttemptRaises, StopAttempt,
         CollectResult, CollectStopped, StoreStopped, StoreDone, Finish, Abort, RunRaises, Fail, Leave,
         Goto, PCs, RunPC, TxnPC, local
    <3>2. QED
      BY <2>2, <3>1 DEF TypeOK, PlaceInv
  <2>3. CASE Request(p)
    BY <2>3 DEF Request, Create, Cancel, Retry, Delete, Poll, Goto, TypeOK, WorkerPC, RunPC, PlaceInv
  <2>4. CASE p = Runner /\ Sweep
    <3>1. pc'[p] = pc[p] \/ pc'[p] \in {"enqueue", "idle", "sweep"}
      BY <2>4 DEF Sweep, ReadSweep, Enqueue, EnqueueFails, CommitSweep, CommitSweepFails, Goto, TypeOK
    <3>2. QED
      BY <2>4, <3>1 DEF PlaceInv, WorkerPC, RunPC
  <2>5. CASE Crash(p)
    BY <2>5 DEF Crash, Goto, TypeOK, WorkerPC, RunPC
  <2>6. QED
    BY <1>1, <2>1, <2>2, <2>3, <2>4, <2>5 DEF Acts
<1>2. CASE Ambient
  BY <1>2, AmbientKeeps DEF PlaceInv
<1>3. ASSUME NEW p \in Procs, Acts(p)
      PROVE  PlaceInv'
  <2>1. \A q \in Procs : q # p => pc'[q] = pc[q]
    BY <1>3, OthersKept
  <2>2. QED
    BY <1>1, <1>3, <2>1 DEF PlaceInv
<1>4. QED
  BY <1>2, <1>3, StepCases

LEMMA StoreStep ==
  ASSUME TypeOK, HoldInv, PlaceInv, StoreInv, [Next]_vars
  PROVE  StoreInv'
<1> SUFFICES ASSUME NEW w \in Workers
             PROVE  /\ pc'[w] \in TryPC => run'[w].store \in Nat \ {0}
                    /\ pc'[w] = "attempt" => StoreLeft(w)'
  BY DEF StoreInv
<1>0. w \in Procs /\ run[w] \in Run
  BY Kinds DEF TypeOK
<1>1. ASSUME pc'[w] = pc[w], run'[w].store = run[w].store
      PROVE  /\ pc'[w] \in TryPC => run'[w].store \in Nat \ {0}
             /\ pc'[w] = "attempt" => StoreLeft(w)'
  <2>1. pc[w] = "attempt" => TaskOf(w)' = TaskOf(w)
    BY <1>1, TaskKept
  <2>2. QED
    BY <1>1, <2>1 DEF StoreInv, StoreLeft
<1>2. CASE Ambient
  BY <1>1, <1>2, AmbientKeeps
<1>3. ASSUME NEW p \in Procs, Acts(p), p # w
      PROVE  pc'[w] = pc[w] /\ run'[w].store = run[w].store
  BY <1>0, <1>3, OthersKept
<1>4. CASE Dispatch(w) \/ Crash(w)
  <2>1. (pc'[w] = pc[w] /\ run'[w] = run[w]) \/ pc'[w] \in {"idle", "selected", "enqueue"}
    BY <1>0, <1>4 DEF Dispatch, SelectNext, CommitSelect, CommitSelectFails, Enqueue, EnqueueFails,
       EndDispatch, Done, Crash, Goto, TypeOK, TryPC
  <2>2. QED
    BY <1>1, <2>1 DEF TryPC
<1>5. CASE Worker(w)
  <2>1. CASE TakeJob(w) \/ NotStarted(w) \/ CommitStartFails(w) \/ NoticeCancel(w)
    BY <1>0, <2>1 DEF TakeJob, NotStarted, CommitStartFails, NoticeCancel, Goto, TypeOK, TryPC
  <2>2. CASE ReadStart(w)
    <3>1. pc'[w] = "begun" /\ run'[w].store = 1
      BY <1>0, <2>2 DEF ReadStart, Goto, TypeOK, TryPC
    <3>2. QED
      BY <3>1 DEF TryPC
  <2>3. CASE CommitStart(w)
    BY <1>0, <2>3 DEF CommitStart, Goto, TypeOK, StoreInv, TryPC
  <2>4. CASE OpenStore(w)
    BY <1>0, <2>4 DEF OpenStore, Goto, TypeOK, StoreInv, StoreLeft, TaskOf, TryPC
  <2>5. CASE StoreUnavailable(w)
    <3>1. pc'[w] = "store" /\ run'[w].store = run[w].store + 1
      BY <1>0, <2>5 DEF StoreUnavailable, TypeOK, Run
    <3>2. QED
      BY <1>0, <3>1 DEF Run, TryPC
  <2>6. CASE \E x \in Products : Attempt(w, x)
    <3>1. pc'[w] = pc[w] /\ run'[w].store = run[w].store
      BY <1>0, <2>6 DEF Attempt, BeginAttempt, EndAttempt, AttemptRaises, StopAttempt, CollectResult,
         CollectStopped, TypeOK, Run
    <3>2. QED
      BY <1>1, <3>1
  <2>7. CASE StoreDone(w)
    <3>1. pc'[w] = "store" /\ run'[w].store = run[w].store + 1
      BY <1>0, <2>7 DEF StoreDone, Goto, TypeOK, Run
    <3>2. QED
      BY <1>0, <3>1 DEF Run, TryPC
  <2>8. CASE StoreStopped(w) \/ Finish(w) \/ Abort(w) \/ RunRaises(w) \/ Fail(w)
    BY <1>0, <2>8 DEF StoreStopped, Finish, Abort, RunRaises, Fail, Leave, Goto, TypeOK, TryPC
  <2>9. QED
    BY <1>5, <2>1, <2>2, <2>3, <2>4, <2>5, <2>6, <2>7, <2>8 DEF Worker
<1>6. Acts(w) => Dispatch(w) \/ Crash(w) \/ Worker(w)
  BY Kinds DEF Acts
<1>7. QED
  BY <1>1, <1>2, <1>3, <1>4, <1>5, <1>6, StepCases

LEMMA TypedStep == TypedInv /\ [Next]_vars => TypedInv'
<1> SUFFICES ASSUME TypedInv, [Next]_vars
             PROVE  TypedInv'
  OBVIOUS
<1>0. TypeOK /\ HoldInv /\ PlaceInv /\ StoreInv
  BY DEF TypedInv
<1>1. TypeOK'
  <2>1. CASE \E p \in Workers \cup Api : Dispatch(p)
    BY <1>0, <2>1, DispatchTypes, Kinds
  <2>2. CASE \E w \in Workers : Worker(w)
    BY <1>0, <2>2, WorkerTypes
  <2>3. CASE \E a \in Api : Request(a)
    BY <1>0, <2>3, RequestTypes
  <2>4. CASE Sweep \/ Environment \/ UNCHANGED vars
    BY <1>0, <2>4, OtherTypes
  <2>5. QED
    BY <2>1, <2>2, <2>3, <2>4 DEF Next
<1>2. QED
  BY <1>0, <1>1, HoldStep, PlaceStep, StoreStep DEF TypedInv

(* Every variable of the listing queue keeps its type, and a job in the     *)
(* hands of a worker is a started one of an existing number.                *)
THEOREM ListingTyping == Spec => []TypeOK
<1>1. TypedInv => TypeOK
  BY DEF TypedInv
<1>2. QED
  BY <1>1, TypedInit, TypedStep, PTL DEF Spec

-----------------------------------------------------------------------------
(* Payloads, runs and attempts stay within the products of their task.      *)

LEMMA InsideIds ==
  ASSUME TypeOK, RowsInside, NEW t \in Tasks
  PROVE  /\ ActiveIds(t) \subseteq ProductsOf[t] /\ RetryIds(t) \subseteq ProductsOf[t]
         /\ Inside(Retried(t), t) /\ Inside(NewRow, t) /\ Inside(NoRun, t)
         /\ \A w \in Writes : Inside(Written(t, w), t)
<1>0. row[t] \in Row /\ Inside(row[t], t)
  BY DEF TypeOK, RowsInside
<1>1. ActiveIds(t) \subseteq ProductsOf[t] /\ RetryIds(t) \subseteq ProductsOf[t]
  BY <1>0 DEF ActiveIds, RetryIds, Inside
<1>2. Inside(Retried(t), t) /\ Inside(NewRow, t) /\ Inside(NoRun, t)
  BY <1>1 DEF Retried, NewRow, NoRun, Inside
<1>3. Inside(Started(t), t) /\ Inside(CancelledRow(t), t)
  BY <1>0 DEF Started, CancelledRow, Row, Inside
<1>4. Inside(Interrupted(t), t)
  BY <1>0, <1>1 DEF Interrupted, Row, Inside
<1>5. \A w \in Writes : Inside(Written(t, w), t)
  BY <1>0, <1>3, <1>4 DEF Written, Writes
<1>6. QED
  BY <1>1, <1>2, <1>5

LEMMA RowsInsideStep ==
  ASSUME TypedInv, PayloadInv, [Next]_vars
  PROVE  RowsInside'
<1>0. TypeOK /\ RowsInside
  BY DEF TypedInv, PayloadInv
<1>1. ASSUME NEW p \in Procs, CommitPlan(p)
      PROVE  RowsInside'
  <2>1. plan[p] \in [Tasks -> Writes] /\ row' = [t \in Tasks |-> Written(t, plan[p][t])]
    BY <1>0, <1>1 DEF CommitPlan, TypeOK
  <2>2. QED
    BY <1>0, <2>1, InsideIds DEF RowsInside
<1>2. ASSUME NEW t \in Tasks, NEW f, Inside(f, t), row' = row \/ row' = [row EXCEPT ![t] = f]
      PROVE  RowsInside'
  BY <1>0, <1>2 DEF RowsInside, TypeOK
<1>3. ASSUME NEW t \in Tasks, NEW s, NEW m, NEW o,
             row' = row \/ row' = [row EXCEPT ![t] = [row[t] EXCEPT !.status = s, !.marked = m, !.stale = o]]
      PROVE  RowsInside'
  <2>1. Inside([row[t] EXCEPT !.status = s, !.marked = m, !.stale = o], t)
    BY <1>0 DEF RowsInside, Inside, TypeOK, Row
  <2>2. QED
    BY <1>2, <1>3, <2>1
<1>4. ASSUME NEW p \in Procs, EnqueueFails(p)
      PROVE  RowsInside'
  <2> DEFINE t == First(todo[p])
  <2>1. t \in Tasks
    BY <1>0, <1>4, FirstIn DEF EnqueueFails, TypeOK
  <2>2. row' = row \/ row' = [row EXCEPT ![t].status = "failed", ![t].marked = FALSE, ![t].stale = FALSE]
    BY <1>4 DEF EnqueueFails
  <2> HIDE DEF t
  <2>3. row' = row \/ row' = [row EXCEPT ![t] = [row[t] EXCEPT !.status = "failed", !.marked = FALSE,
                                                               !.stale = FALSE]]
    BY <1>0, <2>1, <2>2 DEF TypeOK
  <2>4. QED
    BY <1>3, <2>1, <2>3
<1>5. ASSUME NEW p \in Procs, Dispatch(p)
      PROVE  RowsInside'
  <2>1. CASE SelectNext(p) \/ CommitSelectFails(p) \/ Enqueue(p) \/ EndDispatch(p)
    BY <1>0, <2>1 DEF SelectNext, CommitSelectFails, Abandon, Enqueue, EndDispatch, RowsInside
  <2>2. QED
    BY <1>1, <1>4, <1>5, <2>1 DEF Dispatch, CommitSelect
<1>6. ASSUME NEW w \in Workers, NEW x \in Products, CollectResult(w, x)
      PROVE  RowsInside'
  <2> DEFINE t == TaskOf(w)
             good == Succeeded(w, x)
             ok == IF good THEN run[w].ok \cup {x} ELSE run[w].ok
             failed == IF good THEN run[w].failed \ {x} ELSE run[w].failed \cup {x}
  <2>1. row' = IF ~Exists(t) THEN row
               ELSE [row EXCEPT ![t].ok = ok, ![t].failed = failed \ ok,
                                ![t].retry = run[w].retry, ![t].stale = FALSE]
    BY <1>6 DEF CollectResult
  <2>2. pc[w] = "attempt" /\ att[w][x] # "none"
    BY <1>6 DEF CollectResult
  <2>3. t \in Tasks /\ Inside(run[w], t) /\ x \in ProductsOf[t]
    BY <2>2, WorkerTask DEF TypedInv, PayloadInv, RunsInside, AttsInside, TryPC
  <2>4. failed \subseteq ProductsOf[t] /\ run[w].retry \subseteq ProductsOf[t]
    BY <2>3 DEF Inside
  <2> HIDE DEF t, ok, failed, good
  <2>5. /\ row[t] \in Row
        /\ row' = row \/ row' = [row EXCEPT ![t] = [row[t] EXCEPT !.ok = ok, !.failed = failed \ ok,
                                                       !.retry = run[w].retry, !.stale = FALSE]]
    BY <1>0, <2>1, <2>3 DEF TypeOK
  <2>6. Inside([row[t] EXCEPT !.ok = ok, !.failed = failed \ ok, !.retry = run[w].retry,
                              !.stale = FALSE], t)
    BY <2>4, <2>5 DEF Inside, Row
  <2>7. QED
    BY <1>2, <2>3, <2>5, <2>6
<1>7. ASSUME NEW w \in Workers, Worker(w)
      PROVE  RowsInside'
  <2>1. CASE TakeJob(w) \/ NotStarted(w) \/ ReadStart(w) \/ CommitStartFails(w) \/ NoticeCancel(w)
             \/ OpenStore(w) \/ StoreStopped(w) \/ StoreDone(w) \/ RunRaises(w)
    BY <1>0, <2>1 DEF TakeJob, NotStarted, ReadStart, CommitStartFails, Abandon, NoticeCancel, OpenStore,
       StoreStopped, StoreDone, RunRaises, RowsInside
  <2>2. CASE CommitStart(w)
    BY <1>1, <2>2, Kinds DEF CommitStart
  <2>3. ASSUME pc[w] # "idle"
        PROVE  TaskOf(w) \in Tasks /\ row[TaskOf(w)] \in Row
    BY <1>0, <2>3, WorkerTask DEF TypedInv, TypeOK
  <2>4. CASE StoreUnavailable(w)
    <3> DEFINE t == TaskOf(w)
    <3>1. t \in Tasks /\ row[t] \in Row
      BY <2>3, <2>4 DEF StoreUnavailable
    <3>2. row' = [row EXCEPT ![t].stale = FALSE]
      BY <2>4 DEF StoreUnavailable
    <3> HIDE DEF t
    <3>3. Inside([row[t] EXCEPT !.stale = FALSE], t)
      BY <1>0, <3>1 DEF RowsInside, Inside, Row
    <3>4. row' = [row EXCEPT ![t] = [row[t] EXCEPT !.stale = FALSE]]
      BY <1>0, <3>1, <3>2 DEF TypeOK
    <3>5. QED
      BY <1>2, <3>1, <3>3, <3>4
  <2>5. CASE \E x \in Products : Attempt(w, x)
    <3>1. PICK x \in Products : Attempt(w, x)
      BY <2>5
    <3>2. CASE ~CollectResult(w, x)
      BY <1>0, <3>1, <3>2 DEF Attempt, BeginAttempt, EndAttempt, AttemptRaises, StopAttempt,
         CollectStopped, RowsInside
    <3>3. QED
      BY <1>6, <3>2
  <2>6. CASE Finish(w)
    <3> DEFINE f == [NewRow EXCEPT !.status = FinalStatus(w), !.ok = run[w].ok,
                                   !.failed = run[w].failed \ run[w].ok]
    <3>1. Inside(run[w], TaskOf(w)) /\ TaskOf(w) \in Tasks
      BY <2>3, <2>6 DEF Finish, PayloadInv, RunsInside, TryPC
    <3>2. Inside(f, TaskOf(w))
      BY <3>1 DEF Inside, NewRow
    <3>3. row' = row \/ row' = [row EXCEPT ![TaskOf(w)] = f]
      BY <2>6 DEF Finish
    <3> HIDE DEF f
    <3>4. QED
      BY <1>2, <3>1, <3>2, <3>3
  <2>7. CASE Abort(w)
    <3>1. TaskOf(w) \in Tasks
      BY <2>3, <2>7 DEF Abort
    <3>2. Inside(CancelledRow(TaskOf(w)), TaskOf(w))
      BY <1>0, <3>1, InsideIds DEF Written, Writes
    <3>3. row' = row \/ row' = [row EXCEPT ![TaskOf(w)] = CancelledRow(TaskOf(w))]
      BY <2>7 DEF Abort
    <3>4. QED
      BY <1>2, <3>1, <3>2, <3>3
  <2>8. CASE Fail(w)
    <3> DEFINE ids == ActiveIds(TaskOf(w))
               ok == row[TaskOf(w)].ok \ ids
               f == [NewRow EXCEPT !.status = IF ok # {} THEN "partial" ELSE "failed",
                                   !.ok = ok, !.failed = ids]
    <3>1. TaskOf(w) \in Tasks
      BY <2>3, <2>8 DEF Fail
    <3>2. ids \subseteq ProductsOf[TaskOf(w)]
      BY <1>0, <3>1, InsideIds
    <3>3. row' = row \/ row' = [row EXCEPT ![TaskOf(w)] = f]
      BY <2>8 DEF Fail
    <3> HIDE DEF ids, ok
    <3>4. Inside(f, TaskOf(w))
      BY <3>2 DEF Inside, NewRow
    <3> HIDE DEF f
    <3>5. QED
      BY <1>2, <3>1, <3>3, <3>4
  <2>9. QED
    BY <1>7, <2>1, <2>2, <2>4, <2>5, <2>6, <2>7, <2>8 DEF Worker
<1>8. ASSUME NEW a \in Api, Request(a)
      PROVE  RowsInside'
  <2>1. CASE Create(a)
    <3>1. PICK t \in Tasks :
            row' = [u \in Tasks |-> IF u \in Batch(t) THEN [NewRow EXCEPT !.status = "queued"]
                                    ELSE row[u]]
      BY <2>1 DEF Create
    <3>2. \A u \in Tasks : Inside([NewRow EXCEPT !.status = "queued"], u)
      BY DEF Inside, NewRow
    <3>3. QED
      BY <1>0, <3>1, <3>2 DEF RowsInside
  <2>2. CASE Cancel(a)
    <3>1. PICK t \in Tasks :
            \/ row' = [row EXCEPT ![t] = CancelledRow(t)]
            \/ row' = [row EXCEPT ![t].marked = TRUE, ![t].stale = @ /\ row[t].marked]
      BY <2>2 DEF Cancel
    <3>2. CASE row' = [row EXCEPT ![t] = CancelledRow(t)]
      <4>1. Inside(CancelledRow(t), t)
        BY <1>0, InsideIds DEF Written, Writes
      <4>2. QED
        BY <1>2, <3>2, <4>1
    <3>3. CASE row' = [row EXCEPT ![t].marked = TRUE, ![t].stale = @ /\ row[t].marked]
      <4>1. row' = [row EXCEPT ![t] = [row[t] EXCEPT !.marked = TRUE, !.stale = @ /\ row[t].marked]]
        BY <1>0, <3>3 DEF TypeOK
      <4>2. Inside([row[t] EXCEPT !.marked = TRUE, !.stale = @ /\ row[t].marked], t)
        BY <1>0 DEF RowsInside, Inside, TypeOK, Row
      <4>3. QED
        BY <1>2, <4>1, <4>2
    <3>4. QED
      BY <3>1, <3>2, <3>3
  <2>3. CASE Retry(a)
    <3>1. PICK R \in SUBSET Tasks : row' = [t \in Tasks |-> IF t \in R THEN Retried(t) ELSE row[t]]
      BY <2>3 DEF Retry
    <3>2. QED
      BY <1>0, <3>1, InsideIds DEF RowsInside
  <2>4. CASE Delete(a)
    <3>1. PICK t \in Tasks : row' = [row EXCEPT ![t] = [NewRow EXCEPT !.status = "deleted"]]
      BY <2>4 DEF Delete
    <3>2. Inside([NewRow EXCEPT !.status = "deleted"], t)
      BY DEF Inside, NewRow
    <3>3. QED
      BY <1>2, <3>1, <3>2
  <2>5. CASE Poll(a)
    BY <1>0, <2>5 DEF Poll, RowsInside
  <2>6. QED
    BY <1>8, <2>1, <2>2, <2>3, <2>4, <2>5 DEF Request
<1>9. CASE Sweep
  <2>1. CASE CommitSweep
    BY <1>1, <2>1, Kinds DEF CommitSweep
  <2>2. CASE CommitSweepFails \/ Enqueue(Runner) \/ \E ripe \in Tasks : ReadSweep(ripe)
    BY <1>0, <2>2 DEF CommitSweepFails, Abandon, Enqueue, ReadSweep, RowsInside
  <2>3. QED
    BY <1>4, <1>9, <2>1, <2>2, Kinds DEF Sweep
<1>10. ASSUME NEW t \in Tasks, RowGoesStale(t)
       PROVE  RowsInside'
  <2>1. row' = [row EXCEPT ![t] = [row[t] EXCEPT !.stale = TRUE]]
    BY <1>0, <1>10 DEF RowGoesStale, TypeOK
  <2>2. Inside([row[t] EXCEPT !.stale = TRUE], t)
    BY <1>0 DEF RowsInside, Inside, TypeOK, Row
  <2>3. QED
    BY <1>2, <2>1, <2>2
<1>11. ASSUME UNCHANGED row
       PROVE  RowsInside'
  BY <1>0, <1>11 DEF RowsInside
<1>12. CASE Environment \/ UNCHANGED vars
  BY <1>10, <1>11, <1>12 DEF Environment, Crash, JobFails, FailedJobExpires, LoseJob, vars
<1>13. QED
  BY <1>5, <1>7, <1>8, <1>9, <1>12, Kinds DEF Next

LEMMA RunsInsideStep ==
  ASSUME TypedInv, PayloadInv, [Next]_vars
  PROVE  RunsInside'
<1> SUFFICES ASSUME NEW w \in Workers, pc'[w] \in TryPC
             PROVE  Inside(run'[w], TaskOf(w)')
  BY DEF RunsInside, Inside
<1>0. /\ TypeOK /\ HoldInv /\ RowsInside /\ w \in Procs /\ run[w] \in Run
      /\ pc'[w] # "idle"
  BY Kinds DEF TypedInv, PayloadInv, TypeOK, TryPC
<1>1. ASSUME pc[w] \in TryPC, run'[w] = run[w]
      PROVE  Inside(run'[w], TaskOf(w)')
  <2>1. TaskOf(w)' = TaskOf(w)
    BY <1>0, <1>1, TaskKept DEF TryPC
  <2>2. QED
    BY <1>1, <2>1 DEF PayloadInv, RunsInside
<1>2. CASE Ambient
  BY <1>1, <1>2, AmbientKeeps
<1>3. ASSUME NEW p \in Procs, Acts(p), p # w
      PROVE  pc'[w] = pc[w] /\ run'[w] = run[w]
  BY <1>0, <1>3, OthersKept
<1>4. ASSUME Dispatch(w) \/ Crash(w)
      PROVE  FALSE
  <2>1. pc'[w] \in {"idle", "selected", "enqueue", "sweep"}
    BY <1>0, <1>4 DEF Dispatch, SelectNext, CommitSelect, CommitSelectFails, Enqueue, EnqueueFails,
       EndDispatch, Done, Crash, Goto, TypeOK
  <2>2. QED
    BY <2>1 DEF TryPC
<1>5. CASE Worker(w)
  <2>0. pc[w] # "idle"
    BY <1>0, <1>5 DEF Worker, TakeJob, NotStarted, ReadStart, CommitStart, CommitStartFails,
       NoticeCancel, OpenStore, StoreUnavailable, Attempt, BeginAttempt, EndAttempt, AttemptRaises,
       StopAttempt, CollectResult, CollectStopped, StoreStopped, StoreDone, Finish, Abort, RunRaises,
       Fail, Goto, TypeOK, TryPC
  <2>00. TaskOf(w)' = TaskOf(w) /\ TaskOf(w) \in Tasks
    BY <1>0, <2>0, TaskKept, WorkerTask
  <2>1. CASE NotStarted(w)
    <3>1. pc'[w] \in {"abort", "dispatch"} /\ run'[w] = run[w] /\ pc[w] = "begin"
      BY <1>0, <2>1 DEF NotStarted, Goto, TypeOK, local
    <3>2. QED
      BY <3>1 DEF TryPC
  <2>2. CASE ReadStart(w)
    <3>1. run'[w].retry = row[TaskOf(w)].retry /\ run'[w].failed = {}
      BY <1>0, <2>2 DEF ReadStart, TypeOK, NoRun
    <3>2. QED
      BY <1>0, <2>00, <3>1 DEF RowsInside, Inside
  <2>3. CASE CommitStart(w)
    <3>1. run'[w] = run[w] \/ run'[w] = NoRun
      BY <1>0, <2>3 DEF CommitStart, TypeOK
    <3>2. CASE run'[w] = NoRun
      BY <2>00, <3>2 DEF NoRun, Inside
    <3>3. QED
      BY <1>1, <2>3, <3>1, <3>2 DEF CommitStart, TryPC
  <2>30. CASE Finish(w) \/ Abort(w) \/ Fail(w)
    <3>1. pc'[w] = "dispatch"
      BY <1>0, <2>30 DEF Finish, Abort, Fail, Leave, Goto, TypeOK
    <3>2. QED
      BY <3>1 DEF TryPC
  <2>4. CASE CommitStartFails(w) \/ NoticeCancel(w) \/ OpenStore(w) \/ StoreStopped(w) \/ RunRaises(w)
    BY <1>1, <2>4 DEF CommitStartFails, NoticeCancel, OpenStore, StoreStopped, RunRaises, local, TryPC
  <2>5. CASE StoreUnavailable(w)
    <3>1. run'[w].retry = run[w].retry /\ run'[w].failed = run[w].failed \cup RunIds(w)
      BY <1>0, <2>5 DEF StoreUnavailable, TypeOK, Run
    <3>2. Inside(run[w], TaskOf(w))
      BY <2>5 DEF StoreUnavailable, PayloadInv, RunsInside, TryPC
    <3>3. QED
      BY <2>00, <3>1, <3>2 DEF Inside, RunIds
  <2>6. CASE StoreDone(w)
    <3>1. run'[w].retry = run[w].retry /\ run'[w].failed = run[w].failed
      BY <1>0, <2>6 DEF StoreDone, TypeOK, Run
    <3>2. Inside(run[w], TaskOf(w))
      BY <2>6 DEF StoreDone, PayloadInv, RunsInside, TryPC
    <3>3. QED
      BY <2>00, <3>1, <3>2 DEF Inside
  <2>7. ASSUME NEW x \in Products, Attempt(w, x)
        PROVE  Inside(run'[w], TaskOf(w)')
    <3>0. pc[w] = "attempt" /\ Inside(run[w], TaskOf(w))
      BY <2>7 DEF Attempt, BeginAttempt, EndAttempt, AttemptRaises, StopAttempt, CollectResult,
         CollectStopped, PayloadInv, RunsInside, TryPC
    <3>1. CASE CollectResult(w, x)
      <4>1. /\ run'[w].retry = run[w].retry
            /\ run'[w].failed \subseteq run[w].failed \cup {x}
        BY <1>0, <3>1 DEF CollectResult, TypeOK, Run
      <4>2. x \in ProductsOf[TaskOf(w)]
        BY <3>1 DEF CollectResult, PayloadInv, AttsInside
      <4>3. QED
        BY <2>00, <3>0, <4>1, <4>2 DEF Inside
    <3>2. CASE ~CollectResult(w, x)
      <4>1. run'[w].retry = run[w].retry /\ run'[w].failed = run[w].failed
        BY <1>0, <2>7, <3>2 DEF Attempt, BeginAttempt, EndAttempt, AttemptRaises, StopAttempt,
           CollectStopped, TypeOK, Run
      <4>2. QED
        BY <2>00, <3>0, <4>1 DEF Inside
    <3>3. QED
      BY <3>1, <3>2
  <2>8. ~TakeJob(w)
    BY <2>0 DEF TakeJob
  <2>9. QED
    BY <1>5, <2>1, <2>2, <2>3, <2>30, <2>4, <2>5, <2>6, <2>7, <2>8 DEF Worker
<1>6. Acts(w) => Dispatch(w) \/ Crash(w) \/ Worker(w)
  BY Kinds DEF Acts
<1>7. ASSUME NEW p \in Procs, Acts(p), p # w
      PROVE  Inside(run'[w], TaskOf(w)')
  BY <1>1, <1>3, <1>7
<1>8. QED
  BY <1>2, <1>4, <1>5, <1>6, <1>7, StepCases

LEMMA AttsInsideStep ==
  ASSUME TypedInv, PayloadInv, [Next]_vars
  PROVE  AttsInside'
<1> SUFFICES ASSUME NEW w \in Workers, NEW y \in Products, att'[w][y] # "none"
             PROVE  pc'[w] = "attempt" /\ y \in ProductsOf[TaskOf(w)']
  BY DEF AttsInside
<1>0. /\ TypeOK /\ HoldInv /\ w \in Procs /\ run[w] \in Run /\ att[w] \in [Products -> Attempts]
  BY Kinds DEF TypedInv, PayloadInv, TypeOK
<1>1. ASSUME pc'[w] = pc[w], att[w][y] # "none"
      PROVE  pc'[w] = "attempt" /\ y \in ProductsOf[TaskOf(w)']
  <2>1. pc[w] = "attempt" /\ y \in ProductsOf[TaskOf(w)]
    BY <1>1 DEF PayloadInv, AttsInside
  <2>2. TaskOf(w)' = TaskOf(w)
    BY <1>0, <1>1, <2>1, TaskKept
  <2>3. QED
    BY <1>1, <2>1, <2>2
<1>2. CASE Ambient
  BY <1>1, <1>2, AmbientKeeps
<1>3. ASSUME NEW p \in Procs, Acts(p), p # w
      PROVE  pc'[w] = "attempt" /\ y \in ProductsOf[TaskOf(w)']
  BY <1>0, <1>1, <1>3, OthersKept
<1>4. CASE Crash(w)
  BY <1>0, <1>4, Kinds DEF Crash, TypeOK
<1>5. ASSUME pc[w] # "attempt", att' = att
      PROVE  FALSE
  BY <1>5 DEF PayloadInv, AttsInside
<1>6. CASE Dispatch(w)
  <2>1. att' = att /\ pc[w] # "attempt"
    BY <1>6 DEF Dispatch, SelectNext, CommitSelect, CommitSelectFails, Enqueue, EnqueueFails,
       EndDispatch
  <2>2. QED
    BY <1>5, <2>1
<1>7. CASE Worker(w)
  <2>1. CASE TakeJob(w) \/ NotStarted(w) \/ ReadStart(w) \/ CommitStart(w) \/ CommitStartFails(w)
             \/ NoticeCancel(w) \/ StoreUnavailable(w) \/ Finish(w) \/ Abort(w) \/ Fail(w)
    BY <1>5, <2>1 DEF TakeJob, NotStarted, ReadStart, CommitStart, CommitStartFails, NoticeCancel,
       StoreUnavailable, Finish, Abort, Fail, local
  <2>2. CASE StoreStopped(w) \/ RunRaises(w)
    BY <1>0, <2>2, Kinds DEF StoreStopped, RunRaises, TypeOK
  <2>3. CASE StoreDone(w)
    BY <1>0, <2>3, Kinds DEF StoreDone
  <2>4. CASE OpenStore(w)
    <3>1. y \in RunIds(w) /\ pc'[w] = "attempt" /\ pc[w] = "store"
      BY <1>0, <2>4 DEF OpenStore, Goto, TypeOK
    <3>2. TaskOf(w)' = TaskOf(w) /\ TaskOf(w) \in Tasks
      BY <1>0, <3>1, TaskKept, WorkerTask
    <3>3. Inside(run[w], TaskOf(w))
      BY <3>1 DEF PayloadInv, RunsInside, TryPC
    <3>4. QED
      BY <3>1, <3>2, <3>3 DEF RunIds, Inside
  <2>5. ASSUME NEW x \in Products, Attempt(w, x)
        PROVE  pc'[w] = "attempt" /\ y \in ProductsOf[TaskOf(w)']
    <3>1. pc'[w] = pc[w]
      BY <2>5 DEF Attempt, BeginAttempt, EndAttempt, AttemptRaises, StopAttempt, CollectResult,
         CollectStopped
    <3>2. att[w][y] # "none"
      <4>1. CASE y = x
        BY <2>5, <4>1 DEF Attempt, BeginAttempt, EndAttempt, AttemptRaises, StopAttempt,
           CollectResult, CollectStopped, Open
      <4>2. CASE y # x
        BY <1>0, <2>5, <4>2 DEF Attempt, BeginAttempt, EndAttempt, AttemptRaises, StopAttempt,
           CollectResult, CollectStopped, Remaining, TypeOK
      <4>3. QED
        BY <4>1, <4>2
    <3>3. QED
      BY <1>1, <3>1, <3>2
  <2>6. QED
    BY <1>7, <2>1, <2>2, <2>3, <2>4, <2>5 DEF Worker
<1>8. Acts(w) => Dispatch(w) \/ Crash(w) \/ Worker(w)
  BY Kinds DEF Acts
<1>9. QED
  BY <1>2, <1>3, <1>4, <1>6, <1>7, <1>8, StepCases

LEMMA PayloadStep == TypedInv /\ PayloadInv /\ [Next]_vars => PayloadInv'
BY RowsInsideStep, RunsInsideStep, AttsInsideStep DEF PayloadInv

-----------------------------------------------------------------------------
(* Runs begin where a planned start is committed, and nowhere else.         *)
Begun(w) == CommitStart(w) /\ plan[w][TaskOf(w)] = "start"

LEMMA RunsBegin ==
  ASSUME TypedInv, SafeInv, [Next]_vars, NEW w \in Workers, pc'[w] \in RunPC
  PROVE  /\ hold'[w] = hold[w] /\ TaskOf(w)' = TaskOf(w) /\ TaskOf(w) \in Tasks
         /\ pc[w] \in RunPC \/ Begun(w)
<1>0. /\ TypeOK /\ HoldInv /\ w \in Procs /\ pc'[w] # "idle"
  BY Kinds DEF TypedInv, RunPC
<1>1. pc[w] \in RunPC \/ Begun(w)
  <2>1. CASE pc'[w] = pc[w]
    BY <2>1
  <2>2. CASE Ambient
    BY <2>2, AmbientKeeps
  <2>3. ASSUME NEW p \in Procs, Acts(p), p # w
        PROVE  pc'[w] = pc[w]
    BY <1>0, <2>3, OthersKept
  <2>4. ASSUME Dispatch(w) \/ Crash(w)
        PROVE  FALSE
    <3>1. pc'[w] \in {"idle", "selected", "enqueue", "sweep"}
      BY <1>0, <2>4 DEF Dispatch, SelectNext, CommitSelect, CommitSelectFails, Enqueue, EnqueueFails,
         EndDispatch, Done, Crash, Goto, TypeOK
    <3>2. QED
      BY <3>1 DEF RunPC
  <2>5. CASE Worker(w)
    <3>1. CASE TakeJob(w) \/ ReadStart(w) \/ Finish(w) \/ Abort(w) \/ Fail(w)
      BY <1>0, <3>1 DEF TakeJob, ReadStart, Finish, Abort, Fail, Leave, Goto, TypeOK, RunPC
    <3>2. CASE NotStarted(w)
      <4>1. TaskOf(w) \in Tasks
        BY <1>0, <3>2, WorkerTask DEF NotStarted
      <4>2. row[TaskOf(w)].status # "queued"
        BY <3>2, <4>1 DEF NotStarted, Startable, SafeInv, MarksInv
      <4>3. QED
        BY <1>0, <3>2, <4>2 DEF NotStarted, Goto, TypeOK, RunPC
    <3>3. CASE CommitStart(w)
      BY <1>0, <3>3 DEF CommitStart, Goto, TypeOK, RunPC, Begun
    <3>4. CASE CommitStartFails(w)
      <4>1. PICK t \in Tasks : plan[w][t] # "none" /\ row[t].status = "deleted"
        BY <3>4 DEF CommitStartFails, RowVanished
      <4>2. plan[w][t] \in {"start", "cancel", "interrupt"}
        BY <1>0, <4>1 DEF TypeOK, Writes
      <4>3. QED
        BY <1>0, <4>1, <4>2 DEF SafeInv, PlansSafe
    <3>5. CASE NoticeCancel(w) \/ OpenStore(w) \/ StoreUnavailable(w) \/ StoreStopped(w)
               \/ StoreDone(w) \/ RunRaises(w) \/ \E x \in Products : Attempt(w, x)
      BY <3>5 DEF NoticeCancel, OpenStore, StoreUnavailable, StoreStopped, StoreDone, RunRaises,
         Attempt, BeginAttempt, EndAttempt, AttemptRaises, StopAttempt, CollectResult,
         CollectStopped, RunPC
    <3>6. QED
      BY <2>5, <3>1, <3>2, <3>3, <3>4, <3>5 DEF Worker
  <2>6. Acts(w) => Dispatch(w) \/ Crash(w) \/ Worker(w)
    BY Kinds DEF Acts
  <2>7. QED
    BY <2>1, <2>2, <2>3, <2>4, <2>5, <2>6, StepCases
<1>2. pc[w] # "idle"
  BY <1>1 DEF RunPC, Begun, CommitStart
<1>3. QED
  BY <1>0, <1>1, <1>2, TaskKept, WorkerTask

(* No run of t comes about but by the commit of its start.                  *)
LEMMA StaysDead ==
  ASSUME TypedInv, SafeInv, [Next]_vars, NEW t \in Tasks, ~LiveRun(t),
         \A w \in Workers : Begun(w) => TaskOf(w) # t
  PROVE  ~LiveRun(t)'
<1> SUFFICES ASSUME NEW w \in Workers, pc'[w] \in RunPC, TaskOf(w)' = t
             PROVE  FALSE
  BY DEF LiveRun, Runs
<1>1. QED
  BY RunsBegin DEF LiveRun, Runs

-----------------------------------------------------------------------------
(* What one step may do to a row.                                           *)
Becomes(t, S) == row'[t].status \in S /\ ~row'[t].marked /\ ~row'[t].stale
Stays(t) ==
  /\ row'[t].status = row[t].status
  /\ row'[t].marked => row[t].marked \/ row[t].status = "running"
  /\ row'[t].stale => row[t].stale \/ (row[t].status = "running" /\ ~LiveRun(t) /\ ~LiveRun(t)')
Begins(t) ==
  row[t].status = "queued" /\ Becomes(t, {"running"}) /\ \E w \in Workers : Begun(w) /\ TaskOf(w) = t
Ends(t) ==
  /\ row[t].status \in {"queued", "running"}
  /\ Becomes(t, {"partial", "failed", "success", "cancelled"}) /\ ~LiveRun(t)'
Returns(t) ==
  row[t].status \in {"partial", "failed", "cancelled"} /\ Becomes(t, {"queued"}) /\ retries' > retries
Born(t) == row[t].status = "new" /\ \A u \in Batch(t) : Becomes(u, {"queued"})
Gone(t) == Exists(t) /\ Becomes(t, {"deleted"})
Effect(t) == Stays(t) \/ Begins(t) \/ Ends(t) \/ Returns(t) \/ Born(t) \/ Gone(t)

LEMMA Batches ==
  ASSUME NEW t \in Tasks, NEW u \in Batch(t)
  PROVE  u \in Tasks /\ t \in Batch(t) /\ t \in Batch(u) /\ \A v \in Batch(u) : v \in Batch(t)
BY DEF Batch, GroupMates

LEMMA SameRow ==
  ASSUME NEW t \in Tasks, row'[t] = row[t]
  PROVE  Effect(t)
BY DEF Effect, Stays

(* A task no worker runs yet is not run after a step that starts nothing.   *)
LEMMA DeadAfter ==
  ASSUME TypedInv, SafeInv, [Next]_vars, NEW t \in Tasks, ~LiveRun(t),
         \A w \in Workers : ~CommitStart(w) \/ plan[w][t] # "start"
  PROVE  ~LiveRun(t)'
BY StaysDead DEF Begun

LEMMA CommitEffect ==
  ASSUME TypedInv, SafeInv, [Next]_vars, NEW p \in Procs, CommitPlan(p),
         p \in Workers /\ pc[p] = "begun" => CommitStart(p), NEW t \in Tasks
  PROVE  Effect(t)
<1>0. TypeOK /\ plan[p] \in [Tasks -> Writes] /\ row[t] \in Row
  BY DEF TypedInv, TypeOK
<1>1. row'[t] = Written(t, plan[p][t])
  BY DEF CommitPlan
<1>2. CASE plan[p][t] = "none"
  BY <1>1, <1>2, SameRow DEF Written
<1>3. CASE plan[p][t] = "start"
  <2>1. p \in Workers /\ CommitStart(p) /\ TaskOf(p) = t /\ row[t].status = "queued"
    BY <1>3 DEF SafeInv, PlansSafe
  <2>2. Becomes(t, {"running"})
    BY <1>0, <1>1, <1>3 DEF Written, Started, Row, Becomes
  <2>3. QED
    BY <1>3, <2>1, <2>2 DEF Effect, Begins, Begun
<1>4. CASE plan[p][t] \in {"cancel", "interrupt"}
  <2>1. row[t].status = "running" /\ ~LiveRun(t)
    BY <1>4 DEF SafeInv, PlansSafe
  <2>2. Becomes(t, {"partial", "failed", "success", "cancelled"})
    BY <1>0, <1>1, <1>4 DEF Written, Interrupted, CancelledRow, Row, Becomes
  <2>3. \A w \in Workers : plan[w][t] # "start"
    BY <2>1, Kinds DEF SafeInv, PlansSafe
  <2>4. ~LiveRun(t)'
    BY <2>1, <2>3, DeadAfter
  <2>5. QED
    BY <2>1, <2>2, <2>4 DEF Effect, Ends
<1>5. QED
  BY <1>0, <1>2, <1>3, <1>4 DEF Writes

(* A queued task that is not started has no run, before or after.           *)
LEMMA QueuedIsDead ==
  ASSUME TypedInv, SafeInv, [Next]_vars, NEW t \in Tasks, row[t].status = "queued",
         \A w \in Workers : ~CommitStart(w)
  PROVE  ~LiveRun(t) /\ ~LiveRun(t)'
<1>1. ~LiveRun(t)
  BY DEF SafeInv, RunningRows, LiveRun, Runs, Exists
<1>2. QED
  BY <1>1, DeadAfter

LEMMA FailEnqueueEffect ==
  ASSUME TypedInv, SafeInv, [Next]_vars, ~LateFailures, NEW p \in Procs, EnqueueFails(p),
         NEW u \in Tasks
  PROVE  Effect(u)
<1> DEFINE t == First(todo[p])
<1>0. TypeOK
  BY DEF TypedInv
<1>1. t \in Tasks
  BY <1>0, FirstIn DEF EnqueueFails, TypeOK
<1>2. row[t].status = "deleted" \/ row[t].status = "queued"
  BY DEF EnqueueFails
<1>3. IF Exists(t)
      THEN row' = [row EXCEPT ![t].status = "failed", ![t].marked = FALSE, ![t].stale = FALSE]
      ELSE row' = row
  BY DEF EnqueueFails
<1>4. \A w \in Workers : ~CommitStart(w)
  <2>1. SUFFICES ASSUME NEW w \in Workers, CommitStart(w)
                 PROVE  FALSE
    OBVIOUS
  <2>2. pc[w] = "begun" /\ w \in Procs
    BY <2>1, Kinds DEF CommitStart
  <2>3. p # w
    BY <2>2 DEF EnqueueFails
  <2>4. pc'[w] = pc[w]
    BY <1>0, <2>2, <2>3 DEF EnqueueFails, Goto, TypeOK
  <2>5. pc'[w] # "begun"
    BY <1>0, <2>1, <2>2 DEF CommitStart, Goto, TypeOK
  <2>6. QED
    BY <2>2, <2>4, <2>5
<1> HIDE DEF t
<1>5. CASE u = t /\ Exists(t)
  <2>1. row[t].status = "queued"
    BY <1>2, <1>5 DEF Exists
  <2>2. row[t] \in Row
    BY <1>0, <1>1 DEF TypeOK
  <2>3. Becomes(t, {"partial", "failed", "success", "cancelled"})
    BY <1>0, <1>1, <1>3, <1>5, <2>2 DEF Becomes, TypeOK, Row
  <2>4. QED
    BY <1>1, <1>4, <1>5, <2>1, <2>3, QueuedIsDead DEF Effect, Ends
<1>6. CASE ~(u = t /\ Exists(t))
  <2>1. row'[u] = row[u]
    BY <1>0, <1>1, <1>3, <1>6 DEF TypeOK
  <2>2. QED
    BY <2>1, SameRow
<1>7. QED
  BY <1>5, <1>6

LEMMA ActorStarts ==
  ASSUME TypeOK, NEW w \in Workers, CommitStart(w)
  PROVE  /\ \A p \in Procs : Acts(p) => p = w
         /\ ~Ambient
<1>0. w \in Procs /\ pc[w] = "begun" /\ pc'[w] # "begun"
  BY Kinds DEF CommitStart, Goto, TypeOK
<1>1. QED
  BY <1>0, OthersKept, AmbientKeeps

LEMMA LeaveEnds ==
  ASSUME TypedInv, SafeInv, [Next]_vars, NEW w \in Workers, Worker(w), Leave(w), pc[w] \in RunPC,
         NEW t \in Tasks, TaskOf(w) = t, Exists(t)
  PROVE  row[t].status = "running" /\ ~LiveRun(t)'
<1>0. TypeOK /\ HoldInv /\ w \in Procs /\ Acts(w)
  BY Kinds DEF TypedInv, Acts
<1>1. row[t].status = "running"
  BY DEF SafeInv, RunningRows
<1>2. pc'[w] = "dispatch" /\ pc[w] # "begun"
  BY <1>0 DEF Leave, Goto, TypeOK, RunPC
<1>3. ASSUME NEW v \in Workers, pc'[v] \in RunPC, TaskOf(v)' = t
      PROVE  FALSE
  <2>1. TaskOf(v) = t /\ (pc[v] \in RunPC \/ Begun(v))
    BY <1>3, RunsBegin
  <2>2. ~Begun(v)
    BY <1>0, <1>2, ActorStarts DEF Begun, CommitStart
  <2>3. v = w
    BY <2>1, <2>2 DEF SafeInv, OneRunner
  <2>4. QED
    BY <1>2, <1>3, <2>3 DEF RunPC
<1>4. QED
  BY <1>1, <1>3 DEF LiveRun, Runs

LEMMA WorkerEffect ==
  ASSUME TypedInv, SafeInv, [Next]_vars, NEW w \in Workers, Worker(w), NEW u \in Tasks
  PROVE  Effect(u)
<1> DEFINE t == TaskOf(w)
<1>0. TypeOK /\ HoldInv /\ w \in Procs /\ row[u] \in Row
  BY Kinds DEF TypedInv, TypeOK
<1>00. pc[w] # "idle" => t \in Tasks /\ row[t] \in Row
  BY <1>0, WorkerTask DEF TypeOK
<1>1. CASE TakeJob(w) \/ NotStarted(w) \/ ReadStart(w) \/ CommitStartFails(w) \/ NoticeCancel(w)
           \/ OpenStore(w) \/ StoreStopped(w) \/ StoreDone(w) \/ RunRaises(w)
  <2>1. row' = row
    BY <1>1 DEF TakeJob, NotStarted, ReadStart, CommitStartFails, Abandon, NoticeCancel, OpenStore,
       StoreStopped, StoreDone, RunRaises
  <2>2. QED
    BY <2>1, SameRow
<1>2. CASE CommitStart(w)
  BY <1>0, <1>2, CommitEffect DEF CommitStart
<1>3. CASE StoreUnavailable(w)
  <2>1. pc[w] # "idle" /\ row' = [row EXCEPT ![t].stale = FALSE]
    BY <1>3 DEF StoreUnavailable
  <2> HIDE DEF t
  <2>2. row'[u].status = row[u].status /\ row'[u].marked = row[u].marked
        /\ (row'[u].stale => row[u].stale)
    BY <1>0, <1>00, <2>1 DEF TypeOK, Row
  <2>3. QED
    BY <2>2 DEF Effect, Stays
<1>4. ASSUME NEW x \in Products, CollectResult(w, x)
      PROVE  Effect(u)
  <2>1. PICK ok, failed, retry :
          row' = row \/ row' = [row EXCEPT ![t].ok = ok, ![t].failed = failed, ![t].retry = retry,
                                           ![t].stale = FALSE]
    BY <1>4 DEF CollectResult
  <2>2. pc[w] # "idle"
    BY <1>4 DEF CollectResult
  <2> HIDE DEF t
  <2>3. row' = row \/ row' = [row EXCEPT ![t] = [row[t] EXCEPT !.ok = ok, !.failed = failed,
                                                !.retry = retry, !.stale = FALSE]]
    BY <1>0, <1>00, <2>1, <2>2 DEF TypeOK
  <2> DEFINE f == [row[t] EXCEPT !.ok = ok, !.failed = failed, !.retry = retry, !.stale = FALSE]
  <2>4. f.status = row[t].status /\ f.marked = row[t].marked /\ f.stale = FALSE
    BY <1>00, <2>2 DEF Row
  <2>5. row'[u] = row[u] \/ (u = t /\ row'[u] = f)
    BY <1>0, <1>00, <2>2, <2>3 DEF TypeOK
  <2> HIDE DEF f
  <2>6. QED
    BY <2>4, <2>5 DEF Effect, Stays
<1>5. CASE \E x \in Products : Attempt(w, x)
  <2>1. PICK x \in Products : Attempt(w, x)
    BY <1>5
  <2>2. CASE ~CollectResult(w, x)
    <3>1. row' = row
      BY <2>1, <2>2 DEF Attempt, BeginAttempt, EndAttempt, AttemptRaises, StopAttempt, CollectStopped
    <3>2. QED
      BY <3>1, SameRow
  <2>3. QED
    BY <1>4, <2>2
<1>6. ASSUME Finish(w) \/ Abort(w) \/ Fail(w)
      PROVE  Effect(u)
  <2>1. pc[w] \in RunPC /\ pc[w] # "idle" /\ Leave(w)
    BY <1>6 DEF Finish, Abort, Fail, RunPC
  <2>2. row' = row \/ (Exists(t) /\ \E f : row' = [row EXCEPT ![t] = f] /\ ~f.marked /\ ~f.stale
                       /\ f.status \in {"partial", "failed", "success", "cancelled"})
    <3>1. CASE Finish(w)
      <4> DEFINE f == [NewRow EXCEPT !.status = FinalStatus(w), !.ok = run[w].ok,
                                     !.failed = run[w].failed \ run[w].ok]
      <4>1. row' = row \/ (Exists(t) /\ row' = [row EXCEPT ![t] = f])
        BY <3>1 DEF Finish
      <4>2. ~f.marked /\ ~f.stale /\ f.status \in {"partial", "failed", "success", "cancelled"}
        BY DEF NewRow, FinalStatus
      <4>3. QED
        BY <4>1, <4>2
    <3>2. CASE Abort(w)
      <4> DEFINE f == CancelledRow(t)
      <4>1. row' = row \/ (Exists(t) /\ row' = [row EXCEPT ![t] = f])
        BY <3>2 DEF Abort
      <4>2. ~f.marked /\ ~f.stale /\ f.status = "cancelled"
        BY <1>00, <2>1 DEF CancelledRow, Row
      <4>3. QED
        BY <4>1, <4>2
    <3>3. CASE Fail(w)
      <4> DEFINE ids == ActiveIds(t)
                 ok == row[t].ok \ ids
                 f == [NewRow EXCEPT !.status = IF ok # {} THEN "partial" ELSE "failed",
                                     !.ok = ok, !.failed = ids]
      <4>1. row' = row \/ (Exists(t) /\ row' = [row EXCEPT ![t] = f])
        BY <3>3 DEF Fail
      <4>2. ~f.marked /\ ~f.stale /\ f.status \in {"partial", "failed", "success", "cancelled"}
        BY DEF NewRow
      <4>3. QED
        BY <4>1, <4>2
    <3>4. QED
      BY <1>6, <3>1, <3>2, <3>3
  <2>3. CASE row' = row
    BY <2>3, SameRow
  <2>4. CASE row' # row
    <3>1. u = t => row[u].status = "running" /\ ~LiveRun(u)'
      BY <2>1, <2>2, <2>4, LeaveEnds
    <3> HIDE DEF t
    <3>2. PICK f : /\ row' = [row EXCEPT ![t] = f] /\ ~f.marked /\ ~f.stale
                   /\ f.status \in {"partial", "failed", "success", "cancelled"}
      BY <2>2, <2>4
    <3>3. row'[u] = IF u = t THEN f ELSE row[u]
      BY <1>0, <3>2 DEF TypeOK
    <3>4. CASE u = t
      BY <3>1, <3>2, <3>3, <3>4 DEF Effect, Ends, Becomes
    <3>5. CASE u # t
      BY <3>3, <3>5, SameRow
    <3>6. QED
      BY <3>4, <3>5
  <2>5. QED
    BY <2>3, <2>4
<1>7. QED
  BY <1>1, <1>2, <1>3, <1>5, <1>6 DEF Worker

LEMMA RequestEffect ==
  ASSUME TypedInv, SafeInv, [Next]_vars, NEW a \in Api, Request(a), NEW u \in Tasks
  PROVE  Effect(u)
<1>0. TypeOK /\ a \in Procs /\ a \notin Workers /\ row[u] \in Row /\ Acts(a)
  BY Kinds DEF TypedInv, TypeOK, Acts
<1>00. \A w \in Workers : ~CommitStart(w)
  BY <1>0, ActorStarts
<1>1. CASE Create(a)
  <2>1. PICK t \in Tasks :
          /\ row[t].status = "new"
          /\ row' = [v \in Tasks |-> IF v \in Batch(t) THEN [NewRow EXCEPT !.status = "queued"]
                                     ELSE row[v]]
    BY <1>1 DEF Create
  <2>2. CASE u \in Batch(t)
    <3>1. row[u].status = "new"
      BY <2>1, <2>2 DEF SafeInv, Together
    <3>2. \A v \in Batch(u) : v \in Tasks /\ v \in Batch(t)
      BY <2>2, Batches
    <3>3. \A v \in Batch(u) : Becomes(v, {"queued"})
      BY <2>1, <3>2 DEF Becomes, NewRow
    <3>4. QED
      BY <3>1, <3>3 DEF Effect, Born
  <2>3. CASE u \notin Batch(t)
    BY <2>1, <2>3, SameRow
  <2>4. QED
    BY <2>2, <2>3
<1>2. CASE Cancel(a)
  <2>1. PICK t \in Tasks :
          \/ row[t].status = "queued" /\ row' = [row EXCEPT ![t] = CancelledRow(t)]
          \/ /\ row[t].status = "running"
             /\ row' = [row EXCEPT ![t].marked = TRUE, ![t].stale = @ /\ row[t].marked]
    BY <1>2 DEF Cancel
  <2>2. CASE u # t
    <3>1. row'[u] = row[u]
      BY <1>0, <2>1, <2>2 DEF TypeOK
    <3>2. QED
      BY <3>1, SameRow
  <2>3. CASE u = t /\ row[t].status = "queued" /\ row' = [row EXCEPT ![t] = CancelledRow(t)]
    <3>1. Becomes(u, {"partial", "failed", "success", "cancelled"})
      BY <1>0, <2>3 DEF Becomes, CancelledRow, TypeOK, Row
    <3>2. QED
      BY <1>00, <2>3, <3>1, QueuedIsDead DEF Effect, Ends
  <2>4. CASE /\ u = t /\ row[t].status = "running"
             /\ row' = [row EXCEPT ![t].marked = TRUE, ![t].stale = @ /\ row[t].marked]
    <3>1. row'[u].status = "running" /\ (row'[u].stale => row[u].stale)
      BY <1>0, <2>4 DEF TypeOK, Row
    <3>2. QED
      BY <2>4, <3>1 DEF Effect, Stays
  <2>5. QED
    BY <2>1, <2>2, <2>3, <2>4
<1>3. CASE Retry(a)
  <2>1. PICK R \in SUBSET {t \in Tasks : row[t].status \in {"partial", "failed", "cancelled"}} :
          row' = [t \in Tasks |-> IF t \in R THEN Retried(t) ELSE row[t]]
    BY <1>3 DEF Retry
  <2>2. retries' > retries
    BY <1>0, <1>3, ConstantsAssumption DEF Retry, TypeOK
  <2>3. CASE u \in R
    BY <2>1, <2>2, <2>3 DEF Effect, Returns, Becomes, Retried, NewRow
  <2>4. CASE u \notin R
    BY <2>1, <2>4, SameRow
  <2>5. QED
    BY <2>3, <2>4
<1>4. CASE Delete(a)
  <2>1. PICK t \in Tasks : Exists(t) /\ row' = [row EXCEPT ![t] = [NewRow EXCEPT !.status = "deleted"]]
    BY <1>4 DEF Delete
  <2>2. CASE u = t
    BY <1>0, <2>1, <2>2 DEF Effect, Gone, Becomes, NewRow, TypeOK
  <2>3. CASE u # t
    BY <1>0, <2>1, <2>3, SameRow DEF TypeOK
  <2>4. QED
    BY <2>2, <2>3
<1>5. CASE Poll(a)
  BY <1>5, SameRow DEF Poll
<1>6. QED
  BY <1>1, <1>2, <1>3, <1>4, <1>5 DEF Request

LEMMA RowEffects ==
  ASSUME TypedInv, SafeInv, [Next]_vars, ~LateFailures, NEW u \in Tasks
  PROVE  Effect(u)
<1>0. TypeOK /\ row[u] \in Row
  BY DEF TypedInv, TypeOK
<1>1. ASSUME NEW p \in Workers \cup Api, Dispatch(p)
      PROVE  Effect(u)
  <2>1. p \in Procs
    BY <1>1, Kinds
  <2>2. CASE SelectNext(p) \/ CommitSelectFails(p) \/ Enqueue(p) \/ EndDispatch(p)
    <3>1. row' = row
      BY <2>2 DEF SelectNext, CommitSelectFails, Abandon, Enqueue, EndDispatch
    <3>2. QED
      BY <3>1, SameRow
  <2>3. CASE CommitSelect(p)
    BY <2>1, <2>3, CommitEffect DEF CommitSelect
  <2>4. QED
    BY <1>1, <2>1, <2>2, <2>3, FailEnqueueEffect DEF Dispatch
<1>2. CASE Sweep
  <2>1. CASE CommitSweep
    BY <2>1, Kinds, CommitEffect DEF CommitSweep
  <2>2. CASE CommitSweepFails \/ Enqueue(Runner) \/ \E ripe \in Tasks : ReadSweep(ripe)
    <3>1. row' = row
      BY <2>2 DEF CommitSweepFails, Abandon, Enqueue, ReadSweep
    <3>2. QED
      BY <3>1, SameRow
  <2>3. QED
    BY <1>2, <2>1, <2>2, Kinds, FailEnqueueEffect DEF Sweep
<1>3. ASSUME NEW t \in Tasks, RowGoesStale(t)
      PROVE  Effect(u)
  <2>1. row[t].status = "running" /\ ~LiveRun(t) /\ ~LiveRun(t)'
    BY <1>3 DEF RowGoesStale, LiveRun, Runs, TaskOf, local
  <2>2. row' = [row EXCEPT ![t].stale = TRUE]
    BY <1>3 DEF RowGoesStale
  <2>3. CASE u = t
    <3>1. row'[u].status = row[u].status /\ row'[u].marked = row[u].marked
      BY <1>0, <2>2, <2>3 DEF TypeOK, Row
    <3>2. QED
      BY <2>1, <2>3, <3>1 DEF Effect, Stays
  <2>4. CASE u # t
    BY <1>0, <2>2, <2>4, SameRow DEF TypeOK
  <2>5. QED
    BY <2>3, <2>4
<1>4. CASE UNCHANGED row
  BY <1>4, SameRow
<1>5. CASE Environment \/ UNCHANGED vars
  BY <1>3, <1>4, <1>5 DEF Environment, Crash, JobFails, FailedJobExpires, LoseJob, vars
<1>6. QED
  BY <1>1, <1>2, <1>5, WorkerEffect, RequestEffect DEF Next

-----------------------------------------------------------------------------
(* The safety invariant is kept, one part after the other.                  *)

LEMMA MarksStep ==
  ASSUME TypedInv, SafeInv, [Next]_vars, ~LateFailures
  PROVE  MarksInv'
<1> SUFFICES ASSUME NEW t \in Tasks, row'[t].marked \/ row'[t].stale
             PROVE  row'[t].status = "running"
  BY DEF MarksInv
<1>1. Effect(t) /\ (row[t].marked \/ row[t].stale => row[t].status = "running")
  BY RowEffects DEF SafeInv, MarksInv
<1>2. t \in Batch(t)
  BY DEF Batch
<1>3. QED
  BY <1>1, <1>2 DEF Effect, Stays, Begins, Ends, Returns, Born, Gone, Becomes

(* A task that existed only in name is not in a worker's hands.             *)
LEMMA WorkersKnown ==
  ASSUME TypedInv, SafeInv, NEW w \in Workers, pc[w] # "idle"
  PROVE  TaskOf(w) \in Tasks /\ row[TaskOf(w)].status # "new"
BY WorkerTask DEF TypedInv, SafeInv, JobsKnown, TaskOf

LEMMA RunningRowsStep ==
  ASSUME TypedInv, SafeInv, [Next]_vars, ~LateFailures
  PROVE  RunningRows'
<1> SUFFICES ASSUME NEW w \in Workers, pc'[w] \in RunPC, NEW t \in Tasks, TaskOf(w)' = t,
                    row'[t].status \notin {"new", "deleted"}
             PROVE  row'[t].status = "running" /\ ~row'[t].stale
  <2>1. \A w \in Workers : pc'[w] \in RunPC => TaskOf(w)' \in Tasks
    BY RunsBegin
  <2>2. QED
    BY <2>1 DEF RunningRows, Exists
<1>0. t \in Batch(t)
  BY DEF Batch
<1>1. TaskOf(w) = t /\ (pc[w] \in RunPC \/ Begun(w)) /\ LiveRun(t)'
  BY RunsBegin DEF LiveRun, Runs
<1>2. CASE Begun(w)
  <2>1. CommitStart(w) /\ plan[w][t] = "start" /\ row[t] \in Row
    BY <1>1, <1>2 DEF Begun, TypedInv, TypeOK
  <2>2. row'[t] = Started(t)
    BY <2>1 DEF CommitStart, CommitPlan, Written
  <2>3. QED
    BY <2>1, <2>2 DEF Started, Row
<1>3. CASE pc[w] \in RunPC
  <2>1. row[t].status # "new"
    BY <1>1, <1>3, WorkersKnown DEF RunPC
  <2>2. Exists(t) => row[t].status = "running" /\ ~row[t].stale
    BY <1>1, <1>3 DEF SafeInv, RunningRows
  <2>3. Effect(t) /\ LiveRun(t)
    BY <1>1, <1>3, RowEffects DEF LiveRun, Runs
  <2>4. Exists(t)
    BY <1>0, <2>1, <2>3 DEF Effect, Stays, Begins, Ends, Returns, Born, Gone, Becomes, Exists
  <2>5. Stays(t)
    BY <1>0, <1>1, <2>2, <2>3, <2>4 DEF Effect, Begins, Ends, Returns, Born, Gone, Becomes, Exists
  <2>6. QED
    BY <2>2, <2>3, <2>4, <2>5 DEF Stays
<1>4. QED
  BY <1>1, <1>2, <1>3

LEMMA OneRunnerStep ==
  ASSUME TypedInv, SafeInv, [Next]_vars, ~LateFailures
  PROVE  OneRunner'
<1> SUFFICES ASSUME NEW v \in Workers, NEW w \in Workers, pc'[v] \in RunPC, pc'[w] \in RunPC,
                    NEW t \in Tasks, TaskOf(v)' = t, TaskOf(w)' = t,
                    row'[t].status \notin {"new", "deleted"}
             PROVE  v = w
  <2>1. \A w \in Workers : pc'[w] \in RunPC => TaskOf(w)' \in Tasks
    BY RunsBegin
  <2>2. QED
    BY <2>1 DEF OneRunner, Exists
<1>0. TypeOK /\ t \in Batch(t) /\ Procs = Workers \cup Api \cup {Runner}
  BY DEF Batch, TypedInv, Procs
<1>1. /\ TaskOf(v) = t /\ (pc[v] \in RunPC \/ Begun(v))
      /\ TaskOf(w) = t /\ (pc[w] \in RunPC \/ Begun(w))
  BY RunsBegin
<1>2. ASSUME NEW a \in Workers, Begun(a), TaskOf(a) = t
      PROVE  row[t].status = "queued" /\ \A b \in Workers : Begun(b) => b = a
  <2>1. row[t].status = "queued"
    BY <1>2, Kinds DEF Begun, SafeInv, PlansSafe
  <2>2. Acts(a)
    BY <1>2 DEF Begun, Acts, Worker
  <2>3. QED
    BY <1>0, <2>1, <2>2, ActorStarts, Kinds DEF Begun
<1>3. CASE pc[v] \in RunPC /\ pc[w] \in RunPC
  <2>1. row[t].status # "new"
    BY <1>1, <1>3, WorkersKnown DEF RunPC
  <2>2. Effect(t)
    BY RowEffects
  <2>3. Exists(t)
    BY <1>0, <2>1, <2>2 DEF Effect, Stays, Begins, Ends, Returns, Born, Gone, Becomes, Exists
  <2>4. QED
    BY <1>1, <1>3, <2>3 DEF SafeInv, OneRunner
<1>4. ASSUME NEW a \in Workers, pc[a] \in RunPC, TaskOf(a) = t, row[t].status = "queued"
      PROVE  FALSE
  BY <1>4 DEF SafeInv, RunningRows, Exists
<1>5. QED
  BY <1>1, <1>2, <1>3, <1>4

LEMMA NewStaysNew ==
  ASSUME TypedInv, SafeInv, [Next]_vars, ~LateFailures, NEW t \in Tasks, row'[t].status = "new"
  PROVE  row[t].status = "new" /\ Stays(t)
<1>1. Effect(t) /\ t \in Batch(t)
  BY RowEffects DEF Batch
<1>2. QED
  BY <1>1 DEF Effect, Stays, Begins, Ends, Returns, Born, Gone, Becomes

LEMMA TogetherStep ==
  ASSUME TypedInv, SafeInv, [Next]_vars, ~LateFailures
  PROVE  Together'
<1>1. ASSUME NEW t \in Tasks, NEW u \in Batch(t), row'[t].status = "new"
      PROVE  row'[u].status = "new"
  <2>1. u \in Tasks /\ t \in Batch(u) /\ row[u].status = "new" /\ Effect(u)
    BY <1>1, Batches, NewStaysNew, RowEffects DEF SafeInv, Together
  <2>2. ~Born(u)
    BY <1>1, <2>1 DEF Born, Becomes
  <2>3. QED
    BY <2>1, <2>2 DEF Effect, Stays, Begins, Ends, Returns, Gone, Exists
<1>2. \A t \in Tasks : \A u \in Batch(t) : u \in Tasks /\ t \in Batch(u)
  BY Batches
<1>3. QED
  BY <1>1, <1>2 DEF Together, Batch, GroupMates

LEMMA TodoStep ==
  ASSUME TypedInv, SafeInv, [Next]_vars, ~LateFailures
  PROVE  TodoKnown'
<1> SUFFICES ASSUME NEW p \in Procs, NEW t \in todo'[p]
             PROVE  row'[t].status # "new"
  BY DEF TodoKnown
<1>0. TypeOK /\ todo[p] \subseteq Tasks
  BY DEF TypedInv, TypeOK
<1>1. ASSUME t \in Tasks, row[t].status # "new"
      PROVE  row'[t].status # "new"
  BY <1>1, NewStaysNew
<1>2. ASSUME t \in todo[p]
      PROVE  row'[t].status # "new"
  BY <1>0, <1>1, <1>2 DEF SafeInv, TodoKnown
<1>3. ASSUME Dispatch(p)
      PROVE  row'[t].status # "new"
  <2>1. CASE SelectNext(p)
    <3>1. PICK held : todo' = [todo EXCEPT ![p] = Picks(held)]
      BY <2>1 DEF SelectNext
    <3>2. t \in Picks(held)
      BY <1>0, <3>1 DEF TypeOK
    <3>3. t \in Tasks /\ row[t].status = "queued"
      BY <3>2 DEF Picks
    <3>4. QED
      BY <1>1, <3>3
  <2>2. CASE ~SelectNext(p)
    <3>1. todo'[p] \subseteq todo[p]
      BY <1>0, <1>3, <2>2 DEF Dispatch, CommitSelect, CommitSelectFails, Enqueue, EnqueueFails,
         EndDispatch, TypeOK
    <3>2. QED
      BY <1>2, <3>1
  <2>3. QED
    BY <2>1, <2>2
<1>4. ASSUME NEW ripe \in Tasks, ReadSweep(ripe), p = Runner
      PROVE  row'[t].status # "new"
  <2> DEFINE missing == {u \in 1..ripe : row[u].status = "queued" /\ HasNoJob(u)}
  <2>1. todo' = [todo EXCEPT ![Runner] = {u \in missing : ~row[u].marked}]
    BY <1>4 DEF ReadSweep
  <2>2. t \in missing
    BY <1>0, <1>4, <2>1 DEF TypeOK
  <2>3. t \in Tasks /\ row[t].status = "queued"
    BY <2>2, ConstantsAssumption DEF Tasks
  <2>4. QED
    BY <1>1, <2>3
<1>5. CASE UNCHANGED todo
  BY <1>2, <1>5
<1>6. ASSUME Acts(p)
      PROVE  row'[t].status # "new"
  <2>1. CASE p \in Workers /\ Worker(p)
    <3>1. UNCHANGED todo
      BY <2>1 DEF Worker, TakeJob, NotStarted, ReadStart, CommitStart, CommitStartFails, NoticeCancel,
         OpenStore, StoreUnavailable, Attempt, BeginAttempt, EndAttempt, AttemptRaises, StopAttempt,
         CollectResult, CollectStopped, StoreStopped, StoreDone, Finish, Abort, RunRaises, Fail, local
    <3>2. QED
      BY <1>5, <3>1
  <2>2. CASE p \in Api /\ Request(p)
    BY <1>5, <2>2 DEF Request, Create, Cancel, Retry, Delete, Poll, local
  <2>3. CASE p = Runner /\ Sweep
    <3>1. CASE CommitSweep \/ CommitSweepFails
      BY <1>5, <3>1 DEF CommitSweep, CommitSweepFails
    <3>2. QED
      BY <1>3, <1>4, <2>3, <3>1 DEF Sweep, Dispatch
  <2>4. CASE Crash(p)
    BY <1>0, <2>4 DEF Crash, TypeOK
  <2>5. QED
    BY <1>3, <1>6, <2>1, <2>2, <2>3, <2>4 DEF Acts
<1>7. ASSUME NEW q \in Procs, Acts(q), q # p
      PROVE  row'[t].status # "new"
  BY <1>0, <1>2, <1>7, OthersKept
<1>8. CASE Ambient
  BY <1>5, <1>8, AmbientKeeps
<1>9. QED
  BY <1>6, <1>7, <1>8, StepCases

LEMMA JobsKnownStep ==
  ASSUME TypedInv, SafeInv, [Next]_vars, ~LateFailures
  PROVE  JobsKnown'
<1> SUFFICES ASSUME NEW j \in Jobs, jobs'[j].state # "none"
             PROVE  row'[jobs'[j].task].status # "new"
  BY DEF JobsKnown
<1>0. TypeOK /\ HoldInv /\ jobs[j] \in Job /\ \A q \in Procs : todo[q] \subseteq Tasks
  BY DEF TypedInv, TypeOK
<1>1. ASSUME jobs[j].state # "none", jobs'[j].task = jobs[j].task
      PROVE  row'[jobs'[j].task].status # "new"
  <2>1. jobs[j].task \in Tasks /\ row[jobs[j].task].status # "new"
    BY <1>0, <1>1 DEF HoldInv, JobsNamed, SafeInv, JobsKnown
  <2>2. QED
    BY <1>1, <2>1, NewStaysNew
<1>2. ASSUME NEW t \in Tasks, row[t].status # "new", jobs'[j].task = t
      PROVE  row'[jobs'[j].task].status # "new"
  BY <1>2, NewStaysNew
<1>3. ASSUME NEW p \in Procs, Enqueue(p) \/ EnqueueFails(p)
      PROVE  row'[jobs'[j].task].status # "new"
  <2> DEFINE t == First(todo[p])
  <2>1. todo[p] # {}
    BY <1>3 DEF Enqueue, EnqueueFails
  <2>2. t \in Tasks /\ row[t].status # "new"
    BY <1>0, <2>1, FirstIn DEF SafeInv, TodoKnown
  <2>3. PICK i \in Jobs : jobs' \in {jobs, [jobs EXCEPT ![i] = [state |-> "queued", task |-> t]]}
    BY <1>3 DEF Enqueue, EnqueueFails
  <2> HIDE DEF t
  <2>4. jobs'[j] = jobs[j] \/ jobs'[j] = [state |-> "queued", task |-> t]
    BY <1>0, <2>3 DEF TypeOK
  <2>5. QED
    BY <1>1, <1>2, <2>2, <2>4
<1>4. ASSUME jobs' = jobs
      PROVE  row'[jobs'[j].task].status # "new"
  BY <1>1, <1>4
<1>5. ASSUME NEW p \in Procs, Dispatch(p)
      PROVE  row'[jobs'[j].task].status # "new"
  <2>1. CASE SelectNext(p) \/ CommitSelect(p) \/ CommitSelectFails(p)
    BY <1>4, <2>1 DEF SelectNext, CommitSelect, CommitSelectFails
  <2>2. CASE EndDispatch(p)
    <3>1. jobs' = jobs \/ jobs' = [jobs EXCEPT ![hold[p]] = GoneJob]
      BY <2>2 DEF EndDispatch, Done
    <3>2. jobs'[j] = jobs[j] \/ jobs'[j] = GoneJob
      BY <1>0, <3>1 DEF TypeOK
    <3>3. QED
      BY <1>1, <3>2 DEF GoneJob
  <2>3. QED
    BY <1>3, <1>5, <2>1, <2>2 DEF Dispatch
<1>6. ASSUME NEW w \in Workers, Worker(w)
      PROVE  row'[jobs'[j].task].status # "new"
  <2>1. CASE TakeJob(w)
    <3>1. PICK i \in Jobs : jobs[i].state = "queued" /\ jobs' = [jobs EXCEPT ![i].state = "started"]
      BY <2>1 DEF TakeJob
    <3>2. jobs[j].state # "none" /\ jobs'[j].task = jobs[j].task
      BY <1>0, <3>1 DEF TypeOK, Job
    <3>3. QED
      BY <1>1, <3>2
  <2>2. CASE ~TakeJob(w)
    <3>1. jobs' = jobs
      BY <1>6, <2>2 DEF Worker, NotStarted, ReadStart, CommitStart, CommitStartFails, NoticeCancel,
         OpenStore, StoreUnavailable, Attempt, BeginAttempt, EndAttempt, AttemptRaises, StopAttempt,
         CollectResult, CollectStopped, StoreStopped, StoreDone, Finish, Abort, RunRaises, Fail, local
    <3>2. QED
      BY <1>4, <3>1
  <2>3. QED
    BY <2>1, <2>2
<1>7. CASE \E a \in Api : Request(a)
  BY <1>4, <1>7 DEF Request, Create, Cancel, Retry, Delete, Poll
<1>8. CASE Sweep
  <2>1. CASE CommitSweep \/ CommitSweepFails \/ \E ripe \in Tasks : ReadSweep(ripe)
    BY <1>4, <2>1 DEF CommitSweep, CommitSweepFails, ReadSweep
  <2>2. QED
    BY <1>3, <1>8, <2>1, Kinds DEF Sweep
<1>9. ASSUME NEW i \in Jobs, JobFails(i) \/ FailedJobExpires(i) \/ LoseJob(i)
      PROVE  row'[jobs'[j].task].status # "new"
  <2>1. \/ jobs[j].state # "none" /\ jobs'[j].task = jobs[j].task
        \/ jobs'[j] = GoneJob \/ jobs'[j] = jobs[j]
    BY <1>0, <1>9 DEF JobFails, FailedJobExpires, LoseJob, TypeOK, Job
  <2>2. QED
    BY <1>1, <2>1 DEF GoneJob
<1>10. CASE UNCHANGED vars \/ (\E p \in Procs : Crash(p)) \/ \E t \in Tasks : RowGoesStale(t)
  BY <1>4, <1>10 DEF Crash, RowGoesStale, vars
<1>11. QED
  BY <1>5, <1>6, <1>7, <1>8, <1>9, <1>10, Kinds DEF Next, Environment

(* A process has plans after a step of its own only if it has just read     *)
(* them, or is enqueueing inside its transaction.                           *)
LEMMA OwnPlan ==
  ASSUME TypeOK, OpenPlans, NEW p \in Procs, Acts(p), NEW t \in Tasks, plan'[p][t] # "none"
  PROVE  \/ SelectNext(p)
         \/ p \in Workers /\ ReadStart(p)
         \/ p = Runner /\ \E ripe \in Tasks : ReadSweep(ripe)
         \/ Enqueue(p) /\ pc[p] = "sweep"
<1>1. ASSUME plan'[p] = NoPlan
      PROVE  FALSE
  BY <1>1, Kinds
<1>2. ASSUME plan'[p] = plan[p], pc[p] \notin TxnPC
      PROVE  FALSE
  BY <1>2 DEF OpenPlans
<1>3. CASE Dispatch(p)
  <2>1. ~CommitSelect(p) /\ ~CommitSelectFails(p) /\ ~EnqueueFails(p)
    BY <1>1 DEF CommitSelect, CommitSelectFails, EnqueueFails, CommitPlan, Abandon, TypeOK
  <2>2. ~EndDispatch(p)
    BY <1>2 DEF EndDispatch, TxnPC
  <2>3. Enqueue(p) => pc[p] = "sweep"
    BY <1>2 DEF Enqueue, TxnPC
  <2>4. QED
    BY <1>3, <2>1, <2>2, <2>3 DEF Dispatch
<1>4. CASE p \in Workers /\ Worker(p)
  <2>1. ~CommitStart(p) /\ ~CommitStartFails(p)
    BY <1>1 DEF CommitStart, CommitStartFails, CommitPlan, Abandon, TypeOK
  <2>2. ~TakeJob(p) /\ ~NotStarted(p) /\ ~NoticeCancel(p) /\ ~OpenStore(p) /\ ~StoreUnavailable(p)
    BY <1>2 DEF TakeJob, NotStarted, NoticeCancel, OpenStore, StoreUnavailable, local, TxnPC
  <2>3. ~StoreStopped(p) /\ ~StoreDone(p) /\ ~Finish(p) /\ ~Abort(p) /\ ~RunRaises(p) /\ ~Fail(p)
    BY <1>2 DEF StoreStopped, StoreDone, Finish, Abort, RunRaises, Fail, TxnPC
  <2>4. \A x \in Products : ~Attempt(p, x)
    BY <1>2 DEF Attempt, BeginAttempt, EndAttempt, AttemptRaises, StopAttempt, CollectResult,
       CollectStopped, TxnPC
  <2>5. QED
    BY <1>4, <2>1, <2>2, <2>3, <2>4 DEF Worker
<1>5. CASE p \in Api /\ Request(p)
  <2>1. pc[p] = "idle" /\ plan' = plan
    BY <1>5 DEF Request, Create, Cancel, Retry, Delete, Poll, local
  <2>2. QED
    BY <1>2, <2>1 DEF TxnPC
<1>6. CASE p = Runner /\ Sweep
  <2>1. ~CommitSweep /\ ~CommitSweepFails
    BY <1>1, <1>6 DEF CommitSweep, CommitSweepFails, CommitPlan, Abandon, TypeOK
  <2>2. Enqueue(p) \/ EnqueueFails(p) => Dispatch(p)
    BY DEF Dispatch
  <2>3. QED
    BY <1>3, <1>6, <2>1, <2>2 DEF Sweep
<1>7. CASE Crash(p)
  BY <1>1, <1>7 DEF Crash, TypeOK
<1>8. QED
  BY <1>3, <1>4, <1>5, <1>6, <1>7 DEF Acts

LEMMA OpenPlansStep ==
  ASSUME TypedInv, SafeInv, [Next]_vars
  PROVE  OpenPlans'
<1> SUFFICES ASSUME NEW p \in Procs, NEW t \in Tasks, plan'[p][t] # "none"
             PROVE  pc'[p] \in TxnPC
  BY DEF OpenPlans
<1>0. TypeOK /\ OpenPlans
  BY DEF TypedInv, SafeInv
<1>1. CASE Acts(p)
  <2>1. CASE SelectNext(p) \/ (p \in Workers /\ ReadStart(p))
             \/ (p = Runner /\ \E ripe \in Tasks : ReadSweep(ripe))
    BY <1>0, <2>1 DEF SelectNext, ReadStart, ReadSweep, Goto, TypeOK, TxnPC
  <2>2. CASE Enqueue(p) /\ pc[p] = "sweep"
    BY <2>2 DEF Enqueue, TxnPC
  <2>3. QED
    BY <1>0, <1>1, <2>1, <2>2, OwnPlan
<1>2. CASE plan'[p] = plan[p] /\ pc'[p] = pc[p]
  BY <1>0, <1>2 DEF OpenPlans
<1>3. QED
  BY <1>0, <1>1, <1>2, OthersKept, AmbientKeeps, StepCases

(* A transaction begins when no other is open.                              *)
LEMMA EntersAlone ==
  ASSUME TypeOK, Serial, NEW p \in Procs, Acts(p), pc[p] \notin TxnPC, pc'[p] \in TxnPC
  PROVE  \A q \in Procs : q # p => pc[q] \notin TxnPC
<1>1. CASE Dispatch(p)
  BY <1>1 DEF Dispatch, SelectNext, CommitSelect, CommitSelectFails, Enqueue, EnqueueFails,
     EndDispatch, Done, Goto, Turn, TypeOK, TxnPC
<1>2. CASE p \in Workers /\ Worker(p)
  <2>1. CASE ReadStart(p)
    BY <2>1 DEF ReadStart, Turn
  <2>2. CASE TakeJob(p) \/ NotStarted(p) \/ CommitStart(p) \/ CommitStartFails(p) \/ NoticeCancel(p)
             \/ OpenStore(p) \/ StoreUnavailable(p) \/ StoreStopped(p) \/ StoreDone(p)
    BY <2>2 DEF TakeJob, NotStarted, CommitStart, CommitStartFails, NoticeCancel, OpenStore,
       StoreUnavailable, StoreStopped, StoreDone, Goto, TypeOK, TxnPC
  <2>3. CASE Finish(p) \/ Abort(p) \/ RunRaises(p) \/ Fail(p) \/ \E x \in Products : Attempt(p, x)
    BY <2>3 DEF Finish, Abort, RunRaises, Fail, Leave, Attempt, BeginAttempt, EndAttempt,
       AttemptRaises, StopAttempt, CollectResult, CollectStopped, Goto, TypeOK, TxnPC
  <2>4. QED
    BY <1>2, <2>1, <2>2, <2>3 DEF Worker
<1>3. CASE p \in Api /\ Request(p)
  BY <1>3 DEF Request, Create, Cancel, Retry, Delete, Poll, Goto, TypeOK, TxnPC
<1>4. CASE p = Runner /\ Sweep
  <2>1. CASE Enqueue(p) \/ EnqueueFails(p)
    BY <1>1, <2>1 DEF Dispatch
  <2>2. CASE CommitSweep \/ CommitSweepFails
    BY <1>4, <2>2 DEF CommitSweep, CommitSweepFails, Goto, TypeOK, TxnPC
  <2>3. CASE \E ripe \in Tasks : ReadSweep(ripe)
    BY <1>4, <2>3 DEF ReadSweep, Turn
  <2>4. QED
    BY <1>4, <2>1, <2>2, <2>3 DEF Sweep
<1>5. CASE Crash(p)
  BY <1>5 DEF Crash, Goto, TypeOK, TxnPC
<1>6. QED
  BY <1>1, <1>2, <1>3, <1>4, <1>5 DEF Acts

LEMMA OneTxnStep ==
  ASSUME TypedInv, SafeInv, [Next]_vars, Serial
  PROVE  OneTxn'
<1> SUFFICES ASSUME NEW p \in Procs, NEW q \in Procs, pc'[p] \in TxnPC, pc'[q] \in TxnPC, p # q
             PROVE  FALSE
  BY DEF OneTxn
<1>0. TypeOK /\ OneTxn
  BY DEF TypedInv, SafeInv
<1>1. ASSUME NEW a \in Procs, Acts(a), NEW b \in Procs, a # b, pc'[a] \in TxnPC, pc'[b] \in TxnPC
      PROVE  FALSE
  <2>1. pc[b] \in TxnPC
    BY <1>0, <1>1, OthersKept
  <2>2. pc[a] \notin TxnPC
    BY <1>0, <1>1, <2>1 DEF OneTxn
  <2>3. QED
    BY <1>0, <1>1, <2>1, <2>2, EntersAlone
<1>2. CASE Ambient
  BY <1>0, <1>2, AmbientKeeps DEF OneTxn
<1>3. ASSUME NEW a \in Procs, Acts(a)
      PROVE  FALSE
  <2>1. CASE a # p /\ a # q
    BY <1>0, <1>3, <2>1, OthersKept DEF OneTxn
  <2>2. QED
    BY <1>1, <1>3, <2>1
<1>4. QED
  BY <1>2, <1>3, StepCases

(* Rows are written by the open transaction, or when none is open.          *)
LEMMA WritesAlone ==
  ASSUME TypeOK, Serial, NEW p \in Procs, Acts(p), row' # row, pc[p] \notin TxnPC
  PROVE  \A q \in Procs : q # p => pc[q] \notin TxnPC
<1>1. Turn(p) => \A q \in Procs : q # p => pc[q] \notin TxnPC
  BY DEF Turn
<1>2. CASE Dispatch(p)
  BY <1>1, <1>2 DEF Dispatch, SelectNext, CommitSelect, CommitSelectFails, Abandon, Enqueue,
     EnqueueFails, EndDispatch, TxnPC
<1>3. CASE p \in Workers /\ Worker(p)
  <2>1. ~TakeJob(p) /\ ~NotStarted(p) /\ ~ReadStart(p) /\ ~CommitStart(p) /\ ~CommitStartFails(p)
    BY DEF TakeJob, NotStarted, ReadStart, CommitStart, CommitStartFails, TxnPC
  <2>2. ~NoticeCancel(p) /\ ~OpenStore(p) /\ ~StoreStopped(p) /\ ~StoreDone(p) /\ ~RunRaises(p)
    BY DEF NoticeCancel, OpenStore, StoreStopped, StoreDone, RunRaises
  <2>3. StoreUnavailable(p) \/ Finish(p) \/ Abort(p) \/ Fail(p) => Turn(p)
    BY DEF StoreUnavailable, Finish, Abort, Fail
  <2>4. \A x \in Products : Attempt(p, x) => Turn(p)
    BY DEF Attempt, BeginAttempt, EndAttempt, AttemptRaises, StopAttempt, CollectResult,
       CollectStopped
  <2>5. QED
    BY <1>1, <1>3, <2>1, <2>2, <2>3, <2>4 DEF Worker
<1>4. CASE p \in Api /\ Request(p)
  BY <1>1, <1>4 DEF Request, Create, Cancel, Retry, Delete, Poll
<1>5. CASE p = Runner /\ Sweep
  BY <1>1, <1>5 DEF Sweep, ReadSweep, Enqueue, EnqueueFails, CommitSweep, CommitSweepFails, TxnPC
<1>6. CASE Crash(p)
  BY <1>6 DEF Crash
<1>7. QED
  BY <1>2, <1>3, <1>4, <1>5, <1>6 DEF Acts

(* What the reconcilers may plan suits the rows they have read.             *)
LEMMA UpkeepSafe ==
  ASSUME TypedInv, SafeInv, NEW up \in Upkeep, NEW t \in Tasks, up[t] # "none"
  PROVE  up[t] \in {"cancel", "interrupt"} /\ row[t].status = "running" /\ ~LiveRun(t)
<1>1. up[t] \in UpkeepWrites(t)
  BY DEF Upkeep
<1>2. up[t] \in {"cancel", "interrupt"} /\ row[t].status = "running"
  BY <1>1 DEF UpkeepWrites
<1>3. ASSUME NEW w \in Workers, pc[w] \in RunPC, TaskOf(w) = t
      PROVE  FALSE
  <2>1. HasJob(t, {"started"})
    BY <1>3, WorkerTask DEF TypedInv, TaskOf, HasJob, RunPC
  <2>2. HasLiveJob(t) /\ ~HasNoJob(t) /\ ~HasFailedJob(t)
    BY <2>1 DEF HasJob, HasLiveJob, HasNoJob, HasFailedJob
  <2>3. ~row[t].stale
    BY <1>2, <1>3 DEF SafeInv, RunningRows, Exists
  <2>4. QED
    BY <1>1, <1>2, <2>2, <2>3 DEF UpkeepWrites
<1>4. QED
  BY <1>2, <1>3 DEF LiveRun, Runs

(* Where the plans after a step come from: they were there and no status    *)
(* has changed since, or they have just been made from the rows.            *)
LEMMA PlanOrigin ==
  ASSUME TypedInv, SafeInv, [Next]_vars, Serial, NEW p \in Procs, NEW t \in Tasks,
         plan'[p][t] # "none"
  PROVE  /\ \A u \in Tasks : row'[u].status = row[u].status
         /\ \A w \in Workers : ~CommitStart(w)
         /\ \/ plan'[p] = plan[p] /\ pc'[p] = pc[p]
            \/ \E up \in Upkeep : plan'[p][t] = up[t]
            \/ /\ plan'[p][t] = "start" /\ p \in Workers /\ pc'[p] = "begun" /\ TaskOf(p) = t
               /\ TaskOf(p)' = t /\ row[t].status = "queued" /\ MayStart(t)
<1>0. TypeOK /\ HoldInv /\ OneTxn /\ OpenPlans
  BY DEF TypedInv, SafeInv
<1>1. CASE Ambient
  <2>1. ASSUME NEW u \in Tasks
        PROVE  row'[u].status = row[u].status
    <3>1. row' = row \/ \E s \in Tasks : row' = [row EXCEPT ![s].stale = TRUE]
      BY <1>1 DEF Ambient, JobFails, FailedJobExpires, LoseJob, RowGoesStale, vars
    <3>2. row[u] \in Row
      BY <1>0 DEF TypeOK
    <3>3. ASSUME NEW s \in Tasks, row' = [row EXCEPT ![s].stale = TRUE]
          PROVE  row'[u].status = row[u].status
      <4>1. row'[u] = row[u] \/ row'[u] = [row[u] EXCEPT !.stale = TRUE]
        BY <1>0, <3>3 DEF TypeOK
      <4>2. QED
        BY <3>2, <4>1 DEF Row
    <3>4. QED
      BY <3>1, <3>3
  <2>2. QED
    BY <1>0, <1>1, <2>1, ActorStarts, AmbientKeeps
<1>2. ASSUME NEW q \in Procs, Acts(q), q # p
      PROVE  /\ row' = row /\ \A w \in Workers : ~CommitStart(w)
             /\ plan'[p] = plan[p] /\ pc'[p] = pc[p]
  <2>1. plan'[p] = plan[p] /\ pc'[p] = pc[p]
    BY <1>0, <1>2, OthersKept
  <2>2. pc[p] \in TxnPC /\ pc[q] \notin TxnPC
    BY <1>0, <1>2, <2>1 DEF OpenPlans, OneTxn
  <2>3. row' = row
    BY <1>0, <1>2, <2>2, WritesAlone
  <2>4. \A w \in Workers : ~CommitStart(w)
    BY <1>0, <1>2, <2>2, ActorStarts DEF CommitStart, TxnPC
  <2>5. QED
    BY <2>1, <2>3, <2>4
<1>3. CASE Acts(p)
  <2>1. ~(row[t].status = "queued" /\ row[t].marked)
    BY DEF SafeInv, MarksInv
  <2>2. ASSUME pc[p] # "begun"
        PROVE  \A w \in Workers : ~CommitStart(w)
    BY <1>0, <1>3, <2>2, ActorStarts DEF CommitStart
  <2>3. CASE SelectNext(p)
    <3>1. PICK up \in Upkeep : plan' = [plan EXCEPT ![p] = [u \in Tasks |->
                  IF row[u].status = "queued" /\ row[u].marked THEN "cancel" ELSE up[u]]]
      BY <2>3 DEF SelectNext
    <3>2. plan'[p][t] = up[t] /\ row' = row /\ pc[p] = "dispatch"
      BY <1>0, <2>1, <2>3, <3>1 DEF TypeOK, SelectNext
    <3>3. QED
      BY <2>2, <3>2
  <2>4. CASE p = Runner /\ \E ripe \in Tasks : ReadSweep(ripe)
    <3>1. PICK ripe \in Tasks : ReadSweep(ripe)
      BY <2>4
    <3> DEFINE missing == {u \in 1..ripe : row[u].status = "queued" /\ HasNoJob(u)}
    <3>2. PICK up \in Upkeep :
            plan' = [plan EXCEPT ![Runner] = [u \in Tasks |->
                        IF u \in missing /\ row[u].marked THEN "cancel" ELSE up[u]]]
      BY <3>1 DEF ReadSweep
    <3>3. ~(t \in missing /\ row[t].marked)
      BY <2>1
    <3> HIDE DEF missing
    <3>4. plan'[p][t] = up[t] /\ row' = row /\ pc[p] = "idle"
      BY <1>0, <2>4, <3>1, <3>2, <3>3 DEF TypeOK, ReadSweep
    <3>5. QED
      BY <2>2, <3>4
  <2>5. CASE p \in Workers /\ ReadStart(p)
    <3>1. PICK up \in Upkeep :
            \/ MayStart(TaskOf(p)) /\ plan' = [plan EXCEPT ![p] = [up EXCEPT ![TaskOf(p)] = "start"]]
            \/ plan' = [plan EXCEPT ![p] = up]
      BY <2>5 DEF ReadStart
    <3>2. /\ up \in [Tasks -> Writes] /\ TaskOf(p) \in Tasks /\ row' = row /\ pc[p] = "begin"
          /\ pc'[p] = "begun" /\ row[TaskOf(p)].status = "queued" /\ TaskOf(p)' = TaskOf(p)
      BY <1>0, <2>5, PlanTyped, WorkerTask DEF ReadStart, Goto, Startable, TypeOK, TaskOf
    <3>3. \/ plan'[p][t] = "start" /\ t = TaskOf(p) /\ MayStart(TaskOf(p))
          \/ plan'[p][t] = up[t]
      BY <1>0, <3>1, <3>2 DEF TypeOK
    <3>4. QED
      BY <2>2, <2>5, <3>2, <3>3
  <2>6. CASE Enqueue(p) /\ pc[p] = "sweep"
    BY <2>2, <2>6 DEF Enqueue
  <2>7. QED
    BY <1>0, <1>3, <2>3, <2>4, <2>5, <2>6, OwnPlan
<1>4. QED
  BY <1>1, <1>2, <1>3, StepCases

LEMMA PlansSafeStep ==
  ASSUME TypedInv, SafeInv, [Next]_vars, Serial
  PROVE  PlansSafe'
<1> SUFFICES ASSUME NEW p \in Procs, NEW t \in Tasks, plan'[p][t] # "none"
             PROVE  /\ plan'[p][t] = "start" =>
                         /\ p \in Workers /\ pc'[p] = "begun" /\ TaskOf(p)' = t
                         /\ row'[t].status = "queued"
                    /\ plan'[p][t] \in {"cancel", "interrupt"} =>
                         row'[t].status = "running" /\ ~LiveRun(t)'
  BY DEF PlansSafe
<1>1. row'[t].status = row[t].status /\ \A w \in Workers : ~CommitStart(w)
  BY PlanOrigin
<1>2. row[t].status = "running" /\ ~LiveRun(t) => ~LiveRun(t)'
  BY <1>1, DeadAfter
<1>3. CASE plan'[p] = plan[p] /\ pc'[p] = pc[p]
  <2>1. CASE plan[p][t] = "start"
    <3>1. p \in Workers /\ pc[p] = "begun" /\ TaskOf(p) = t /\ row[t].status = "queued"
      BY <2>1 DEF SafeInv, PlansSafe
    <3>2. TaskOf(p)' = t
      BY <1>3, <3>1, TaskKept DEF TypedInv
    <3>3. QED
      BY <1>1, <1>3, <2>1, <3>1, <3>2
  <2>2. CASE plan[p][t] # "start"
    BY <1>1, <1>2, <1>3, <2>2 DEF SafeInv, PlansSafe
  <2>3. QED
    BY <2>1, <2>2
<1>4. ASSUME NEW up \in Upkeep, plan'[p][t] = up[t]
      PROVE  plan'[p][t] \in {"cancel", "interrupt"} /\ row'[t].status = "running" /\ ~LiveRun(t)'
  BY <1>1, <1>2, <1>4, UpkeepSafe
<1>5. QED
  BY <1>1, <1>3, <1>4, PlanOrigin

LEMMA SafeInit == Init => SafeInv /\ PayloadInv
<1> SUFFICES ASSUME Init
             PROVE  SafeInv /\ PayloadInv
  OBVIOUS
<1>1. /\ \A t \in Tasks : row[t] = NewRow
      /\ \A p \in Procs : pc[p] = "idle" /\ plan[p] = NoPlan /\ todo[p] = {} /\ att[p] = NoAtt
      /\ \A j \in Jobs : jobs[j].state = "none"
  BY DEF Init, GoneJob
<1>2. OneTxn /\ OpenPlans /\ PlansSafe
  BY <1>1, Kinds DEF OneTxn, OpenPlans, PlansSafe, TxnPC
<1>3. MarksInv /\ RunningRows /\ OneRunner
  BY <1>1, Kinds DEF MarksInv, RunningRows, OneRunner, NewRow, RunPC
<1>4. JobsKnown /\ TodoKnown /\ Together
  BY <1>1 DEF JobsKnown, TodoKnown, Together, Batch, GroupMates
<1>5. RowsInside /\ RunsInside /\ AttsInside
  BY <1>1, Kinds DEF RowsInside, RunsInside, AttsInside, Inside, NewRow, TryPC
<1>6. QED
  BY <1>2, <1>3, <1>4, <1>5 DEF SafeInv, PayloadInv

LEMMA SafeStep ==
  ASSUME TypedInv, SafeInv, [Next]_vars, Serial, ~LateFailures
  PROVE  SafeInv'
BY OneTxnStep, OpenPlansStep, PlansSafeStep, MarksStep, RunningRowsStep, OneRunnerStep, JobsKnownStep,
   TodoStep, TogetherStep DEF SafeInv

LEMMA SafeAlways ==
  ASSUME Serial, ~LateFailures
  PROVE  Spec => [](TypedInv /\ SafeInv /\ PayloadInv)
<1>1. Init => TypedInv /\ SafeInv /\ PayloadInv
  BY TypedInit, SafeInit
<1>2. TypedInv /\ SafeInv /\ PayloadInv /\ [Next]_vars => (TypedInv /\ SafeInv /\ PayloadInv)'
  BY TypedStep, SafeStep, PayloadStep
<1>3. QED
  BY <1>1, <1>2, PTL DEF Spec

(* request_task_cancel: with the long transactions one after the other and  *)
(* no enqueue that fails after the fact, a cancelled task stays cancelled   *)
(* until it is retried or deleted, for every number of tasks and workers.   *)
THEOREM CancellationLasts ==
  ASSUME Serial, ~LateFailures
  PROVE  Spec => CancelSticks
<1>1. ASSUME TypedInv, SafeInv, [Next]_vars, NEW t \in Tasks,
             row[t].status = "cancelled", row'[t].status # "cancelled"
      PROVE  \/ row'[t].status = "deleted"
             \/ row'[t].status = "queued" /\ retries' > retries
  BY <1>1, RowEffects DEF Effect, Stays, Begins, Ends, Returns, Born, Gone, Becomes
<1>2. TypedInv /\ SafeInv /\ [Next]_vars => [StaysCancelled]_vars
  BY <1>1 DEF StaysCancelled
<1>3. QED
  BY <1>2, SafeAlways, PTL DEF Spec, CancelSticks

-----------------------------------------------------------------------------
(* The running tasks beside each other.  With one task per user (or store), *)
(* those that share one belong to one group.                                *)
Mates(a, b) == GroupOf[a] # NoGroup /\ GroupOf[b] = GroupOf[a] /\ OwnerOf[b] = OwnerOf[a]
OwnersApart == UserLimit = 1 =>
  \A a, b \in Running : a # b /\ OwnerOf[a] = OwnerOf[b] => Mates(a, b)
StoresApart == StoreLimit = 1 =>
  \A a, b \in Running : a # b /\ StoreSet(a) \cap StoreSet(b) # {} => Mates(a, b)
GroupsFit == \A a \in Running :
  GroupOf[a] # NoGroup => Cardinality(GroupMates(Running, a)) < GroupLimit
GlobalFits == Cardinality(Running) <= GlobalLimit
StartsFit == \A p \in Procs : \A t \in Tasks : plan[p][t] = "start" => MayStart(t)
LimitInv == StartsFit /\ OwnersApart /\ StoresApart /\ GroupsFit /\ GlobalFits

LEMMA TasksFinite ==
  ASSUME NEW A, A \subseteq Tasks
  PROVE  IsFiniteSet(A) /\ Cardinality(A) \in Nat
<1>1. IsFiniteSet(Tasks)
  BY FS_Interval, ConstantsAssumption DEF Tasks
<1>2. QED
  BY <1>1, FS_Subset, FS_CardinalityType

LEMMA NoneBelowOne ==
  ASSUME NEW A, A \subseteq Tasks, Cardinality(A) < 1
  PROVE  A = {}
<1>1. Cardinality(A) \in Nat /\ IsFiniteSet(A)
  BY TasksFinite
<1>2. Cardinality(A) = 0
  BY <1>1
<1>3. QED
  BY <1>1, <1>2, FS_EmptySet

LEMMA ApartFromRunning ==
  ASSUME NEW t \in Tasks, FitsBesideGroup(Running, t), NEW u \in Running, u # t
  PROVE  /\ UserLimit = 1 /\ OwnerOf[u] = OwnerOf[t] => Mates(t, u)
         /\ StoreLimit = 1 /\ StoreSet(u) \cap StoreSet(t) # {} => Mates(t, u)
<1> DEFINE others == (Running \ {t}) \ GroupMates(Running, t)
<1>1. Mates(t, u) \/ u \in others
  BY DEF GroupMates, Mates
<1>2. ASSUME UserLimit = 1, OwnerOf[u] = OwnerOf[t]
      PROVE  Mates(t, u)
  <2>1. Cardinality({v \in others : OwnerOf[v] = OwnerOf[t]}) < 1
    BY <1>2 DEF FitsBesideGroup
  <2>2. {v \in others : OwnerOf[v] = OwnerOf[t]} \subseteq Tasks
    BY DEF Running
  <2>3. {v \in others : OwnerOf[v] = OwnerOf[t]} = {}
    BY <2>1, <2>2, NoneBelowOne
  <2>4. QED
    BY <1>1, <1>2, <2>3
<1>3. ASSUME StoreLimit = 1, StoreSet(u) \cap StoreSet(t) # {}
      PROVE  Mates(t, u)
  <2>1. Cardinality({v \in others : StoreSet(v) \cap StoreSet(t) # {}}) < 1
    BY <1>3 DEF FitsBesideGroup
  <2>2. {v \in others : StoreSet(v) \cap StoreSet(t) # {}} \subseteq Tasks
    BY DEF Running
  <2>3. {v \in others : StoreSet(v) \cap StoreSet(t) # {}} = {}
    BY <2>1, <2>2, NoneBelowOne
  <2>4. QED
    BY <1>1, <1>3, <2>3
<1>4. QED
  BY <1>2, <1>3

LEMMA StartsFitStep ==
  ASSUME TypedInv, SafeInv, [Next]_vars, Serial, StartsFit
  PROVE  StartsFit'
<1> SUFFICES ASSUME NEW p \in Procs, NEW t \in Tasks, plan'[p][t] = "start"
             PROVE  MayStart(t)'
  BY DEF StartsFit
<1>1. \A u \in Tasks : row'[u].status = row[u].status
  BY PlanOrigin
<1>2. Running' = Running
  BY <1>1 DEF Running
<1>3. MayStart(t)
  <2>1. CASE plan'[p] = plan[p]
    BY <2>1 DEF StartsFit
  <2>2. ASSUME NEW up \in Upkeep, plan'[p][t] = up[t]
        PROVE  FALSE
    BY <2>2, UpkeepSafe
  <2>3. QED
    BY <2>1, <2>2, PlanOrigin
<1>4. QED
  BY <1>2, <1>3 DEF MayStart, Fits, FitsBesideGroup, GroupMates

(* One task at most begins to run, and it fits.                             *)
LEMMA OneBegins ==
  ASSUME TypedInv, SafeInv, [Next]_vars, ~LateFailures, StartsFit
  PROVE  \/ Running' \subseteq Running
         \/ \E t \in Tasks \ Running : MayStart(t) /\ Running' \subseteq Running \cup {t}
<1>1. ASSUME NEW t \in Running', t \notin Running
      PROVE  \E w \in Workers : Begun(w) /\ TaskOf(w) = t
  <2>1. t \in Tasks /\ row'[t].status = "running" /\ row[t].status # "running"
    BY <1>1 DEF Running
  <2>2. Effect(t) /\ t \in Batch(t)
    BY <2>1, RowEffects DEF Batch
  <2>3. QED
    BY <2>1, <2>2 DEF Effect, Stays, Begins, Ends, Returns, Born, Gone, Becomes
<1>2. ASSUME NEW w \in Workers, Begun(w)
      PROVE  Acts(w) /\ \A v \in Workers : Begun(v) => v = w
  <2>1. Acts(w)
    BY <1>2 DEF Begun, Acts, Worker
  <2>2. QED
    BY <2>1, ActorStarts, Kinds DEF Begun, TypedInv
<1>3. ASSUME NEW t \in Running', t \notin Running
      PROVE  /\ t \in Tasks \ Running /\ MayStart(t) /\ Running' \subseteq Running \cup {t}
  <2>1. PICK w \in Workers : Begun(w) /\ TaskOf(w) = t
    BY <1>1, <1>3
  <2>2. \A u \in Running' : u \notin Running => u = t
    BY <1>1, <1>2, <2>1
  <2>3. t \in Tasks
    BY <1>3 DEF Running
  <2>4. MayStart(t)
    BY <2>1, <2>3, Kinds DEF Begun, StartsFit
  <2>5. QED
    BY <1>3, <2>2, <2>3, <2>4
<1>4. QED
  BY <1>3

LEMMA GroupsFitAfter ==
  ASSUME NEW A, A \subseteq Tasks, NEW t \in Tasks \ A, NEW B, B \subseteq A \cup {t},
         Fits(A, t), NEW a \in B, GroupOf[a] # NoGroup,
         a \in A => Cardinality(GroupMates(A, a)) < GroupLimit
  PROVE  Cardinality(GroupMates(B, a)) < GroupLimit
<1> DEFINE C(b) == GroupMates(B, b)
           D(b) == GroupMates(A, b)
<1>0. /\ GroupLimit \in Nat
      /\ \A S \in SUBSET Tasks : IsFiniteSet(S) /\ Cardinality(S) \in Nat
  BY TasksFinite, ConstantsAssumption
<1>1. C(a) \in SUBSET Tasks /\ D(a) \in SUBSET Tasks /\ D(t) \in SUBSET Tasks
  BY DEF GroupMates
<1>2. CASE a = t
  <2>1. C(t) \subseteq D(t)
    BY DEF GroupMates
  <2>2. Cardinality(D(t)) < GroupLimit
    BY <1>2 DEF Fits
  <2> HIDE DEF C, D
  <2>3. Cardinality(C(t)) <= Cardinality(D(t))
    BY <1>0, <1>1, <2>1, FS_Subset
  <2>4. Cardinality(C(a)) < GroupLimit
    BY <1>0, <1>1, <1>2, <2>2, <2>3
  <2>5. QED
    BY <2>4 DEF C
<1>3. CASE a \in A /\ a \notin D(t)
  <2>1. C(a) \subseteq D(a)
    BY <1>3 DEF GroupMates
  <2> HIDE DEF C, D
  <2>2. Cardinality(C(a)) <= Cardinality(D(a))
    BY <1>0, <1>1, <2>1, FS_Subset
  <2>3. Cardinality(D(a)) < GroupLimit
    BY <1>3 DEF D
  <2>4. Cardinality(C(a)) < GroupLimit
    BY <1>0, <1>1, <2>2, <2>3
  <2>5. QED
    BY <2>4 DEF C
<1>4. CASE a \in A /\ a \in D(t)
  <2>1. C(a) \subseteq (D(t) \ {a}) \cup {t} /\ t \notin D(t)
    BY <1>4 DEF GroupMates
  <2>2. Cardinality(D(t)) < GroupLimit
    BY <1>4 DEF Fits, GroupMates
  <2> HIDE DEF C, D
  <2>3. /\ IsFiniteSet(D(t) \ {a})
        /\ Cardinality(D(t) \ {a}) = Cardinality(D(t)) - 1
    BY <1>0, <1>1, <1>4, FS_RemoveElement
  <2>4. /\ IsFiniteSet((D(t) \ {a}) \cup {t})
        /\ Cardinality((D(t) \ {a}) \cup {t}) = Cardinality(D(t) \ {a}) + 1
    BY <2>1, <2>3, FS_AddElement
  <2>5. Cardinality(C(a)) <= Cardinality((D(t) \ {a}) \cup {t})
    BY <2>1, <2>4, FS_Subset
  <2>6. Cardinality(C(a)) < GroupLimit
    BY <1>0, <1>1, <2>2, <2>3, <2>4, <2>5
  <2>7. QED
    BY <2>6 DEF C
<1>5. QED
  BY <1>2, <1>3, <1>4

LEMMA LimitStep ==
  ASSUME TypedInv, SafeInv, [Next]_vars, Serial, ~LateFailures, LimitInv
  PROVE  LimitInv'
<1>0. /\ StartsFit /\ Running \subseteq Tasks /\ Running' \subseteq Tasks
      /\ GlobalLimit \in Nat /\ GroupLimit \in Nat
  BY ConstantsAssumption DEF LimitInv, Running
<1>1. StartsFit'
  BY <1>0, StartsFitStep
<1>2. CASE Running' \subseteq Running
  <2>1. OwnersApart' /\ StoresApart'
    BY <1>2 DEF LimitInv, OwnersApart, StoresApart
  <2>2. Cardinality(Running') <= Cardinality(Running)
    BY <1>0, <1>2, TasksFinite, FS_Subset
  <2>3. GlobalFits'
    BY <1>0, <2>2, TasksFinite DEF LimitInv, GlobalFits
  <2>4. ASSUME NEW a \in Running', GroupOf[a] # NoGroup
        PROVE  Cardinality(GroupMates(Running', a)) < GroupLimit
    <3>1. /\ GroupMates(Running', a) \subseteq GroupMates(Running, a)
          /\ GroupMates(Running, a) \subseteq Tasks /\ GroupMates(Running', a) \subseteq Tasks
      BY <1>0, <1>2 DEF GroupMates
    <3>2. Cardinality(GroupMates(Running', a)) <= Cardinality(GroupMates(Running, a))
      BY <3>1, TasksFinite, FS_Subset
    <3>3. Cardinality(GroupMates(Running, a)) < GroupLimit
      BY <1>2, <2>4 DEF LimitInv, GroupsFit
    <3>4. QED
      BY <1>0, <3>1, <3>2, <3>3, TasksFinite
  <2>5. GroupsFit'
    BY <2>4 DEF GroupsFit, GroupMates
  <2>6. QED
    BY <1>1, <2>1, <2>3, <2>5 DEF LimitInv
<1>3. ASSUME NEW t \in Tasks \ Running, MayStart(t), Running' \subseteq Running \cup {t}
      PROVE  LimitInv'
  <2>1. Fits(Running, t) /\ Cardinality(Running) < GlobalLimit
    BY <1>3 DEF MayStart
  <2>2. ASSUME NEW u \in Running
        PROVE  /\ UserLimit = 1 /\ OwnerOf[u] = OwnerOf[t] => Mates(t, u)
               /\ StoreLimit = 1 /\ StoreSet(u) \cap StoreSet(t) # {} => Mates(t, u)
    <3>1. FitsBesideGroup(Running, t) /\ u # t
      BY <1>3, <2>1 DEF Fits
    <3>2. QED
      BY <3>1, ApartFromRunning
  <2>3. \A a, b \in Running' : a # b => \/ a \in Running /\ b \in Running
                                        \/ a = t /\ b \in Running
                                        \/ a \in Running /\ b = t
    BY <1>3
  <2>4. OwnersApart'
    BY <2>2, <2>3 DEF LimitInv, OwnersApart, Mates
  <2>5. StoresApart'
    BY <2>2, <2>3 DEF LimitInv, StoresApart, Mates
  <2>6. GlobalFits'
    <3>1. /\ IsFiniteSet(Running \cup {t})
          /\ Cardinality(Running \cup {t}) = Cardinality(Running) + 1
      BY <1>0, <1>3, TasksFinite, FS_AddElement
    <3>2. Cardinality(Running') <= Cardinality(Running \cup {t})
      BY <1>3, <3>1, FS_Subset
    <3>3. QED
      BY <1>0, <2>1, <3>1, <3>2, TasksFinite DEF GlobalFits
  <2>7. ASSUME NEW a \in Running', GroupOf[a] # NoGroup
        PROVE  Cardinality(GroupMates(Running', a)) < GroupLimit
    BY <1>0, <1>3, <2>1, <2>7, GroupsFitAfter DEF LimitInv, GroupsFit
  <2>8. GroupsFit'
    BY <2>7 DEF GroupsFit, GroupMates
  <2>9. QED
    BY <1>1, <2>4, <2>5, <2>6, <2>8 DEF LimitInv
<1>4. QED
  BY <1>0, <1>2, <1>3, OneBegins

LEMMA LimitInit == Init => LimitInv
<1> SUFFICES ASSUME Init
             PROVE  LimitInv
  OBVIOUS
<1>1. Running = {}
  BY DEF Init, Running, NewRow
<1>2. Cardinality(Running) = 0
  BY <1>1, FS_EmptySet
<1>3. GlobalFits
  BY <1>2, ConstantsAssumption DEF GlobalFits
<1>4. StartsFit
  BY Kinds DEF Init, StartsFit
<1>5. QED
  BY <1>1, <1>3, <1>4 DEF LimitInv, OwnersApart, StoresApart, GroupsFit

LEMMA LimitAlways ==
  ASSUME Serial, ~LateFailures
  PROVE  Spec => [](TypedInv /\ SafeInv /\ PayloadInv /\ LimitInv)
<1>1. LimitInv /\ TypedInv /\ SafeInv /\ [Next]_vars => LimitInv'
  BY LimitStep
<1>2. QED
  BY <1>1, LimitInit, SafeAlways, PTL DEF Spec

(* listing_task_start_wait_reason: with one task per user and per store, as *)
(* is the default, the running tasks fit next to each other and next to     *)
(* those of their group, whatever was enqueued in excess of the limits.     *)
THEOREM RunningTasksFit ==
  ASSUME Serial, ~LateFailures, UserLimit = 1, StoreLimit = 1
  PROVE  Spec => []RunningFits
<1>1. ASSUME LimitInv, NEW t \in Running
      PROVE  Fits(Running, t)
  <2> DEFINE others == (Running \ {t}) \ GroupMates(Running, t)
  <2>1. \A u \in others : OwnerOf[u] # OwnerOf[t] /\ StoreSet(u) \cap StoreSet(t) = {}
    BY <1>1 DEF LimitInv, OwnersApart, StoresApart, Mates, GroupMates
  <2>2. /\ {u \in others : OwnerOf[u] = OwnerOf[t]} = {}
        /\ {u \in others : StoreSet(u) \cap StoreSet(t) # {}} = {}
    BY <2>1
  <2>3. FitsBesideGroup(Running, t)
    BY <2>2, FS_EmptySet DEF FitsBesideGroup
  <2>4. QED
    BY <1>1, <2>3 DEF Fits, LimitInv, GroupsFit
<1>2. LimitInv => RunningFits
  BY <1>1 DEF RunningFits, LimitInv, GlobalFits
<1>3. QED
  BY <1>2, LimitAlways, PTL

(* run_listing_product_attempt: if a product is listed by tasks of one      *)
(* owner only, and by one task of a group, no two workers list it at the    *)
(* same time, for every number of tasks, products, stores and workers and   *)
(* whatever crashes, is cancelled or is retried.                            *)
THEOREM ProductHasOneLister ==
  ASSUME Serial, ~LateFailures, UserLimit = 1,
         \A t, u \in Tasks : t # u /\ ProductsOf[t] \cap ProductsOf[u] # {} =>
           /\ OwnerOf[t] = OwnerOf[u]
           /\ GroupOf[t] = NoGroup \/ GroupOf[t] # GroupOf[u]
  PROVE  Spec => []OneLister
<1>1. ASSUME TypedInv, SafeInv, PayloadInv, LimitInv, NEW v \in Workers, NEW w \in Workers,
             NEW x \in Products, Lists(v, x), Lists(w, x)
      PROVE  v = w
  <2>1. ASSUME NEW a \in Workers, Lists(a, x)
        PROVE  /\ pc[a] = "attempt" /\ x \in ProductsOf[TaskOf(a)] /\ Exists(TaskOf(a))
               /\ TaskOf(a) \in Running
    <3>1. pc[a] = "attempt" /\ x \in ProductsOf[TaskOf(a)] /\ Exists(TaskOf(a))
      BY <1>1, <2>1 DEF Lists, Open, PayloadInv, AttsInside
    <3>2. TaskOf(a) \in Tasks
      BY <1>1, <3>1, WorkerTask DEF TypedInv
    <3>3. row[TaskOf(a)].status = "running"
      BY <1>1, <3>1 DEF SafeInv, RunningRows, RunPC
    <3>4. QED
      BY <3>1, <3>2, <3>3 DEF Running
  <2>2. /\ pc[v] = "attempt" /\ pc[w] = "attempt" /\ Exists(TaskOf(v))
        /\ TaskOf(v) \in Running /\ TaskOf(w) \in Running
        /\ ProductsOf[TaskOf(v)] \cap ProductsOf[TaskOf(w)] # {}
    BY <1>1, <2>1
  <2>3. CASE TaskOf(v) = TaskOf(w)
    BY <1>1, <2>2, <2>3 DEF SafeInv, OneRunner, RunPC
  <2>4. CASE TaskOf(v) # TaskOf(w)
    BY <1>1, <2>2, <2>4 DEF LimitInv, OwnersApart, Mates, Running
  <2>5. QED
    BY <2>3, <2>4
<1>2. TypedInv /\ SafeInv /\ PayloadInv /\ LimitInv => OneLister
  BY <1>1 DEF OneLister
<1>3. QED
  BY <1>2, LimitAlways, PTL

-----------------------------------------------------------------------------
(* What counts as a success of a task is listed in one of its stores, in    *)
(* its row, in the run of a worker and as the result of an attempt.         *)
ListedOf(t) == {x \in ProductsOf[t] : listed[x] \cap StoreSet(t) # {}}
RowsListed == \A t \in Tasks : row[t].ok \subseteq ListedOf(t)
RunsListed == \A w \in Workers : pc[w] \in TryPC => run[w].ok \subseteq ListedOf(TaskOf(w))
AttsListed == \A w \in Workers : \A x \in Products :
                att[w][x] = "done" => CurrentStore(w) \in listed[x]
ListedInv == RowsListed /\ RunsListed /\ AttsListed

LEMMA ListedGrows ==
  ASSUME TypeOK, [Next]_vars
  PROVE  /\ \A x \in Products : listed[x] \subseteq listed'[x]
         /\ \A t \in Tasks : ListedOf(t) \subseteq ListedOf(t)'
<1> DEFINE Grows == \A x \in Products : listed[x] \subseteq listed'[x]
<1>1. ASSUME NEW w \in Workers, NEW x \in Products, EndAttempt(w, x)
      PROVE  Grows
  BY <1>1 DEF EndAttempt, TypeOK
<1>2. ASSUME UNCHANGED listed
      PROVE  Grows
  BY <1>2
<1>3. ASSUME NEW p \in Procs, Dispatch(p)
      PROVE  UNCHANGED listed
  BY <1>3 DEF Dispatch, SelectNext, CommitSelect, CommitSelectFails, Enqueue, EnqueueFails, EndDispatch
<1>4. ASSUME NEW w \in Workers, Worker(w)
      PROVE  UNCHANGED listed \/ \E x \in Products : EndAttempt(w, x)
  <2>1. ASSUME NEW x \in Products, Attempt(w, x)
        PROVE  UNCHANGED listed \/ EndAttempt(w, x)
    BY <2>1 DEF Attempt, BeginAttempt, AttemptRaises, StopAttempt, CollectResult, CollectStopped
  <2>2. CASE ~\E x \in Products : Attempt(w, x)
    BY <1>4, <2>2 DEF Worker, TakeJob, NotStarted, ReadStart, CommitStart, CommitStartFails, NoticeCancel,
       OpenStore, StoreUnavailable, StoreStopped, StoreDone, Finish, Abort, RunRaises, Fail, local
  <2>3. QED
    BY <2>1, <2>2
<1>5. ASSUME NEW a \in Api, Request(a)
      PROVE  UNCHANGED listed
  BY <1>5 DEF Request, Create, Cancel, Retry, Delete, Poll, local
<1>6. ASSUME Sweep
      PROVE  Grows
  BY <1>2, <1>3, <1>6, Kinds DEF Sweep, ReadSweep, CommitSweep, CommitSweepFails, Dispatch
<1>7. ASSUME NEW p \in Procs, Crash(p)
      PROVE  Grows
  BY <1>2, <1>7, Kinds DEF Crash
<1>8. ASSUME Ambient
      PROVE  Grows
  BY <1>2, <1>8, AmbientKeeps
<1>9. Grows
  <2>1. ASSUME NEW p \in Procs, Acts(p)
        PROVE  Grows
    BY <1>1, <1>2, <1>3, <1>4, <1>5, <1>6, <1>7, <2>1 DEF Acts
  <2>2. QED
    BY <1>8, <2>1, StepCases
<1>10. QED
  BY <1>9, Kinds DEF ListedOf

(* The row of a task takes over successes from the worker that runs it.     *)
Reports(w, t) ==
  /\ pc[w] \in TryPC /\ TaskOf(w) = t /\ TaskOf(w)' = t
  /\ row'[t].ok \subseteq run'[w].ok \cup run[w].ok
  /\ \/ pc'[w] \in TryPC
     \/ row'[t].ok \subseteq run[w].ok

LEMMA SuccessesMove ==
  ASSUME TypedInv, [Next]_vars, NEW t \in Tasks
  PROVE  row'[t].ok \subseteq row[t].ok \/ \E w \in Workers : Reports(w, t)
<1> DEFINE Kept == row'[t].ok \subseteq row[t].ok
<1>0. TypeOK /\ HoldInv /\ row[t] \in Row
  BY DEF TypedInv, TypeOK
<1>1. ASSUME NEW p \in Procs, CommitPlan(p)
      PROVE  Kept
  <2>1. plan[p] \in [Tasks -> Writes] /\ row'[t] = Written(t, plan[p][t])
    BY <1>0, <1>1 DEF CommitPlan, TypeOK
  <2>2. Started(t).ok = row[t].ok /\ CancelledRow(t).ok = row[t].ok /\ Interrupted(t).ok = row[t].ok
    BY <1>0 DEF Started, CancelledRow, Interrupted, Row
  <2>3. QED
    BY <2>1, <2>2 DEF Written
<1>2. ASSUME NEW u \in Tasks, NEW f, f.ok \subseteq row[u].ok, row' = row \/ row' = [row EXCEPT ![u] = f]
      PROVE  Kept
  BY <1>0, <1>2 DEF TypeOK
<1>3. ASSUME NEW u \in Tasks, NEW s, NEW m, NEW o,
             row' = row \/ row' = [row EXCEPT ![u] = [row[u] EXCEPT !.status = s, !.marked = m, !.stale = o]]
      PROVE  Kept
  <2>1. [row[u] EXCEPT !.status = s, !.marked = m, !.stale = o].ok = row[u].ok
    BY <1>0 DEF TypeOK, Row
  <2>2. QED
    BY <1>2, <1>3, <2>1
<1>4. ASSUME NEW p \in Procs, EnqueueFails(p)
      PROVE  Kept
  <2> DEFINE u == First(todo[p])
  <2>1. u \in Tasks
    BY <1>0, <1>4, FirstIn DEF EnqueueFails, TypeOK
  <2>2. row' = row \/ row' = [row EXCEPT ![u].status = "failed", ![u].marked = FALSE, ![u].stale = FALSE]
    BY <1>4 DEF EnqueueFails
  <2> HIDE DEF u
  <2>3. row' = row \/ row' = [row EXCEPT ![u] = [row[u] EXCEPT !.status = "failed", !.marked = FALSE,
                                                               !.stale = FALSE]]
    BY <1>0, <2>1, <2>2 DEF TypeOK
  <2>4. QED
    BY <1>3, <2>1, <2>3
<1>5. ASSUME NEW p \in Procs, Dispatch(p)
      PROVE  Kept
  <2>1. CASE SelectNext(p) \/ CommitSelectFails(p) \/ Enqueue(p) \/ EndDispatch(p)
    BY <2>1 DEF SelectNext, CommitSelectFails, Abandon, Enqueue, EndDispatch
  <2>2. QED
    BY <1>1, <1>4, <1>5, <2>1 DEF Dispatch, CommitSelect
<1>6. ASSUME NEW w \in Workers, Worker(w)
      PROVE  Kept \/ Reports(w, t)
  <2>0. w \in Procs /\ run[w] \in Run
    BY <1>0, Kinds DEF TypeOK
  <2>1. CASE TakeJob(w) \/ NotStarted(w) \/ ReadStart(w) \/ CommitStartFails(w) \/ NoticeCancel(w)
             \/ OpenStore(w) \/ StoreStopped(w) \/ StoreDone(w) \/ RunRaises(w)
    BY <2>1 DEF TakeJob, NotStarted, ReadStart, CommitStartFails, Abandon, NoticeCancel, OpenStore,
       StoreStopped, StoreDone, RunRaises
  <2>2. CASE CommitStart(w)
    BY <1>1, <2>0, <2>2 DEF CommitStart
  <2>3. ASSUME pc[w] # "idle"
        PROVE  TaskOf(w) \in Tasks /\ row[TaskOf(w)] \in Row
    BY <1>0, <2>3, WorkerTask DEF TypeOK
  <2>4. CASE StoreUnavailable(w)
    <3> DEFINE u == TaskOf(w)
    <3>1. u \in Tasks /\ row[u] \in Row /\ row' = [row EXCEPT ![u].stale = FALSE]
      BY <2>3, <2>4 DEF StoreUnavailable
    <3> HIDE DEF u
    <3>2. row' = [row EXCEPT ![u] = [row[u] EXCEPT !.stale = FALSE]]
      BY <1>0, <3>1 DEF TypeOK
    <3>3. [row[u] EXCEPT !.stale = FALSE].ok = row[u].ok
      BY <3>1 DEF Row
    <3>4. QED
      BY <1>2, <3>1, <3>2, <3>3
  <2>5. ASSUME NEW x \in Products, CollectResult(w, x)
        PROVE  Kept \/ Reports(w, t)
    <3> DEFINE u == TaskOf(w)
               good == Succeeded(w, x)
               ok == IF good THEN run[w].ok \cup {x} ELSE run[w].ok
               failed == IF good THEN run[w].failed \ {x} ELSE run[w].failed \cup {x}
    <3>1. /\ row' = IF ~Exists(u) THEN row
                    ELSE [row EXCEPT ![u].ok = ok, ![u].failed = failed \ ok,
                                     ![u].retry = run[w].retry, ![u].stale = FALSE]
          /\ pc[w] = "attempt" /\ pc' = pc /\ UNCHANGED <<jobs, hold>>
      BY <2>5 DEF CollectResult
    <3>2. run' = [run EXCEPT ![w].ok = ok, ![w].failed = failed, ![w].lost = @ \/ ~good,
                             ![w].stopping = CancelSeen(u)]
      BY <2>5 DEF CollectResult
    <3>3. u \in Tasks /\ TaskOf(w)' = u /\ row[u] \in Row
      BY <2>3, <3>1 DEF TaskOf
    <3>4. u = TaskOf(w)
      OBVIOUS
    <3> HIDE DEF u, ok, failed, good
    <3>5. run'[w].ok = ok
      BY <1>0, <2>0, <3>2 DEF TypeOK, Run
    <3>6. row' = row \/ row' = [row EXCEPT ![u] = [row[u] EXCEPT !.ok = ok, !.failed = failed \ ok,
                                                     !.retry = run[w].retry, !.stale = FALSE]]
      BY <1>0, <3>1, <3>3 DEF TypeOK
    <3>7. [row[u] EXCEPT !.ok = ok, !.failed = failed \ ok, !.retry = run[w].retry, !.stale = FALSE].ok = ok
      BY <3>3 DEF Row
    <3>8. Kept \/ (t = u /\ row'[t].ok = ok)
      BY <1>0, <3>3, <3>6, <3>7 DEF TypeOK
    <3>9. t = u /\ row'[t].ok = ok => Reports(w, t)
      BY <3>1, <3>5, <3>3, <3>4 DEF Reports, TryPC
    <3>10. QED
      BY <3>8, <3>9
  <2>6. CASE \E x \in Products : Attempt(w, x)
    <3>1. PICK x \in Products : Attempt(w, x)
      BY <2>6
    <3>2. CASE ~CollectResult(w, x)
      BY <3>1, <3>2 DEF Attempt, BeginAttempt, EndAttempt, AttemptRaises, StopAttempt, CollectStopped
    <3>3. QED
      BY <2>5, <3>2
  <2>7. CASE Finish(w)
    <3> DEFINE f == [NewRow EXCEPT !.status = FinalStatus(w), !.ok = run[w].ok,
                                   !.failed = run[w].failed \ run[w].ok]
    <3>1. /\ row' = row \/ row' = [row EXCEPT ![TaskOf(w)] = f]
          /\ pc[w] = "store" /\ UNCHANGED <<jobs, hold>>
      BY <2>7 DEF Finish
    <3>2. f.ok = run[w].ok
      BY DEF NewRow
    <3>3. TaskOf(w) \in Tasks /\ TaskOf(w)' = TaskOf(w)
      BY <2>3, <3>1 DEF TaskOf
    <3> HIDE DEF f
    <3>4. Kept \/ (t = TaskOf(w) /\ row'[t].ok = run[w].ok)
      BY <1>0, <3>1, <3>2, <3>3 DEF TypeOK
    <3>5. QED
      BY <3>1, <3>3, <3>4 DEF Reports, TryPC
  <2>8. CASE Abort(w)
    <3>1. TaskOf(w) \in Tasks /\ row[TaskOf(w)] \in Row
      BY <2>3, <2>8 DEF Abort
    <3>2. row' = row \/ row' = [row EXCEPT ![TaskOf(w)] = CancelledRow(TaskOf(w))]
      BY <2>8 DEF Abort
    <3>3. CancelledRow(TaskOf(w)).ok = row[TaskOf(w)].ok
      BY <3>1 DEF CancelledRow, Row
    <3>4. QED
      BY <1>2, <3>1, <3>2, <3>3
  <2>9. CASE Fail(w)
    <3> DEFINE ids == ActiveIds(TaskOf(w))
               ok == row[TaskOf(w)].ok \ ids
               f == [NewRow EXCEPT !.status = IF ok # {} THEN "partial" ELSE "failed",
                                   !.ok = ok, !.failed = ids]
    <3>1. TaskOf(w) \in Tasks
      BY <2>3, <2>9 DEF Fail
    <3>2. row' = row \/ row' = [row EXCEPT ![TaskOf(w)] = f]
      BY <2>9 DEF Fail
    <3>3. f.ok = ok /\ ok \subseteq row[TaskOf(w)].ok
      BY DEF NewRow
    <3> HIDE DEF f, ok
    <3>4. QED
      BY <1>2, <3>1, <3>2, <3>3
  <2>10. QED
    BY <1>6, <2>1, <2>2, <2>4, <2>6, <2>7, <2>8, <2>9 DEF Worker
<1>7. ASSUME NEW a \in Api, Request(a)
      PROVE  Kept
  <2>1. CASE Create(a)
    <3>1. PICK u \in Tasks :
            row' = [v \in Tasks |-> IF v \in Batch(u) THEN [NewRow EXCEPT !.status = "queued"]
                                    ELSE row[v]]
      BY <2>1 DEF Create
    <3>2. QED
      BY <3>1 DEF NewRow
  <2>2. CASE Cancel(a)
    <3>1. PICK u \in Tasks :
            \/ row' = [row EXCEPT ![u] = CancelledRow(u)]
            \/ row' = [row EXCEPT ![u].marked = TRUE, ![u].stale = @ /\ row[u].marked]
      BY <2>2 DEF Cancel
    <3>2. \/ row' = [row EXCEPT ![u] = CancelledRow(u)]
          \/ row' = [row EXCEPT ![u] = [row[u] EXCEPT !.marked = TRUE, !.stale = @ /\ row[u].marked]]
      BY <1>0, <3>1 DEF TypeOK
    <3>3. /\ CancelledRow(u).ok = row[u].ok
          /\ [row[u] EXCEPT !.marked = TRUE, !.stale = @ /\ row[u].marked].ok = row[u].ok
      BY <1>0 DEF CancelledRow, TypeOK, Row
    <3>4. QED
      BY <1>2, <3>2, <3>3
  <2>3. CASE Retry(a)
    <3>1. PICK R \in SUBSET Tasks : row' = [u \in Tasks |-> IF u \in R THEN Retried(u) ELSE row[u]]
      BY <2>3 DEF Retry
    <3>2. Retried(t).ok \subseteq row[t].ok
      BY DEF Retried, NewRow
    <3>3. QED
      BY <3>1, <3>2
  <2>4. CASE Delete(a)
    <3>1. PICK u \in Tasks : row' = [row EXCEPT ![u] = [NewRow EXCEPT !.status = "deleted"]]
      BY <2>4 DEF Delete
    <3>2. [NewRow EXCEPT !.status = "deleted"].ok = {}
      BY DEF NewRow
    <3>3. QED
      BY <1>2, <3>1, <3>2
  <2>5. CASE Poll(a)
    BY <2>5 DEF Poll
  <2>6. QED
    BY <1>7, <2>1, <2>2, <2>3, <2>4, <2>5 DEF Request
<1>8. CASE Sweep
  <2>1. CASE CommitSweep
    BY <1>1, <2>1, Kinds DEF CommitSweep
  <2>2. CASE CommitSweepFails \/ Enqueue(Runner) \/ \E ripe \in Tasks : ReadSweep(ripe)
    BY <2>2 DEF CommitSweepFails, Abandon, Enqueue, ReadSweep
  <2>3. QED
    BY <1>4, <1>8, <2>1, <2>2, Kinds DEF Sweep
<1>9. ASSUME NEW u \in Tasks, RowGoesStale(u)
      PROVE  Kept
  <2>1. row' = [row EXCEPT ![u] = [row[u] EXCEPT !.stale = TRUE]]
    BY <1>0, <1>9 DEF RowGoesStale, TypeOK
  <2>2. [row[u] EXCEPT !.stale = TRUE].ok = row[u].ok
    BY <1>0 DEF TypeOK, Row
  <2>3. QED
    BY <1>2, <2>1, <2>2
<1>10. CASE Environment \/ UNCHANGED vars
  BY <1>9, <1>10 DEF Environment, Crash, JobFails, FailedJobExpires, LoseJob, vars
<1>11. QED
  BY <1>5, <1>6, <1>7, <1>8, <1>10, Kinds DEF Next

(* A run starts from the successes of its row and adds finished attempts.   *)
LEMMA RunsListedStep ==
  ASSUME TypedInv, PayloadInv, ListedInv, [Next]_vars
  PROVE  RunsListed'
<1> SUFFICES ASSUME NEW w \in Workers, pc'[w] \in TryPC
             PROVE  run'[w].ok \subseteq ListedOf(TaskOf(w))'
  BY DEF RunsListed
<1>0. /\ TypeOK /\ HoldInv /\ w \in Procs /\ run[w] \in Run
      /\ pc'[w] # "idle"
  BY Kinds DEF TypedInv, TypeOK, TryPC
<1>00. ASSUME pc[w] # "idle", run'[w].ok \subseteq ListedOf(TaskOf(w))
       PROVE  run'[w].ok \subseteq ListedOf(TaskOf(w))'
  <2>1. TaskOf(w)' = TaskOf(w) /\ TaskOf(w) \in Tasks
    BY <1>0, <1>00, TaskKept, WorkerTask
  <2>2. PICK t \in Tasks : t = TaskOf(w)
    BY <2>1
  <2>3. ListedOf(TaskOf(w))' = ListedOf(t)'
    BY <2>1, <2>2 DEF ListedOf, StoreSet
  <2>4. ListedOf(t) \subseteq ListedOf(t)'
    BY <1>0, ListedGrows
  <2>5. QED
    BY <1>00, <2>2, <2>3, <2>4
<1>1. ASSUME pc[w] \in TryPC, run'[w].ok = run[w].ok
      PROVE  run'[w].ok \subseteq ListedOf(TaskOf(w))'
  BY <1>00, <1>1 DEF ListedInv, RunsListed, TryPC
<1>2. CASE Ambient
  BY <1>1, <1>2, AmbientKeeps
<1>3. ASSUME NEW p \in Procs, Acts(p), p # w
      PROVE  run'[w].ok \subseteq ListedOf(TaskOf(w))'
  BY <1>0, <1>1, <1>3, OthersKept
<1>4. ASSUME Dispatch(w) \/ Crash(w)
      PROVE  FALSE
  <2>1. pc'[w] \in {"idle", "selected", "enqueue", "sweep"}
    BY <1>0, <1>4 DEF Dispatch, SelectNext, CommitSelect, CommitSelectFails, Enqueue, EnqueueFails,
       EndDispatch, Done, Crash, Goto, TypeOK
  <2>2. QED
    BY <2>1 DEF TryPC
<1>5. CASE Worker(w)
  <2>1. CASE TakeJob(w) \/ NotStarted(w) \/ Finish(w) \/ Abort(w) \/ Fail(w)
    <3>1. pc'[w] \in {"begin", "abort", "dispatch"}
      BY <1>0, <2>1 DEF TakeJob, NotStarted, Finish, Abort, Fail, Leave, Goto, TypeOK
    <3>2. QED
      BY <3>1 DEF TryPC
  <2>2. CASE ReadStart(w)
    <3>1. pc[w] = "begin" /\ run'[w].ok \subseteq row[TaskOf(w)].ok
      BY <1>0, <2>2 DEF ReadStart, TypeOK, NoRun
    <3>2. TaskOf(w) \in Tasks
      BY <1>0, <3>1, WorkerTask
    <3>3. QED
      BY <1>00, <3>1, <3>2 DEF ListedInv, RowsListed
  <2>3. CASE CommitStart(w)
    <3>1. pc[w] = "begun" /\ (run'[w] = run[w] \/ run'[w] = NoRun)
      BY <1>0, <2>3 DEF CommitStart, TypeOK
    <3>2. QED
      BY <1>00, <1>1, <3>1 DEF NoRun, TryPC
  <2>4. CASE CommitStartFails(w) \/ NoticeCancel(w) \/ OpenStore(w) \/ StoreStopped(w) \/ RunRaises(w)
    BY <1>1, <2>4 DEF CommitStartFails, NoticeCancel, OpenStore, StoreStopped, RunRaises, local, TryPC
  <2>5. CASE StoreUnavailable(w) \/ StoreDone(w)
    <3>1. run'[w].ok = run[w].ok /\ pc[w] \in TryPC
      BY <1>0, <2>5 DEF StoreUnavailable, StoreDone, TypeOK, Run, TryPC
    <3>2. QED
      BY <1>1, <3>1
  <2>6. ASSUME NEW x \in Products, Attempt(w, x)
        PROVE  run'[w].ok \subseteq ListedOf(TaskOf(w))'
    <3>0. pc[w] = "attempt"
      BY <2>6 DEF Attempt, BeginAttempt, EndAttempt, AttemptRaises, StopAttempt, CollectResult,
         CollectStopped
    <3>1. CASE ~CollectResult(w, x)
      <4>1. run'[w].ok = run[w].ok
        BY <1>0, <2>6, <3>1 DEF Attempt, BeginAttempt, EndAttempt, AttemptRaises, StopAttempt,
           CollectStopped, TypeOK, Run
      <4>2. QED
        BY <1>1, <3>0, <4>1 DEF TryPC
    <3>2. CASE CollectResult(w, x)
      <4>1. run'[w].ok = IF att[w][x] = "done" THEN run[w].ok \cup {x} ELSE run[w].ok
        BY <1>0, <3>2 DEF CollectResult, Succeeded, TypeOK, Run
      <4>2. ASSUME att[w][x] = "done"
            PROVE  x \in ListedOf(TaskOf(w))
        <5>1. x \in ProductsOf[TaskOf(w)] /\ CurrentStore(w) \in listed[x]
          BY <4>2 DEF PayloadInv, AttsInside, ListedInv, AttsListed
        <5>2. CurrentStore(w) \in StoreSet(TaskOf(w))
          <6>1. run[w].store \in Nat \ {0} /\ run[w].store <= Len(StoresOf[TaskOf(w)])
            BY <3>0 DEF TypedInv, StoreInv, StoreLeft, TryPC
          <6>2. TaskOf(w) \in Tasks /\ StoresOf[TaskOf(w)] \in Seq(Stores)
            BY <1>0, <3>0, WorkerTask, ConstantsAssumption
          <6>3. Len(StoresOf[TaskOf(w)]) \in Nat
            BY <6>2
          <6>4. run[w].store \in 1..Len(StoresOf[TaskOf(w)])
            BY <6>1, <6>3
          <6>5. QED
            BY <6>4 DEF CurrentStore, StoreSet
        <5>3. QED
          BY <5>1, <5>2 DEF ListedOf
      <4>3. run[w].ok \subseteq ListedOf(TaskOf(w))
        BY <3>0 DEF ListedInv, RunsListed, TryPC
      <4>4. QED
        BY <1>00, <3>0, <4>1, <4>2, <4>3
    <3>3. QED
      BY <3>1, <3>2
  <2>7. QED
    BY <1>5, <2>1, <2>2, <2>3, <2>4, <2>5, <2>6 DEF Worker
<1>6. Acts(w) => Dispatch(w) \/ Crash(w) \/ Worker(w)
  BY Kinds DEF Acts
<1>7. QED
  BY <1>2, <1>3, <1>4, <1>5, <1>6, StepCases

(* An attempt is done when its store has the product.                       *)
LEMMA AttsListedStep ==
  ASSUME TypedInv, PayloadInv, ListedInv, [Next]_vars
  PROVE  AttsListed'
<1> SUFFICES ASSUME NEW w \in Workers, NEW y \in Products, att'[w][y] = "done"
             PROVE  StoresOf[TaskOf(w)'][run'[w].store] \in listed'[y]
  BY DEF AttsListed, CurrentStore
<1>0. /\ TypeOK /\ HoldInv /\ w \in Procs /\ run[w] \in Run /\ att[w] \in [Products -> Attempts]
      /\ listed[y] \subseteq listed'[y]
  BY Kinds, ListedGrows DEF TypedInv, TypeOK
<1>1. ASSUME att[w][y] = "done", pc'[w] = pc[w], run'[w].store = run[w].store
      PROVE  StoresOf[TaskOf(w)'][run'[w].store] \in listed'[y]
  <2>1. pc[w] = "attempt" /\ StoresOf[TaskOf(w)][run[w].store] \in listed[y]
    BY <1>1 DEF PayloadInv, AttsInside, ListedInv, AttsListed, CurrentStore
  <2>2. TaskOf(w)' = TaskOf(w)
    BY <1>0, <1>1, <2>1, TaskKept
  <2>3. QED
    BY <1>0, <1>1, <2>1, <2>2
<1>2. CASE Ambient
  BY <1>1, <1>2, AmbientKeeps
<1>3. ASSUME NEW p \in Procs, Acts(p), p # w
      PROVE  StoresOf[TaskOf(w)'][run'[w].store] \in listed'[y]
  BY <1>0, <1>1, <1>3, OthersKept
<1>4. CASE Crash(w)
  BY <1>0, <1>4, Kinds DEF Crash, TypeOK
<1>5. ASSUME pc[w] # "attempt", att' = att
      PROVE  FALSE
  BY <1>5 DEF PayloadInv, AttsInside
<1>6. CASE Dispatch(w)
  <2>1. att' = att /\ pc[w] # "attempt"
    BY <1>6 DEF Dispatch, SelectNext, CommitSelect, CommitSelectFails, Enqueue, EnqueueFails,
       EndDispatch
  <2>2. QED
    BY <1>5, <2>1
<1>7. CASE Worker(w)
  <2>1. CASE TakeJob(w) \/ NotStarted(w) \/ ReadStart(w) \/ CommitStart(w) \/ CommitStartFails(w)
             \/ NoticeCancel(w) \/ StoreUnavailable(w) \/ Finish(w) \/ Abort(w) \/ Fail(w)
    BY <1>5, <2>1 DEF TakeJob, NotStarted, ReadStart, CommitStart, CommitStartFails, NoticeCancel,
       StoreUnavailable, Finish, Abort, Fail, local
  <2>2. CASE StoreStopped(w) \/ RunRaises(w)
    BY <1>0, <2>2, Kinds DEF StoreStopped, RunRaises, TypeOK
  <2>3. CASE StoreDone(w)
    BY <1>0, <2>3, Kinds DEF StoreDone
  <2>4. CASE OpenStore(w)
    BY <1>0, <2>4 DEF OpenStore, TypeOK
  <2>5. ASSUME NEW x \in Products, Attempt(w, x)
        PROVE  StoresOf[TaskOf(w)'][run'[w].store] \in listed'[y]
    <3>1. pc'[w] = pc[w] /\ run'[w].store = run[w].store
      BY <1>0, <2>5 DEF Attempt, BeginAttempt, EndAttempt, AttemptRaises, StopAttempt, CollectResult,
         CollectStopped, TypeOK, Run
    <3>2. CASE att[w][y] = "done"
      BY <1>1, <3>1, <3>2
    <3>3. CASE att[w][y] # "done"
      <4>1. y = x /\ (BeginAttempt(w, x) \/ EndAttempt(w, x))
        BY <1>0, <2>5, <3>3 DEF Attempt, BeginAttempt, EndAttempt, AttemptRaises, StopAttempt,
           CollectResult, CollectStopped, Remaining, TypeOK
      <4>2. TaskOf(w)' = TaskOf(w) /\ run' = run
        BY <4>1 DEF BeginAttempt, EndAttempt, TaskOf
      <4>3. CASE BeginAttempt(w, x)
        <5>1. CurrentStore(w) \in listed[y]
          BY <1>0, <4>1, <4>3 DEF BeginAttempt, TypeOK
        <5>2. QED
          BY <1>0, <4>2, <5>1 DEF CurrentStore
      <4>4. CASE EndAttempt(w, x)
        <5>1. CurrentStore(w) \in listed'[y]
          BY <1>0, <4>1, <4>4 DEF EndAttempt, TypeOK
        <5>2. QED
          BY <4>2, <5>1 DEF CurrentStore
      <4>5. QED
        BY <4>1, <4>3, <4>4
    <3>4. QED
      BY <3>2, <3>3
  <2>6. QED
    BY <1>7, <2>1, <2>2, <2>3, <2>4, <2>5 DEF Worker
<1>8. Acts(w) => Dispatch(w) \/ Crash(w) \/ Worker(w)
  BY Kinds DEF Acts
<1>9. QED
  BY <1>2, <1>3, <1>4, <1>6, <1>7, <1>8, StepCases

LEMMA ListedStep ==
  ASSUME TypedInv, PayloadInv, ListedInv, [Next]_vars
  PROVE  ListedInv'
<1>1. RunsListed' /\ AttsListed'
  BY RunsListedStep, AttsListedStep
<1>2. ASSUME NEW t \in Tasks
      PROVE  row'[t].ok \subseteq ListedOf(t)'
  <2>0. ListedOf(t) \subseteq ListedOf(t)'
    BY ListedGrows DEF TypedInv
  <2>1. CASE row'[t].ok \subseteq row[t].ok
    BY <2>0, <2>1 DEF ListedInv, RowsListed
  <2>2. ASSUME NEW w \in Workers, Reports(w, t)
        PROVE  row'[t].ok \subseteq ListedOf(t)'
    <3>1. pc[w] \in TryPC /\ TaskOf(w) = t /\ TaskOf(w)' = t
      BY <2>2 DEF Reports
    <3>2. run[w].ok \subseteq ListedOf(t)
      BY <3>1 DEF ListedInv, RunsListed
    <3>3. pc'[w] \in TryPC => run'[w].ok \subseteq {x \in ProductsOf[t] : listed'[x] \cap StoreSet(t) # {}}
      BY <1>1, <3>1 DEF RunsListed, ListedOf, StoreSet
    <3>4. ListedOf(t)' = {x \in ProductsOf[t] : listed'[x] \cap StoreSet(t) # {}}
      BY DEF ListedOf, StoreSet
    <3>5. QED
      BY <2>0, <2>2, <3>2, <3>3, <3>4 DEF Reports
  <2>3. QED
    BY <2>1, <2>2, SuccessesMove
<1>3. QED
  BY <1>1, <1>2 DEF ListedInv, RowsListed

LEMMA ListedAlways == Spec => [](TypedInv /\ PayloadInv /\ ListedInv)
<1>1. Init => TypedInv /\ PayloadInv /\ ListedInv
  <2> SUFFICES ASSUME Init
               PROVE  TypedInv /\ PayloadInv /\ ListedInv
    OBVIOUS
  <2>1. /\ \A t \in Tasks : row[t] = NewRow
        /\ \A p \in Procs : pc[p] = "idle" /\ att[p] = NoAtt
    BY DEF Init
  <2>2. RowsListed /\ RunsListed /\ AttsListed
    BY <2>1, Kinds DEF RowsListed, RunsListed, AttsListed, NewRow, TryPC
  <2>3. QED
    BY <2>2, TypedInit, SafeInit DEF ListedInv
<1>2. TypedInv /\ PayloadInv /\ ListedInv /\ [Next]_vars => (TypedInv /\ PayloadInv /\ ListedInv)'
  BY TypedStep, PayloadStep, ListedStep
<1>3. QED
  BY <1>1, <1>2, PTL DEF Spec

(* successIds of product_ids_json: a task reports as listed only products   *)
(* that were recorded as listed in one of its stores, whatever overlaps, is *)
(* retried, crashes or fails.                                               *)
THEOREM ReportedIsListed == Spec => []SuccessIsListed
<1>1. ListedInv => SuccessIsListed
  BY DEF ListedInv, RowsListed, ListedOf, SuccessIsListed
<1>2. QED
  BY <1>1, ListedAlways, PTL

-----------------------------------------------------------------------------
(* No product is lost: each one of a task is a success or still to be tried *)
(* while the task waits or runs, and a success or a failure when it ends,   *)
(* in its row and in the run of a worker.                                   *)
Covered(r, t) ==
  /\ r.status \in {"queued", "running"} /\ r.retry # {} => ProductsOf[t] \subseteq r.ok \cup r.retry
  /\ r.status \in {"queued", "partial", "failed"} /\ r.failed # {} =>
       ProductsOf[t] \subseteq r.ok \cup r.failed
  /\ r.status = "success" => ProductsOf[t] \subseteq r.ok
RowsCovered == \A t \in Tasks : Covered(row[t], t)

IdsOf(r, t) == IF r.retry # {} THEN r.retry ELSE ProductsOf[t]
Complete(r, a, label, t) ==
  /\ ProductsOf[t] \subseteq r.ok \cup IdsOf(r, t)
  /\ ~r.lost => r.failed = {}
  /\ label # "attempt" /\ r.store # 1 => IdsOf(r, t) \subseteq r.ok \cup r.failed
  /\ label = "attempt" /\ ~r.stopping =>
       \A x \in IdsOf(r, t) : a[x] = "none" => x \in r.ok \cup r.failed
RunsCovered == \A w \in Workers :
  pc[w] \in TryPC => Complete(run[w], att[w], pc[w], TaskOf(w))
CoverInv == RowsCovered /\ RunsCovered

LEMMA RunsCoveredStep ==
  ASSUME TypedInv, PayloadInv, CoverInv, [Next]_vars
  PROVE  RunsCovered'
<1> SUFFICES ASSUME NEW w \in Workers, pc'[w] \in TryPC
             PROVE  Complete(run'[w], att'[w], pc'[w], TaskOf(w)')
  BY DEF RunsCovered, Complete, IdsOf
<1>0. /\ TypeOK /\ HoldInv /\ w \in Procs /\ run[w] \in Run /\ att[w] \in [Products -> Attempts]
      /\ pc'[w] # "idle"
  BY Kinds DEF TypedInv, TypeOK, TryPC
<1>1. ASSUME pc[w] \in TryPC
      PROVE  /\ TaskOf(w)' = TaskOf(w) /\ TaskOf(w) \in Tasks
             /\ Complete(run[w], att[w], pc[w], TaskOf(w))
             /\ IdsOf(run[w], TaskOf(w)) \subseteq Products
             /\ RunIds(w) = IdsOf(run[w], TaskOf(w))
  <2>1. TaskOf(w)' = TaskOf(w) /\ TaskOf(w) \in Tasks
    BY <1>0, <1>1, TaskKept, WorkerTask DEF TryPC
  <2>2. Inside(run[w], TaskOf(w))
    BY <1>1 DEF PayloadInv, RunsInside
  <2>3. ProductsOf[TaskOf(w)] \subseteq Products
    BY <2>1, Kinds
  <2>4. QED
    BY <1>1, <2>1, <2>2, <2>3 DEF CoverInv, RunsCovered, IdsOf, RunIds, Inside
<1>2. ASSUME pc[w] \in TryPC, run'[w] = run[w], att'[w] = att[w], pc'[w] = pc[w]
      PROVE  Complete(run'[w], att'[w], pc'[w], TaskOf(w)')
  BY <1>1, <1>2
<1>3. CASE Ambient
  BY <1>2, <1>3, AmbientKeeps
<1>4. ASSUME NEW p \in Procs, Acts(p), p # w
      PROVE  Complete(run'[w], att'[w], pc'[w], TaskOf(w)')
  BY <1>0, <1>2, <1>4, OthersKept
<1>5. ASSUME Dispatch(w) \/ Crash(w)
      PROVE  FALSE
  <2>1. pc'[w] \in {"idle", "selected", "enqueue", "sweep"}
    BY <1>0, <1>5 DEF Dispatch, SelectNext, CommitSelect, CommitSelectFails, Enqueue, EnqueueFails,
       EndDispatch, Done, Crash, Goto, TypeOK
  <2>2. QED
    BY <2>1 DEF TryPC
<1>6. CASE Worker(w)
  <2>1. CASE TakeJob(w) \/ NotStarted(w) \/ CommitStartFails(w) \/ NoticeCancel(w) \/ StoreStopped(w)
             \/ Finish(w) \/ Abort(w) \/ RunRaises(w) \/ Fail(w)
    <3>1. pc'[w] \in {"begin", "abort", "dispatch", "fault"}
      BY <1>0, <2>1 DEF TakeJob, NotStarted, CommitStartFails, NoticeCancel, StoreStopped, Finish, Abort,
         RunRaises, Fail, Leave, Goto, TypeOK
    <3>2. QED
      BY <3>1 DEF TryPC
  <2>2. CASE ReadStart(w)
    <3> DEFINE t == TaskOf(w)
    <3>1. /\ pc[w] = "begin" /\ pc'[w] = "begun" /\ row[t].status = "queued"
          /\ run'[w] = [NoRun EXCEPT !.store = 1, !.retry = row[t].retry,
                          !.ok = IF row[t].retry # {} THEN row[t].ok \ row[t].retry ELSE {}]
      BY <1>0, <2>2 DEF ReadStart, Startable, Goto, TypeOK
    <3>2. t \in Tasks /\ TaskOf(w)' = t
      BY <1>0, <3>1, TaskKept, WorkerTask
    <3> HIDE DEF t
    <3>3. /\ run'[w].store = 1 /\ run'[w].retry = row[t].retry /\ run'[w].failed = {}
          /\ run'[w].ok = IF row[t].retry # {} THEN row[t].ok \ row[t].retry ELSE {}
      BY <3>1 DEF NoRun
    <3>4. row[t].retry # {} => ProductsOf[t] \subseteq row[t].ok \cup row[t].retry
      BY <3>1, <3>2 DEF CoverInv, RowsCovered, Covered
    <3>5. QED
      BY <3>1, <3>2, <3>3, <3>4 DEF Complete, IdsOf
  <2>3. CASE CommitStart(w)
    <3>1. pc[w] = "begun" /\ pc'[w] \in {"store", "dispatch"} /\ (pc'[w] = "store" => run' = run)
      BY <1>0, <2>3 DEF CommitStart, Goto, TypeOK
    <3>2. pc'[w] = "store" /\ run' = run
      BY <3>1 DEF TryPC
    <3>3. QED
      BY <1>1, <3>1, <3>2 DEF Complete, TryPC
  <2>4. CASE OpenStore(w)
    <3>1. pc[w] = "store" /\ pc'[w] = "attempt" /\ run' = run
      BY <1>0, <2>4 DEF OpenStore, Goto, TypeOK
    <3>2. \A x \in Products : x \in RunIds(w) => att'[w][x] = "ready"
      BY <1>0, <2>4 DEF OpenStore, TypeOK
    <3>3. QED
      BY <1>1, <3>1, <3>2 DEF Complete, TryPC
  <2>5. CASE StoreUnavailable(w)
    <3>1. pc[w] = "store" /\ pc'[w] = "store"
      BY <2>5 DEF StoreUnavailable
    <3>2. /\ run'[w].retry = run[w].retry /\ run'[w].ok = run[w].ok /\ run'[w].lost
          /\ run'[w].failed = run[w].failed \cup RunIds(w)
      BY <1>0, <2>5 DEF StoreUnavailable, TypeOK, Run
    <3>3. QED
      BY <1>1, <3>1, <3>2 DEF Complete, IdsOf, TryPC
  <2>6. CASE StoreDone(w)
    <3>1. pc[w] = "attempt" /\ pc'[w] = "store" /\ ~run[w].stopping /\ att[w] = NoAtt
      BY <1>0, <2>6 DEF StoreDone, Goto, TypeOK
    <3>2. /\ run'[w].retry = run[w].retry /\ run'[w].ok = run[w].ok /\ run'[w].lost = run[w].lost
          /\ run'[w].failed = run[w].failed
      BY <1>0, <2>6 DEF StoreDone, TypeOK, Run
    <3>3. \A x \in IdsOf(run[w], TaskOf(w)) : att[w][x] = "none"
      BY <1>1, <3>1, Kinds DEF TryPC
    <3>4. IdsOf(run[w], TaskOf(w)) \subseteq run[w].ok \cup run[w].failed
      BY <1>1, <3>1, <3>3 DEF Complete, TryPC
    <3>5. QED
      BY <1>1, <3>1, <3>2, <3>4 DEF Complete, IdsOf, TryPC
  <2>7. ASSUME NEW x \in Products, Attempt(w, x)
        PROVE  Complete(run'[w], att'[w], pc'[w], TaskOf(w)')
    <3>0. pc[w] = "attempt" /\ pc' = pc
      BY <2>7 DEF Attempt, BeginAttempt, EndAttempt, AttemptRaises, StopAttempt, CollectResult,
         CollectStopped
    <3>1. CASE BeginAttempt(w, x) \/ EndAttempt(w, x) \/ AttemptRaises(w, x) \/ StopAttempt(w, x)
      <4>1. run' = run
        BY <3>1 DEF BeginAttempt, EndAttempt, AttemptRaises, StopAttempt
      <4>2. \A y \in Products : att'[w][y] = "none" => att[w][y] = "none"
        BY <1>0, <3>1 DEF BeginAttempt, EndAttempt, AttemptRaises, StopAttempt, TypeOK
      <4>3. QED
        BY <1>1, <3>0, <4>1, <4>2 DEF Complete, TryPC
    <3>2. CASE CollectStopped(w, x)
      <4>1. /\ run'[w].retry = run[w].retry /\ run'[w].ok = run[w].ok /\ run'[w].lost = run[w].lost
            /\ run'[w].failed = run[w].failed /\ run'[w].stopping
        BY <1>0, <3>2 DEF CollectStopped, TypeOK, Run
      <4>2. QED
        BY <1>1, <3>0, <4>1 DEF Complete, IdsOf, TryPC
    <3>3. CASE CollectResult(w, x)
      <4> DEFINE good == att[w][x] = "done"
      <4>1. /\ run'[w].retry = run[w].retry
            /\ run'[w].ok = IF good THEN run[w].ok \cup {x} ELSE run[w].ok
            /\ run'[w].failed = IF good THEN run[w].failed \ {x} ELSE run[w].failed \cup {x}
            /\ run'[w].lost = (run[w].lost \/ ~good)
            /\ run'[w].stopping = CancelSeen(TaskOf(w)) /\ ~run[w].stopping
        BY <1>0, <3>3 DEF CollectResult, Succeeded, TypeOK, Run
      <4>2. \A y \in Products : ~CancelSeen(TaskOf(w)) /\ y # x => att'[w][y] = att[w][y]
        BY <1>0, <3>3 DEF CollectResult, TypeOK
      <4> HIDE DEF good
      <4>3. Complete(run[w], att[w], "attempt", TaskOf(w))
        BY <1>1, <3>0 DEF TryPC
      <4>4. run[w].ok \cup run[w].failed \cup {x} \subseteq run'[w].ok \cup run'[w].failed
        BY <4>1
      <4>5. IdsOf(run'[w], TaskOf(w)) = IdsOf(run[w], TaskOf(w))
        BY <4>1 DEF IdsOf
      <4>6. ProductsOf[TaskOf(w)] \subseteq run'[w].ok \cup IdsOf(run'[w], TaskOf(w))
        BY <4>1, <4>3, <4>5 DEF Complete
      <4>7. ~run'[w].lost => run'[w].failed = {}
        BY <4>1, <4>3 DEF Complete
      <4>8. ASSUME ~run'[w].stopping, NEW y \in IdsOf(run[w], TaskOf(w)), att'[w][y] = "none"
            PROVE  y \in run'[w].ok \cup run'[w].failed
        <5>1. y \in Products
          BY <1>1, <3>0 DEF TryPC
        <5>2. y # x => att[w][y] = "none"
          BY <4>1, <4>2, <4>8, <5>1
        <5>3. y # x => y \in run[w].ok \cup run[w].failed
          BY <4>1, <4>3, <5>2 DEF Complete
        <5>4. QED
          BY <4>4, <5>3
      <4>9. QED
        BY <1>1, <3>0, <4>5, <4>6, <4>7, <4>8 DEF Complete, TryPC
    <3>4. QED
      BY <2>7, <3>1, <3>2, <3>3 DEF Attempt
  <2>8. QED
    BY <1>6, <2>1, <2>2, <2>3, <2>4, <2>5, <2>6, <2>7 DEF Worker
<1>7. Acts(w) => Dispatch(w) \/ Crash(w) \/ Worker(w)
  BY Kinds DEF Acts
<1>8. QED
  BY <1>3, <1>4, <1>5, <1>6, <1>7, StepCases

LEMMA CoveredRows ==
  ASSUME TypeOK, RowsCovered, NEW t \in Tasks
  PROVE  /\ Covered([NewRow EXCEPT !.status = "queued"], t)
         /\ Covered([NewRow EXCEPT !.status = "deleted"], t)
         /\ Covered(CancelledRow(t), t)
         /\ row[t].status = "queued" => Covered(Started(t), t)
         /\ row[t].status \in {"queued", "running"} => ProductsOf[t] \subseteq row[t].ok \cup ActiveIds(t)
         /\ row[t].status = "running" => Covered(Interrupted(t), t)
         /\ row[t].status \in {"partial", "failed", "cancelled"} => Covered(Retried(t), t)
<1>0. row[t] \in Row /\ Covered(row[t], t)
  BY DEF TypeOK, RowsCovered
<1>1. Covered([NewRow EXCEPT !.status = "queued"], t) /\ Covered([NewRow EXCEPT !.status = "deleted"], t)
  BY DEF Covered, NewRow
<1>2. Covered(CancelledRow(t), t)
  <2>1. CancelledRow(t).status = "cancelled"
    BY <1>0 DEF CancelledRow, Row
  <2>2. QED
    BY <2>1 DEF Covered
<1>3. ASSUME row[t].status = "queued"
      PROVE  Covered(Started(t), t)
  <2>1. Started(t).status = "running" /\ Started(t).ok = row[t].ok /\ Started(t).retry = row[t].retry
    BY <1>0 DEF Started, Row
  <2>2. QED
    BY <1>0, <1>3, <2>1 DEF Covered
<1>4. row[t].status \in {"queued", "running"} => ProductsOf[t] \subseteq row[t].ok \cup ActiveIds(t)
  BY <1>0 DEF Covered, ActiveIds
<1>5. ASSUME row[t].status = "running"
      PROVE  Covered(Interrupted(t), t)
  <2>1. /\ Interrupted(t).status \in {"partial", "failed"} /\ Interrupted(t).ok = row[t].ok
        /\ Interrupted(t).failed = row[t].failed \cup (ActiveIds(t) \ (row[t].ok \cup row[t].failed))
    BY <1>0 DEF Interrupted, Row
  <2>2. QED
    BY <1>4, <1>5, <2>1 DEF Covered
<1>6. ASSUME row[t].status \in {"partial", "failed", "cancelled"}
      PROVE  Covered(Retried(t), t)
  <2>1. /\ Retried(t).status = "queued" /\ Retried(t).failed = RetryIds(t) /\ Retried(t).retry = RetryIds(t)
        /\ Retried(t).ok = IF row[t].status \in {"partial", "failed"} /\ row[t].failed # {}
                           THEN row[t].ok \ RetryIds(t) ELSE {}
    BY DEF Retried, NewRow
  <2>2. ProductsOf[t] \subseteq Retried(t).ok \cup RetryIds(t)
    BY <1>0, <1>6, <2>1 DEF Covered, RetryIds
  <2>3. QED
    BY <2>1, <2>2 DEF Covered
<1>7. QED
  BY <1>1, <1>2, <1>3, <1>4, <1>5, <1>6

LEMMA RowsCoveredStep ==
  ASSUME TypedInv, SafeInv, PayloadInv, CoverInv, [Next]_vars, ~LateFailures
  PROVE  RowsCovered'
<1>0. TypeOK /\ RowsCovered
  BY DEF TypedInv, CoverInv
<1>1. ASSUME NEW p \in Procs, CommitPlan(p)
      PROVE  RowsCovered'
  <2>1. plan[p] \in [Tasks -> Writes] /\ row' = [t \in Tasks |-> Written(t, plan[p][t])]
    BY <1>0, <1>1 DEF CommitPlan, TypeOK
  <2>2. ASSUME NEW t \in Tasks
        PROVE  Covered(Written(t, plan[p][t]), t)
    <3>1. plan[p][t] = "start" => row[t].status = "queued"
      BY DEF SafeInv, PlansSafe
    <3>2. plan[p][t] = "interrupt" => row[t].status = "running"
      BY DEF SafeInv, PlansSafe
    <3>3. Covered(row[t], t)
      BY <1>0 DEF RowsCovered
    <3>4. QED
      BY <1>0, <3>1, <3>2, <3>3, CoveredRows DEF Written
  <2>3. QED
    BY <2>1, <2>2 DEF RowsCovered
<1>2. ASSUME NEW t \in Tasks, NEW f, Covered(f, t), row' = row \/ row' = [row EXCEPT ![t] = f]
      PROVE  RowsCovered'
  BY <1>0, <1>2 DEF RowsCovered, TypeOK
<1>3. ASSUME NEW t \in Tasks, NEW m, NEW o,
             row' = row \/ row' = [row EXCEPT ![t] = [row[t] EXCEPT !.marked = m, !.stale = o]]
      PROVE  RowsCovered'
  <2> DEFINE f == [row[t] EXCEPT !.marked = m, !.stale = o]
  <2>1. f.status = row[t].status /\ f.ok = row[t].ok /\ f.failed = row[t].failed /\ f.retry = row[t].retry
    BY <1>0 DEF TypeOK, Row
  <2>2. row' = row \/ row' = [row EXCEPT ![t] = f]
    BY <1>3
  <2> HIDE DEF f
  <2>3. Covered(f, t)
    BY <1>0, <2>1 DEF RowsCovered, Covered
  <2>4. QED
    BY <1>2, <2>2, <2>3
<1>4. ASSUME NEW p \in Procs, EnqueueFails(p)
      PROVE  RowsCovered'
  <2> DEFINE t == First(todo[p])
             f == [row[t] EXCEPT !.status = "failed", !.marked = FALSE, !.stale = FALSE]
  <2>1. t \in Tasks /\ row[t] \in Row
    BY <1>0, <1>4, FirstIn DEF EnqueueFails, TypeOK
  <2>2. IF Exists(t)
        THEN row' = [row EXCEPT ![t].status = "failed", ![t].marked = FALSE, ![t].stale = FALSE]
        ELSE row' = row
    BY <1>4 DEF EnqueueFails
  <2>3. row[t].status \in {"deleted", "queued"}
    BY <1>4 DEF EnqueueFails
  <2> HIDE DEF t
  <2>4. f.status = "failed" /\ f.ok = row[t].ok /\ f.failed = row[t].failed
    BY <2>1 DEF Row
  <2>5. row' = row \/ (row[t].status = "queued" /\ row' = [row EXCEPT ![t] = f])
    BY <1>0, <2>1, <2>2, <2>3 DEF TypeOK, Exists
  <2> HIDE DEF f
  <2>6. row[t].status = "queued" => Covered(f, t)
    BY <1>0, <2>1, <2>4 DEF RowsCovered, Covered
  <2>7. CASE row' = row
    BY <1>0, <2>7 DEF RowsCovered
  <2>8. QED
    BY <1>2, <2>1, <2>5, <2>6, <2>7
<1>5. ASSUME NEW p \in Procs, Dispatch(p)
      PROVE  RowsCovered'
  <2>1. CASE SelectNext(p) \/ CommitSelectFails(p) \/ Enqueue(p) \/ EndDispatch(p)
    BY <1>0, <2>1 DEF SelectNext, CommitSelectFails, Abandon, Enqueue, EndDispatch, RowsCovered
  <2>2. QED
    BY <1>1, <1>4, <1>5, <2>1 DEF Dispatch, CommitSelect
<1>6. ASSUME NEW w \in Workers, NEW x \in Products, CollectResult(w, x)
      PROVE  RowsCovered'
  <2> DEFINE t == TaskOf(w)
             good == Succeeded(w, x)
             ok == IF good THEN run[w].ok \cup {x} ELSE run[w].ok
             failed == IF good THEN run[w].failed \ {x} ELSE run[w].failed \cup {x}
             f == [row[t] EXCEPT !.ok = ok, !.failed = failed \ ok, !.retry = run[w].retry, !.stale = FALSE]
  <2>1. row' = IF ~Exists(t) THEN row
               ELSE [row EXCEPT ![t].ok = ok, ![t].failed = failed \ ok,
                                ![t].retry = run[w].retry, ![t].stale = FALSE]
    BY <1>6 DEF CollectResult
  <2>2. pc[w] = "attempt"
    BY <1>6 DEF CollectResult
  <2>3. t \in Tasks /\ row[t] \in Row
    BY <1>0, <2>2, WorkerTask DEF TypedInv, TypeOK
  <2>4. Exists(t) => row[t].status = "running"
    BY <2>2 DEF SafeInv, RunningRows, RunPC
  <2>5. ProductsOf[t] \subseteq run[w].ok \cup IdsOf(run[w], t)
    BY <2>2 DEF CoverInv, RunsCovered, Complete, TryPC
  <2>6. run[w].ok \subseteq ok
    OBVIOUS
  <2> HIDE DEF t, ok, failed, good
  <2>7. f.status = row[t].status /\ f.ok = ok /\ f.retry = run[w].retry
    BY <2>3 DEF Row
  <2>8. row' = row \/ (Exists(t) /\ row' = [row EXCEPT ![t] = f])
    BY <1>0, <2>1, <2>3 DEF TypeOK
  <2> HIDE DEF f
  <2>9. Exists(t) => Covered(f, t)
    BY <2>4, <2>5, <2>6, <2>7 DEF Covered, IdsOf
  <2>10. CASE row' = row
    BY <1>0, <2>10 DEF RowsCovered
  <2>11. QED
    BY <1>2, <2>3, <2>8, <2>9, <2>10
<1>7. ASSUME NEW w \in Workers, Worker(w)
      PROVE  RowsCovered'
  <2>1. CASE TakeJob(w) \/ NotStarted(w) \/ ReadStart(w) \/ CommitStartFails(w) \/ NoticeCancel(w)
             \/ OpenStore(w) \/ StoreStopped(w) \/ StoreDone(w) \/ RunRaises(w)
    BY <1>0, <2>1 DEF TakeJob, NotStarted, ReadStart, CommitStartFails, Abandon, NoticeCancel, OpenStore,
       StoreStopped, StoreDone, RunRaises, RowsCovered
  <2>2. CASE CommitStart(w)
    BY <1>1, <2>2, Kinds DEF CommitStart
  <2>3. ASSUME pc[w] # "idle"
        PROVE  TaskOf(w) \in Tasks /\ row[TaskOf(w)] \in Row
    BY <1>0, <2>3, WorkerTask DEF TypedInv, TypeOK
  <2>4. CASE StoreUnavailable(w)
    <3> DEFINE t == TaskOf(w)
    <3>1. t \in Tasks /\ row[t] \in Row
      BY <2>3, <2>4 DEF StoreUnavailable
    <3>2. row' = [row EXCEPT ![t].stale = FALSE]
      BY <2>4 DEF StoreUnavailable
    <3> HIDE DEF t
    <3>3. row' = [row EXCEPT ![t] = [row[t] EXCEPT !.marked = row[t].marked, !.stale = FALSE]]
      BY <1>0, <3>1, <3>2 DEF TypeOK, Row
    <3>4. QED
      BY <1>3, <3>1, <3>3
  <2>5. CASE \E x \in Products : Attempt(w, x)
    <3>1. PICK x \in Products : Attempt(w, x)
      BY <2>5
    <3>2. CASE ~CollectResult(w, x)
      BY <1>0, <3>1, <3>2 DEF Attempt, BeginAttempt, EndAttempt, AttemptRaises, StopAttempt,
         CollectStopped, RowsCovered
    <3>3. QED
      BY <1>6, <3>2
  <2>6. CASE Finish(w)
    <3> DEFINE t == TaskOf(w)
               f == [NewRow EXCEPT !.status = FinalStatus(w), !.ok = run[w].ok,
                                   !.failed = run[w].failed \ run[w].ok]
    <3>1. row' = row \/ row' = [row EXCEPT ![t] = f]
      BY <2>6 DEF Finish
    <3>2. pc[w] = "store" /\ ~StoreLeft(w)
      BY <2>6 DEF Finish
    <3>3. t \in Tasks
      BY <2>3, <3>2
    <3>4. run[w].store # 1
      <4>1. StoresOf[t] \in Seq(Stores) /\ StoresOf[t] # <<>>
        BY <3>3, ConstantsAssumption
      <4>2. Len(StoresOf[t]) \in Nat /\ Len(StoresOf[t]) >= 1
        BY <4>1
      <4>3. QED
        BY <3>2, <4>2 DEF StoreLeft
    <3>5. Complete(run[w], att[w], "store", t)
      BY <3>2 DEF CoverInv, RunsCovered, TryPC
    <3>6. f.status = FinalStatus(w) /\ f.ok = run[w].ok /\ f.failed = run[w].failed \ run[w].ok
      BY DEF NewRow
    <3>7. f.status \in {"failed", "partial", "success"} /\ (f.status = "success" => ~run[w].lost)
      BY <3>6 DEF FinalStatus
    <3> HIDE DEF t, f
    <3>8. ProductsOf[t] \subseteq run[w].ok \cup run[w].failed /\ (~run[w].lost => run[w].failed = {})
      BY <3>4, <3>5 DEF Complete
    <3>9. Covered(f, t)
      BY <3>6, <3>7, <3>8 DEF Covered
    <3>10. QED
      BY <1>2, <3>1, <3>3, <3>9
  <2>7. CASE Abort(w)
    <3>1. TaskOf(w) \in Tasks
      BY <2>3, <2>7 DEF Abort
    <3>2. Covered(CancelledRow(TaskOf(w)), TaskOf(w))
      BY <1>0, <3>1, CoveredRows
    <3>3. row' = row \/ row' = [row EXCEPT ![TaskOf(w)] = CancelledRow(TaskOf(w))]
      BY <2>7 DEF Abort
    <3>4. QED
      BY <1>2, <3>1, <3>2, <3>3
  <2>8. CASE Fail(w)
    <3> DEFINE t == TaskOf(w)
               ids == ActiveIds(t)
               ok == row[t].ok \ ids
               f == [NewRow EXCEPT !.status = IF ok # {} THEN "partial" ELSE "failed",
                                   !.ok = ok, !.failed = ids]
    <3>1. t \in Tasks
      BY <2>3, <2>8 DEF Fail
    <3>2. row' = row \/ (Exists(t) /\ row' = [row EXCEPT ![t] = f])
      BY <2>8 DEF Fail
    <3>3. Exists(t) => row[t].status = "running"
      BY <2>8 DEF Fail, SafeInv, RunningRows, RunPC
    <3>4. f.status \in {"partial", "failed"} /\ f.ok = ok /\ f.failed = ids
      BY DEF NewRow
    <3>5. Exists(t) => ProductsOf[t] \subseteq ok \cup ids
      BY <1>0, <3>1, <3>3, CoveredRows
    <3> HIDE DEF t, ids, ok, f
    <3>6. Exists(t) => Covered(f, t)
      BY <3>4, <3>5 DEF Covered
    <3>7. CASE row' = row
      BY <1>0, <3>7 DEF RowsCovered
    <3>8. QED
      BY <1>2, <3>1, <3>2, <3>6, <3>7
  <2>9. QED
    BY <1>7, <2>1, <2>2, <2>4, <2>5, <2>6, <2>7, <2>8 DEF Worker
<1>8. ASSUME NEW a \in Api, Request(a)
      PROVE  RowsCovered'
  <2>1. CASE Create(a)
    <3>1. PICK t \in Tasks :
            row' = [u \in Tasks |-> IF u \in Batch(t) THEN [NewRow EXCEPT !.status = "queued"]
                                    ELSE row[u]]
      BY <2>1 DEF Create
    <3>2. QED
      BY <1>0, <3>1, CoveredRows DEF RowsCovered
  <2>2. CASE Cancel(a)
    <3>1. PICK t \in Tasks :
            \/ row' = [row EXCEPT ![t] = CancelledRow(t)]
            \/ row' = [row EXCEPT ![t].marked = TRUE, ![t].stale = @ /\ row[t].marked]
      BY <2>2 DEF Cancel
    <3>2. CASE row' = [row EXCEPT ![t] = CancelledRow(t)]
      BY <1>0, <1>2, <3>2, CoveredRows
    <3>3. CASE row' = [row EXCEPT ![t].marked = TRUE, ![t].stale = @ /\ row[t].marked]
      <4>1. row' = [row EXCEPT ![t] = [row[t] EXCEPT !.marked = TRUE, !.stale = row[t].stale /\ row[t].marked]]
        BY <1>0, <3>3 DEF TypeOK, Row
      <4>2. QED
        BY <1>3, <4>1
    <3>4. QED
      BY <3>1, <3>2, <3>3
  <2>3. CASE Retry(a)
    <3>1. PICK R \in SUBSET {t \in Tasks : row[t].status \in {"partial", "failed", "cancelled"}} :
            row' = [t \in Tasks |-> IF t \in R THEN Retried(t) ELSE row[t]]
      BY <2>3 DEF Retry
    <3>2. \A t \in R : row[t].status \in {"partial", "failed", "cancelled"}
      BY <3>1
    <3>3. QED
      BY <1>0, <3>1, <3>2, CoveredRows DEF RowsCovered
  <2>4. CASE Delete(a)
    <3>1. PICK t \in Tasks : row' = [row EXCEPT ![t] = [NewRow EXCEPT !.status = "deleted"]]
      BY <2>4 DEF Delete
    <3>2. QED
      BY <1>0, <1>2, <3>1, CoveredRows
  <2>5. CASE Poll(a)
    BY <1>0, <2>5 DEF Poll, RowsCovered
  <2>6. QED
    BY <1>8, <2>1, <2>2, <2>3, <2>4, <2>5 DEF Request
<1>9. CASE Sweep
  <2>1. CASE CommitSweep
    BY <1>1, <2>1, Kinds DEF CommitSweep
  <2>2. CASE CommitSweepFails \/ Enqueue(Runner) \/ \E ripe \in Tasks : ReadSweep(ripe)
    BY <1>0, <2>2 DEF CommitSweepFails, Abandon, Enqueue, ReadSweep, RowsCovered
  <2>3. QED
    BY <1>4, <1>9, <2>1, <2>2, Kinds DEF Sweep
<1>10. ASSUME NEW t \in Tasks, RowGoesStale(t)
       PROVE  RowsCovered'
  <2>1. row' = [row EXCEPT ![t] = [row[t] EXCEPT !.marked = row[t].marked, !.stale = TRUE]]
    BY <1>0, <1>10 DEF RowGoesStale, TypeOK, Row
  <2>2. QED
    BY <1>3, <2>1
<1>11. ASSUME UNCHANGED row
       PROVE  RowsCovered'
  BY <1>0, <1>11 DEF RowsCovered
<1>12. CASE Environment \/ UNCHANGED vars
  BY <1>10, <1>11, <1>12 DEF Environment, Crash, JobFails, FailedJobExpires, LoseJob, vars
<1>13. QED
  BY <1>5, <1>7, <1>8, <1>9, <1>12, Kinds DEF Next

LEMMA CoverInit == Init => CoverInv
<1> SUFFICES ASSUME Init
             PROVE  CoverInv
  OBVIOUS
<1>1. \A t \in Tasks : row[t].status = "new"
  BY DEF Init, NewRow
<1>2. \A w \in Workers : pc[w] = "idle"
  BY Kinds DEF Init
<1>3. QED
  BY <1>1, <1>2 DEF CoverInv, RowsCovered, Covered, RunsCovered, TryPC

LEMMA CoverAlways ==
  ASSUME Serial, ~LateFailures
  PROVE  Spec => [](TypedInv /\ PayloadInv /\ ListedInv /\ CoverInv)
<1>1. TypedInv /\ SafeInv /\ PayloadInv /\ CoverInv /\ [Next]_vars => CoverInv'
  BY RowsCoveredStep, RunsCoveredStep DEF CoverInv
<1>2. QED
  BY <1>1, CoverInit, SafeAlways, ListedAlways, PTL DEF Spec

(* finalize_interrupted_listing_task, fail_listing_task_unexpectedly and    *)
(* the last transaction of _run_listing_task: in a finished task every      *)
(* product is a success or will be retried, and a task reported as          *)
(* successful has none left, over any number of stores, crashes and         *)
(* retries.                                                                 *)
THEOREM NoProductForgotten ==
  ASSUME Serial, ~LateFailures
  PROVE  Spec => []NothingForgotten
<1>1. ASSUME TypedInv, PayloadInv, ListedInv, CoverInv, NEW t \in Tasks
      PROVE  /\ row[t].status \in {"partial", "failed"} => ProductsOf[t] = row[t].ok \cup RetryIds(t)
             /\ row[t].status = "success" => ProductsOf[t] = row[t].ok
  <2>1. Covered(row[t], t) /\ row[t].ok \subseteq ProductsOf[t] /\ row[t].failed \subseteq ProductsOf[t]
    BY <1>1 DEF CoverInv, RowsCovered, ListedInv, RowsListed, ListedOf, PayloadInv, RowsInside, Inside
  <2>2. QED
    BY <2>1 DEF Covered, RetryIds
<1>2. TypedInv /\ PayloadInv /\ ListedInv /\ CoverInv => NothingForgotten
  BY <1>1 DEF NothingForgotten
<1>3. QED
  BY <1>2, CoverAlways, PTL
=============================================================================
