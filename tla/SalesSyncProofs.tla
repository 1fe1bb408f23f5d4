------------------------------ MODULE SalesSyncProofs ------------------------------
(***************************************************************************)
(* Proofs about SalesSyncLease: first what holds however slow the          *)
(* processes are, then what becomes of a run and its lease.                *)
(***************************************************************************)
EXTENDS MCSales, TLAPS

-----------------------------------------------------------------------------
(***************************************************************************)
(* The syncs of a store act one at a time, for every number of runs, every *)
(* timeout and however slow the processes are.                             *)
(***************************************************************************)

(* Processes of different kinds or runs differ. *)
LEMMA ProcFacts ==
  /\ \A r \in Runs : Call(r) \in Procs /\ Job(r) \in Procs
  /\ \A r, s \in Runs : Call(r) # Job(s)
  /\ \A r, s \in Runs : (Call(r) = Call(s) => r = s) /\ (Job(r) = Job(s) => r = s)
  /\ \A p \in Procs : p[2] \in Runs /\ (p = Call(p[2]) \/ p = Job(p[2]))
  /\ \A p \in Procs : p[1] = "job" <=> p = Job(p[2])
BY DEF Procs, Call, Job

(* Moving one process keeps pc a function of the right kind. *)
LEMMA GotoType ==
  ASSUME TypeOK, NEW p \in Procs, NEW label \in PCs, Goto(p, label)
  PROVE  pc' \in [Procs -> PCs]
BY DEF TypeOK, Goto

LEMMA FailRunType ==
  ASSUME TypeOK, NEW r \in Runs, FailRun(r)
  PROVE  run' \in [Runs -> RunRow]
BY ConstantsAssumption DEF TypeOK, FailRun, RunRow, RunStatus, Ages

LEMMA OlderType ==
  ASSUME NEW age \in Ages
  PROVE  Older(age) \in Ages
BY ConstantsAssumption DEF Ages, Older

LEMMA AbortType ==
  ASSUME TypeOK, NEW r \in Runs, Abort(r)
  PROVE  TypeOK'
BY ProcFacts DEF TypeOK, Abort, Goto, PCs, orders, RunRow, StateRow

LEMMA RenewType ==
  ASSUME TypeOK, NEW r \in Runs, Renew(r)
  PROVE  state' \in StateRow /\ run' \in [Runs -> RunRow] /\ beaten' \subseteq Runs
<1>1. state' = [state EXCEPT !.age = 0] /\ 0 \in Ages
  BY ConstantsAssumption DEF Renew, RenewedState, Ages
<1>2. state' \in StateRow
  BY <1>1 DEF TypeOK, StateRow
<1>3. [run[r] EXCEPT !.age = 0] \in RunRow
  BY <1>1 DEF TypeOK, RunRow
<1>4. run' \in [Runs -> RunRow]
  BY <1>3 DEF TypeOK, Renew, RenewedRun
<1>5. beaten' \subseteq Runs
  BY DEF TypeOK, Renew
<1>6. QED
  BY <1>2, <1>4, <1>5

LEMMA PulseType ==
  ASSUME TypeOK, NEW r \in Runs, NEW from \in PCs, NEW to \in PCs, PulseThen(r, from, to),
         beat' \in [Runs -> {"off", "on", "failed"}]
  PROVE  TypeOK'
<1>1. state' \in StateRow /\ run' \in [Runs -> RunRow] /\ beaten' \subseteq Runs
  BY RenewType DEF PulseThen
<1>2. pc' \in [Procs -> PCs]
  BY GotoType, ProcFacts DEF PulseThen
<1>3. QED
  BY <1>1, <1>2 DEF TypeOK, PulseThen, orders

(* Every step keeps the types. *)
LEMMA TypeStep ==
  ASSUME TypeOK, [Next]_vars
  PROVE  TypeOK'
<1> USE ProcFacts, ConstantsAssumption
<1>0. 0 \in Ages /\ \A s : s \in {"idle", "queued", "error"} => Fresh(s, NoRun) \in StateRow
  BY DEF Ages, Fresh, StateRow
<1>1. ASSUME NEW r \in Runs, QueueSync(r)
      PROVE  TypeOK'
  <2>1. state' \in StateRow /\ run' \in [Runs -> RunRow]
    BY <1>0, <1>1 DEF QueueSync, TypeOK, RunRow, RunStatus
  <2>2. pc' \in [Procs -> PCs]
    BY <1>1, GotoType DEF QueueSync, PCs
  <2>3. QED
    BY <1>1, <2>1, <2>2 DEF QueueSync, TypeOK
<1>2. ASSUME NEW r \in Runs, Enqueue(r) \/ EnqueueFails(r)
      PROVE  TypeOK'
  <2>1. pc' \in [Procs -> PCs]
    BY <1>2 DEF Enqueue, EnqueueFails, TypeOK, PCs
  <2>2. QED
    BY <1>2, <2>1 DEF Enqueue, EnqueueFails, TypeOK, orders
<1>3. ASSUME NEW r \in Runs, TakeJob(r) \/ StoreMissing(r) \/ Refuse(r) \/ Open(r)
      PROVE  TypeOK'
  <2>1. pc' \in [Procs -> PCs]
    BY <1>3, GotoType DEF TakeJob, StoreMissing, Refuse, Open, PCs, Working
  <2>2. QED
    BY <1>3, <2>1 DEF TakeJob, StoreMissing, Refuse, Open, TypeOK, orders
<1>4. ASSUME NEW r \in Runs, Acquire(r)
      PROVE  TypeOK'
  <2>1. state' \in StateRow
    BY <1>0, <1>4 DEF Acquire, StateRow
  <2>2. pc' \in [Procs -> PCs]
    BY <1>4, GotoType DEF Acquire, PCs, Working
  <2>3. QED
    BY <1>4, <2>1, <2>2 DEF Acquire, TypeOK, orders
<1>5. ASSUME NEW r \in Runs, Refused(r) \/ FailOwnRun(r)
      PROVE  TypeOK'
  <2>1. pc' \in [Procs -> PCs]
    BY <1>5, GotoType DEF Refused, FailOwnRun, PCs
  <2>2. run' \in [Runs -> RunRow]
    BY <1>5, FailRunType DEF Refused, FailOwnRun
  <2>3. QED
    BY <1>5, <2>1, <2>2 DEF Refused, FailOwnRun, TypeOK, orders
<1>6. ASSUME NEW r \in Runs, MarkRunning(r)
      PROVE  TypeOK'
  <2>1. pc' \in [Procs -> PCs]
    BY <1>6, GotoType DEF MarkRunning, PCs, Working
  <2>2. run' \in [Runs -> RunRow]
    BY <1>0, <1>6 DEF MarkRunning, TypeOK, RunRow, RunStatus
  <2>3. QED
    BY <1>6, <2>1, <2>2 DEF MarkRunning, TypeOK, orders
<1>7. ASSUME NEW r \in Runs, MarkFails(r) \/ PulseRaises(r) \/ OpenFails(r) \/ ReconcileFails(r)
                             \/ FinishFails(r) \/ WorkRaises(r)
      PROVE  TypeOK'
  BY <1>7, AbortType DEF MarkFails, PulseRaises, OpenFails, ReconcileFails, FinishFails, WorkRaises
<1>8. ASSUME NEW r \in Runs, Start(r) \/ Search(r) \/ Pulse(r)
      PROVE  TypeOK'
  <2>1. beat' \in [Runs -> {"off", "on", "failed"}]
    BY <1>8 DEF Start, Search, Pulse, TypeOK
  <2>2. {"start", "search", "get", "pulse", "open"} \subseteq PCs
    BY DEF PCs, Working
  <2>3. QED
    BY <1>8, <2>1, <2>2, PulseType DEF Start, Search, Pulse
<1>9. ASSUME NEW r \in Runs, GetOrders(r)
      PROVE  TypeOK'
  <2>1. pc' \in [Procs -> PCs]
    BY <1>9, GotoType DEF GetOrders, PCs, Working
  <2>2. seen' \in [Runs -> 0..MaxVersion]
    BY <1>9 DEF GetOrders, TypeOK
  <2>3. QED
    BY <1>9, <2>1, <2>2 DEF GetOrders, TypeOK
<1>10. ASSUME NEW r \in Runs, Reconcile(r)
       PROVE  TypeOK'
  <2>1. pc' \in [Procs -> PCs]
    BY <1>10, GotoType DEF Reconcile, PCs, Working
  <2>2. QED
    BY <1>10, <2>1 DEF Reconcile, TypeOK, orders
<1>11. ASSUME NEW r \in Runs, Finish(r)
       PROVE  TypeOK'
  <2>1. pc' \in [Procs -> PCs]
    BY <1>11, GotoType DEF Finish, Commit, PCs
  <2>2. run' \in [Runs -> RunRow] /\ state' \in StateRow
    BY <1>0, <1>11 DEF Finish, Commit, TypeOK, RunRow, RunStatus
  <2>3. QED
    BY <1>11, <2>1, <2>2 DEF Finish, Commit, TypeOK
<1>12. ASSUME NEW r \in Runs, Fail(r)
       PROVE  TypeOK'
  <2>1. pc' \in [Procs -> PCs]
    BY <1>12, GotoType DEF Fail, PCs
  <2>2. state' \in StateRow
    BY <1>0, <1>12 DEF Fail, TypeOK
  <2>3. QED
    BY <1>12, <2>1, <2>2 DEF Fail, TypeOK, orders
<1>13. ASSUME NEW r \in Runs, Beat(r)
       PROVE  TypeOK'
  BY <1>13, RenewType DEF Beat, TypeOK, orders
<1>14. ASSUME NEW r \in Runs, BeatFails(r)
       PROVE  TypeOK'
  BY <1>14 DEF BeatFails, TypeOK, orders
<1>15. ASSUME NEW r \in Runs, DeleteRun(r)
       PROVE  TypeOK'
  BY <1>0, <1>15 DEF DeleteRun, TypeOK, orders, RunRow, RunStatus
<1>16. ASSUME NEW p \in Procs, Repair(p) \/ LastFail(p) \/ Settle(p) \/ Crash(p)
       PROVE  TypeOK'
  <2>1. pc' \in [Procs -> PCs]
    BY <1>16, GotoType DEF Repair, LastFail, Settle, Crash, PCs
  <2>2. run' \in [Runs -> RunRow]
    BY <1>16, FailRunType DEF Repair, LastFail, Settle, Crash, TypeOK
  <2>3. state' \in StateRow
    BY <1>0, <1>16 DEF Repair, LastFail, Settle, Crash, TypeOK
  <2>4. beat' \in [Runs -> {"off", "on", "failed"}]
    BY <1>16 DEF Repair, LastFail, Settle, Crash, TypeOK
  <2>5. QED
    BY <1>16, <2>1, <2>2, <2>3, <2>4 DEF Repair, LastFail, Settle, Crash, TypeOK, orders
<1>17. CASE RecoverStale
  BY <1>0, <1>17 DEF RecoverStale, TypeOK, orders, RunRow, RunStatus
<1>18. CASE ReadStop
  BY <1>18 DEF ReadStop, TypeOK, orders
<1>19. CASE CommitStop
  <2>1. run' \in [Runs -> RunRow] /\ state' \in StateRow
    BY <1>0, <1>19 DEF CommitStop, TypeOK, RunRow, RunStatus
  <2>2. QED
    BY <1>19, <2>1 DEF CommitStop, NoStop, TypeOK, orders
<1>20. CASE RemoteChanges
  BY <1>20 DEF RemoteChanges, TypeOK
<1>21. CASE Tick
  <2>1. \A r \in Runs : run'[r] = run[r] \/ run'[r] = [run[r] EXCEPT !.age = Older(@)]
    BY <1>21 DEF Tick
  <2>2. \A r \in Runs : [run[r] EXCEPT !.age = Older(@)] \in RunRow
    BY OlderType DEF TypeOK, RunRow
  <2>3. run' \in [Runs -> RunRow]
    BY <1>21, <2>1, <2>2 DEF Tick, TypeOK
  <2>4. [state EXCEPT !.age = Older(@)] \in StateRow
    BY OlderType DEF TypeOK, StateRow
  <2>5. QED
    BY <1>21, <2>3, <2>4 DEF Tick, TypeOK, orders
<1>22. CASE UNCHANGED vars
  BY <1>22 DEF TypeOK, vars
<1>23. QED
  BY <1>1, <1>2, <1>3, <1>4, <1>5, <1>6, <1>7, <1>8, <1>9, <1>10, <1>11, <1>12, <1>13, <1>14,
     <1>15, <1>16, <1>17, <1>18, <1>19, <1>20, <1>21, <1>22 DEF Next, Step, SyncStep

(* The variables of a store's sync keep their types. *)
THEOREM SyncTyping == Spec => []TypeOK
<1>1. Init => TypeOK
  BY ConstantsAssumption DEF Init, TypeOK, Fresh, StateRow, RunRow, RunStatus, Ages, PCs, NoStop
<1>2. TypeOK /\ [Next]_vars => TypeOK'
  BY TypeStep
<1>3. QED
  BY <1>1, <1>2, PTL DEF Spec

-----------------------------------------------------------------------------
(* What a job has read when it is at a step: nothing before it takes the    *)
(* lease, a version once it has the details; a run without a job yet has    *)
(* none.  What the holder of the lease has read is not older than what is   *)
(* stored, because only the holder stores.                                  *)
ReadInv ==
  \A r \in Runs :
    /\ pc[Call(r)] = "dispatch" => pc[Job(r)] = "idle"
    /\ pc[Call(r)] = "dispatch" \/ pc[Job(r)] \in {"waiting", "acquire"} => seen[r] = 0
    /\ pc[Job(r)] \in {"pulse", "open", "reconcile", "finish"} => seen[r] # 0
    /\ seen[r] <= remote
    /\ Held(r) => seen[r] = 0 \/ stored <= seen[r]
VersionInv == ReadInv /\ stored <= remote

(* A step that moves no orders and gives the lease to nobody keeps ReadInv, *)
(* if the processes it moves stay where ReadInv says the same of them.      *)
Quiet(r) ==
  /\ pc'[Call(r)] = "dispatch" => pc[Call(r)] = "dispatch"
  /\ pc[Call(r)] = "dispatch" /\ pc'[Call(r)] = "dispatch" => pc'[Job(r)] \in {"idle", pc[Job(r)]}
  /\ pc'[Job(r)] \in {"waiting", "acquire"} =>
       pc[Job(r)] \in {"waiting", "acquire"} \/ pc[Call(r)] = "dispatch"
  /\ pc'[Job(r)] \in {"pulse", "open", "reconcile", "finish"} =>
       pc[Job(r)] \in {"pulse", "open", "reconcile", "finish"}
  /\ Held(r)' => Held(r)

LEMMA QuietKeeps ==
  ASSUME TypeOK, VersionInv, UNCHANGED <<seen, remote, stored>>, \A r \in Runs : Quiet(r)
  PROVE  VersionInv'
<1>1. SUFFICES ASSUME NEW r \in Runs
               PROVE  /\ pc'[Call(r)] = "dispatch" => pc'[Job(r)] = "idle"
                      /\ pc'[Call(r)] = "dispatch" \/ pc'[Job(r)] \in {"waiting", "acquire"} => seen'[r] = 0
                      /\ pc'[Job(r)] \in {"pulse", "open", "reconcile", "finish"} => seen'[r] # 0
                      /\ seen'[r] <= remote'
                      /\ Held(r)' => seen'[r] = 0 \/ stored' <= seen'[r]
  BY DEF VersionInv, ReadInv
<1>2. Quiet(r)
  OBVIOUS
<1>3. pc'[Call(r)] = "dispatch" => pc'[Job(r)] = "idle"
  BY <1>2 DEF Quiet, VersionInv, ReadInv
<1>4. QED
  BY <1>2, <1>3 DEF Quiet, VersionInv, ReadInv

(* The usual case: one process moves between steps of the same kind.        *)
LEMMA QuietMove ==
  ASSUME TypeOK, NEW p \in Procs, NEW label \in PCs, Goto(p, label),
         label # "dispatch",
         label \in {"waiting", "acquire"} => pc[p] \in {"waiting", "acquire"},
         label \in {"pulse", "open", "reconcile", "finish"} =>
           pc[p] \in {"pulse", "open", "reconcile", "finish"},
         \A r \in Runs : pc[Call(r)] = "dispatch" /\ p = Job(r) => label \in {"idle", pc[p]},
         \A r \in Runs : Held(r)' => Held(r)
  PROVE  \A r \in Runs : Quiet(r)
<1>1. \A q \in Procs : pc'[q] = IF q = p THEN label ELSE pc[q]
  BY DEF TypeOK, Goto
<1>2. QED
  BY <1>1, ProcFacts DEF Quiet

LEMMA HeldKept ==
  ASSUME UNCHANGED state \/ state'.status # "running" \/
         (state'.status = state.status /\ state'.holder = state.holder)
  PROVE  \A r \in Runs : Held(r)' => Held(r)
BY DEF Held

LEMMA RenewKeepsLease ==
  ASSUME TypeOK, NEW r \in Runs, Renew(r)
  PROVE  state'.status = state.status /\ state'.holder = state.holder
BY DEF TypeOK, StateRow, Renew, RenewedState

(* Every step keeps what is known of the versions. *)
LEMMA VersionStep ==
  ASSUME TypeOK, TypeOK', VersionInv, [Next]_vars
  PROVE  VersionInv'
<1> USE ProcFacts
<1> DEFINE Same == state'.status = state.status /\ state'.holder = state.holder
<1>1. ASSUME NEW r \in Runs, QueueSync(r)
      PROVE  VersionInv'
  <2>1. \A q \in Procs : pc'[q] = IF q = Call(r) THEN "dispatch" ELSE pc[q]
    BY <1>1 DEF QueueSync, TypeOK, Goto
  <2>2. \A s \in Runs : ~Held(s)'
    BY <1>1 DEF QueueSync, Fresh, Held
  <2>3. pc[Job(r)] = "idle"
    BY <1>1 DEF QueueSync, Unused
  <2>4. \A s \in Runs : seen'[s] = IF s = r THEN 0 ELSE seen[s]
    BY <1>1 DEF QueueSync, TypeOK
  <2>5. UNCHANGED <<remote, stored>> /\ remote \in Nat
    BY <1>1 DEF QueueSync, TypeOK
  <2>6. QED
    BY <2>1, <2>2, <2>3, <2>4, <2>5 DEF VersionInv, ReadInv
<1>2. ASSUME NEW r \in Runs, Enqueue(r) \/ EnqueueFails(r)
      PROVE  VersionInv'
  <2>1. \A s \in Runs : Held(s)' => Held(s)
    BY <1>2, HeldKept DEF Enqueue, EnqueueFails
  <2>2. pc[Call(r)] = "dispatch" /\ pc'[Call(r)] # "dispatch" /\ pc'[Job(r)] \in {"idle", "waiting"}
    BY <1>2 DEF Enqueue, EnqueueFails, TypeOK
  <2>3. \A q \in Procs : q # Call(r) /\ q # Job(r) => pc'[q] = pc[q]
    BY <1>2 DEF Enqueue, EnqueueFails, TypeOK
  <2>4. \A s \in Runs : Quiet(s)
    BY <2>1, <2>2, <2>3 DEF Quiet
  <2>5. QED
    BY <1>2, <2>4, QuietKeeps DEF Enqueue, EnqueueFails, orders
<1>3. ASSUME NEW r \in Runs,
             \/ TakeJob(r) \/ StoreMissing(r) \/ Refuse(r) \/ Open(r) \/ Refused(r)
             \/ FailOwnRun(r) \/ MarkRunning(r) \/ MarkFails(r) \/ PulseRaises(r)
             \/ OpenFails(r) \/ Reconcile(r) \/ ReconcileFails(r) \/ FinishFails(r)
             \/ WorkRaises(r)
      PROVE  VersionInv'
  <2>1. \A s \in Runs : Held(s)' => Held(s)
    BY <1>3, HeldKept DEF TakeJob, StoreMissing, Refuse, Open, Refused, FailOwnRun, MarkRunning,
       MarkFails, PulseRaises, OpenFails, Reconcile, ReconcileFails, FinishFails, WorkRaises,
       Abort, Fresh
  <2>2. UNCHANGED <<seen, remote, stored>>
    BY <1>3 DEF TakeJob, StoreMissing, Refuse, Open, Refused, FailOwnRun, MarkRunning,
       MarkFails, PulseRaises, OpenFails, Reconcile, ReconcileFails, FinishFails, WorkRaises,
       Abort, orders
  <2>3. pc[Job(r)] # "idle"
    BY <1>3 DEF TakeJob, StoreMissing, Refuse, Open, Refused, FailOwnRun, MarkRunning,
       MarkFails, PulseRaises, OpenFails, Reconcile, ReconcileFails, FinishFails, WorkRaises
  <2>4. pc[Call(r)] # "dispatch"
    BY <2>3 DEF VersionInv, ReadInv
  <2>5. \A s \in Runs : Quiet(s)
    <3>1. PICK label \in PCs :
            /\ Goto(Job(r), label)
            /\ label # "dispatch"
            /\ label \in {"waiting", "acquire"} => pc[Job(r)] \in {"waiting", "acquire"}
            /\ label \in {"pulse", "open", "reconcile", "finish"} =>
                 pc[Job(r)] \in {"pulse", "open", "reconcile", "finish"}
      BY <1>3 DEF TakeJob, StoreMissing, Refuse, Open, Refused, FailOwnRun, MarkRunning,
         MarkFails, PulseRaises, OpenFails, Reconcile, ReconcileFails, FinishFails, WorkRaises,
         Abort, PCs, Working
    <3>2. QED
      BY <2>1, <2>4, <3>1, QuietMove
  <2>6. QED
    BY <2>2, <2>5, QuietKeeps
<1>4. ASSUME NEW r \in Runs, Acquire(r)
      PROVE  VersionInv'
  <2>1. \A q \in Procs : pc'[q] = IF q = Job(r) THEN "mark" ELSE pc[q]
    BY <1>4 DEF Acquire, TypeOK, Goto
  <2>2. \A s \in Runs : Held(s)' => s = r
    BY <1>4 DEF Acquire, Held
  <2>3. seen[r] = 0 /\ pc[Job(r)] = "acquire" /\ UNCHANGED <<seen, remote, stored>>
    BY <1>4 DEF Acquire, VersionInv, ReadInv, orders
  <2>4. QED
    BY <2>1, <2>2, <2>3 DEF VersionInv, ReadInv
<1>5. ASSUME NEW r \in Runs, Start(r) \/ Search(r) \/ Pulse(r)
      PROVE  VersionInv'
  <2>1. Same
    BY <1>5, RenewKeepsLease DEF Start, Search, Pulse, PulseThen
  <2>2. \A s \in Runs : Held(s)' => Held(s)
    BY <2>1, HeldKept
  <2>3. pc[Call(r)] # "dispatch"
    BY <1>5 DEF Start, Search, Pulse, PulseThen, VersionInv, ReadInv
  <2>4. PICK label \in PCs :
          /\ Goto(Job(r), label)
          /\ label # "dispatch" /\ label \notin {"waiting", "acquire"}
          /\ label \in {"pulse", "open", "reconcile", "finish"} => pc[Job(r)] = "pulse"
    BY <1>5 DEF Start, Search, Pulse, PulseThen, PCs, Working
  <2>5. \A s \in Runs : Quiet(s)
    BY <2>2, <2>3, <2>4, QuietMove
  <2>6. QED
    BY <1>5, <2>5, QuietKeeps DEF Start, Search, Pulse, PulseThen, orders
<1>6. ASSUME NEW r \in Runs, GetOrders(r)
      PROVE  VersionInv'
  <2>1. \A q \in Procs : pc'[q] = IF q = Job(r) THEN "pulse" ELSE pc[q]
    BY <1>6 DEF GetOrders, TypeOK, Goto
  <2>2. \A s \in Runs : seen'[s] = IF s = r THEN remote ELSE seen[s]
    BY <1>6 DEF GetOrders, TypeOK
  <2>3. pc[Call(r)] # "dispatch"
    BY <1>6 DEF GetOrders, VersionInv, ReadInv
  <2>4. UNCHANGED <<state, remote, stored>> /\ remote \in Nat \ {0}
    BY <1>6 DEF GetOrders, TypeOK
  <2>5. QED
    BY <2>1, <2>2, <2>3, <2>4 DEF VersionInv, ReadInv, Held
<1>7. ASSUME NEW r \in Runs, Finish(r)
      PROVE  VersionInv'
  <2>1. \A q \in Procs : pc'[q] = IF q = Job(r) THEN "idle" ELSE pc[q]
    BY <1>7 DEF Finish, Commit, TypeOK, Goto
  <2>2. \A s \in Runs : ~Held(s)'
    BY <1>7 DEF Finish, Commit, Fresh, Held
  <2>3. /\ stored' = seen[r] /\ UNCHANGED remote /\ remote \in Nat
        /\ \A s \in Runs : seen'[s] = IF s = r THEN 0 ELSE seen[s]
    BY <1>7 DEF Finish, Commit, TypeOK
  <2>4. QED
    BY <2>1, <2>2, <2>3 DEF VersionInv, ReadInv
<1>8. ASSUME NEW p \in Procs, Repair(p) \/ LastFail(p) \/ Settle(p) \/ Crash(p)
      PROVE  VersionInv'
  <2>1. \A s \in Runs : Held(s)' => Held(s)
    BY <1>8, HeldKept DEF Repair, LastFail, Settle, Crash, Fresh
  <2>2. PICK label \in PCs :
          /\ Goto(p, label)
          /\ label \notin {"dispatch", "waiting", "acquire", "pulse", "open", "reconcile", "finish"}
          /\ label = "idle" \/ pc[p] \in {"repair", "settle", "lastFail"}
    BY <1>8 DEF Repair, LastFail, Settle, Crash, PCs
  <2>3. \A s \in Runs : pc[Call(s)] = "dispatch" /\ p = Job(s) => label \in {"idle", pc[p]}
    BY <2>2 DEF VersionInv, ReadInv
  <2>4. \A s \in Runs : Quiet(s)
    BY <2>1, <2>2, <2>3, QuietMove
  <2>5. QED
    BY <1>8, <2>4, QuietKeeps DEF Repair, LastFail, Settle, Crash, orders
<1>9. ASSUME UNCHANGED pc, UNCHANGED <<seen, remote, stored>>, Same \/ state'.status # "running"
      PROVE  VersionInv'
  <2>1. \A s \in Runs : Quiet(s)
    BY <1>9, HeldKept DEF Quiet
  <2>2. QED
    BY <1>9, <2>1, QuietKeeps
<1>10. ASSUME NEW r \in Runs, Beat(r) \/ BeatFails(r) \/ DeleteRun(r)
       PROVE  VersionInv'
  BY <1>9, <1>10, RenewKeepsLease DEF Beat, BeatFails, DeleteRun, orders
<1>11. CASE RecoverStale \/ ReadStop \/ CommitStop \/ Tick \/ UNCHANGED vars
  <2>1. Same \/ state'.status # "running"
    BY <1>11 DEF RecoverStale, ReadStop, CommitStop, Tick, vars, Fresh, TypeOK, StateRow
  <2>2. QED
    BY <1>9, <1>11, <2>1 DEF RecoverStale, ReadStop, CommitStop, Tick, vars, orders
<1>12. CASE RemoteChanges
  BY <1>12 DEF RemoteChanges, VersionInv, ReadInv, Held, TypeOK
<1>13. ASSUME NEW r \in Runs, Fail(r)
       PROVE  VersionInv'
  <2>1. \A q \in Procs : pc'[q] = IF q = Job(r) THEN "failRun" ELSE pc[q]
    BY <1>13 DEF Fail, TypeOK, Goto
  <2>2. \A s \in Runs : Held(s)' => Held(s)
    BY <1>13, HeldKept DEF Fail, Fresh
  <2>3. /\ UNCHANGED <<remote, stored>> /\ remote \in Nat
        /\ \A s \in Runs : seen'[s] = IF s = r THEN 0 ELSE seen[s]
    BY <1>13 DEF Fail, TypeOK
  <2>4. pc[Call(r)] # "dispatch"
    BY <1>13 DEF Fail, VersionInv, ReadInv
  <2>5. QED
    BY <2>1, <2>2, <2>3, <2>4 DEF VersionInv, ReadInv
<1>14. QED
  BY <1>1, <1>2, <1>3, <1>4, <1>5, <1>6, <1>7, <1>8, <1>10, <1>11, <1>12, <1>13
     DEF Next, Step, SyncStep

LEMMA Versions == Spec => []VersionInv
<1>1. Init => VersionInv
  BY ProcFacts DEF Init, VersionInv, ReadInv, Held, Fresh
<1>2. TypeOK /\ TypeOK' /\ VersionInv /\ [Next]_vars => VersionInv'
  BY VersionStep
<1>3. QED
  BY <1>1, <1>2, SyncTyping, PTL DEF Spec

-----------------------------------------------------------------------------
(* Orders are stored by the holder of the lease only, and by then it has    *)
(* read them.                                                               *)
LEMMA OnlyHolderStores ==
  ASSUME TypeOK, VersionInv, [Next]_vars, stored' # stored
  PROVE  \E r \in Runs : Finish(r) /\ Held(r) /\ seen[r] # 0 /\ stored' = seen[r]
<1>1. PICK r \in Runs : Finish(r)
  BY DEF Next, Step, SyncStep, vars, orders, QueueSync, Enqueue, EnqueueFails, TakeJob, StoreMissing,
     Acquire, Refuse, Refused, MarkRunning, MarkFails, Start, Search, GetOrders, Pulse, PulseThen,
     PulseRaises, Open, OpenFails, Reconcile, ReconcileFails, FinishFails, Fail, FailOwnRun,
     WorkRaises, Abort, Beat, BeatFails, DeleteRun, Repair, LastFail, Settle, Crash, RecoverStale,
     ReadStop, CommitStop, RemoteChanges, Tick
<1>2. QED
  BY <1>1 DEF Finish, Commit, VersionInv, ReadInv

(* The stored orders are never replaced by an older version, although a     *)
(* slow owner may lose its lease between reading and storing.               *)
THEOREM NeverOlder == Spec => OrdersNeverOlder
<1> DEFINE A == stored' >= stored
<1>1. TypeOK /\ TypeOK' /\ VersionInv /\ [Next]_vars => A
  <2> SUFFICES ASSUME TypeOK, VersionInv, [Next]_vars
               PROVE  A
    OBVIOUS
  <2>1. CASE stored' = stored
    BY <2>1 DEF TypeOK
  <2>2. CASE stored' # stored
    BY <2>2, OnlyHolderStores DEF VersionInv, ReadInv, TypeOK
  <2>3. QED
    BY <2>1, <2>2
<1> HIDE DEF A
<1>2. [][A]_vars => OrdersNeverOlder
  BY PTL DEF OrdersNeverOlder, A
<1>3. QED
  BY <1>1, <1>2, SyncTyping, Versions, PTL DEF Spec

-----------------------------------------------------------------------------
(* The refinement: a sync is active while the state names its lease.        *)

LEMMA LeaseFreed ==
  ASSUME state'.status # "running", UNCHANGED <<remote, stored>>
  PROVE  Serially!Leave
BY DEF Serially!Leave

(* A lease in force names its owner.                                       *)
HolderInv == state.status = "running" => state.holder \in Runs

LEMMA HolderStep ==
  ASSUME TypeOK, HolderInv, [Next]_vars
  PROVE  HolderInv'
<1> DEFINE Same == state'.status = state.status /\ state'.holder = state.holder
<1>1. ASSUME NEW r \in Runs, Acquire(r)
      PROVE  HolderInv'
  BY <1>1 DEF Acquire, HolderInv
<1>2. ASSUME NEW r \in Runs, Start(r) \/ Search(r) \/ Pulse(r) \/ Beat(r)
      PROVE  Same
  BY <1>2, RenewKeepsLease DEF Start, Search, Pulse, PulseThen, Beat
<1>3. ASSUME NEW r \in Runs,
             \/ QueueSync(r) \/ Enqueue(r) \/ EnqueueFails(r) \/ TakeJob(r) \/ StoreMissing(r)
             \/ Refuse(r) \/ Refused(r) \/ MarkRunning(r) \/ MarkFails(r) \/ GetOrders(r)
             \/ PulseRaises(r) \/ Open(r) \/ OpenFails(r) \/ Reconcile(r) \/ ReconcileFails(r)
             \/ Finish(r) \/ FinishFails(r) \/ Fail(r) \/ FailOwnRun(r) \/ WorkRaises(r)
             \/ BeatFails(r) \/ DeleteRun(r)
      PROVE  UNCHANGED state \/ state'.status # "running"
  BY <1>3 DEF QueueSync, Enqueue, EnqueueFails, TakeJob, StoreMissing, Refuse, Refused,
     MarkRunning, MarkFails, GetOrders, PulseRaises, Open, OpenFails, Reconcile, ReconcileFails,
     Finish, Commit, FinishFails, Fail, FailOwnRun, WorkRaises, BeatFails, DeleteRun, Abort, Fresh
<1>4. ASSUME NEW p \in Procs, Repair(p) \/ LastFail(p) \/ Settle(p) \/ Crash(p)
      PROVE  UNCHANGED state \/ state'.status # "running"
  BY <1>4 DEF Repair, LastFail, Settle, Crash, Fresh
<1>5. CASE RecoverStale \/ ReadStop \/ CommitStop \/ RemoteChanges \/ Tick \/ UNCHANGED vars
  <2>1. Same \/ state'.status # "running"
    BY <1>5 DEF RecoverStale, ReadStop, CommitStop, RemoteChanges, Tick, vars, Fresh, TypeOK,
       StateRow
  <2>2. QED
    BY <2>1 DEF HolderInv
<1>6. QED
  BY <1>1, <1>2, <1>3, <1>4, <1>5 DEF Next, Step, SyncStep, HolderInv

LEMMA LeaseAndReadKept ==
  ASSUME state'.status = state.status, state'.holder = state.holder,
         UNCHANGED <<seen, remote, stored>>
  PROVE  UNCHANGED Serially!absVars
BY DEF Serially!absVars

(* Every step of a sync is a step of the serial syncs, or invisible to them. *)
LEMMA SerialStep ==
  ASSUME TypeOK, VersionInv, HolderInv, [Next]_vars
  PROVE  [Serially!Next]_(Serially!absVars)
<1> USE ProcFacts
<1>1. ASSUME NEW r \in Runs, QueueSync(r)
      PROVE  Serially!Next
  BY <1>1, LeaseFreed DEF QueueSync, Fresh, Serially!Next
<1>2. ASSUME NEW r \in Runs, Acquire(r)
      PROVE  Serially!Next
  <2>1. seen'[r] = 0 /\ UNCHANGED <<remote, stored>>
    BY <1>2 DEF Acquire, orders, VersionInv, ReadInv
  <2>2. Serially!Enter(r)
    BY <1>2, <2>1 DEF Acquire, Serially!Enter
  <2>3. QED
    BY <2>2 DEF Serially!Next
<1>3. ASSUME NEW r \in Runs, GetOrders(r)
      PROVE  [Serially!Next]_(Serially!absVars)
  <2>1. \A s \in Runs \cup {NoRun} : s # r => seen'[s] = seen[s]
    BY <1>3 DEF GetOrders
  <2>2. CASE Held(r)
    <3>1. seen'[r] = remote /\ NoRun \notin Runs
      BY <1>3, ConstantsAssumption DEF GetOrders, TypeOK
    <3>2. Serially!Read
      BY <1>3, <2>2, <3>1 DEF GetOrders, Held, Serially!Read
    <3>3. QED
      BY <3>2 DEF Serially!Next
  <2>3. CASE ~Held(r)
    BY <1>3, <2>1, <2>3 DEF GetOrders, Held, TypeOK, StateRow, Serially!absVars
  <2>4. QED
    BY <2>2, <2>3
<1>4. ASSUME NEW r \in Runs, Finish(r)
      PROVE  Serially!Next
  <2>1. Held(r) /\ seen[r] # 0 /\ stored' = seen[r] /\ UNCHANGED remote /\ state'.status = "idle"
    BY <1>4 DEF Finish, Commit, VersionInv, ReadInv, Fresh
  <2>2. Serially!Store
    BY <2>1 DEF Held, Serially!Store
  <2>3. QED
    BY <2>2 DEF Serially!Next
<1>5. ASSUME NEW r \in Runs, Fail(r)
      PROVE  [Serially!Next]_(Serially!absVars)
  <2>1. CASE Held(r)
    BY <1>5, <2>1, LeaseFreed DEF Fail, Fresh, orders, Serially!Next
  <2>2. CASE ~Held(r)
    <3>1. /\ UNCHANGED <<state, remote, stored>>
          /\ \A s \in Runs \ {r} : seen'[s] = seen[s]
      BY <1>5, <2>2 DEF Fail, TypeOK
    <3>2. state.status = "running" => state.holder \in Runs \ {r}
      BY <2>2 DEF Held, HolderInv
    <3>3. QED
      BY <3>1, <3>2 DEF Serially!absVars
  <2>3. QED
    BY <2>1, <2>2
<1>6. ASSUME NEW p \in Procs, Settle(p)
      PROVE  Serially!Next
  BY <1>6, LeaseFreed DEF Settle, Fresh, orders, Serially!Next
<1>7. CASE CommitStop
  <2>1. CASE UNCHANGED state
    BY <1>7, <2>1, LeaseAndReadKept DEF CommitStop, orders
  <2>2. CASE state' = Fresh("idle", NoRun)
    BY <1>7, <2>2, LeaseFreed DEF CommitStop, Fresh, orders, Serially!Next
  <2>3. QED
    BY <1>7, <2>1, <2>2 DEF CommitStop
<1>8. CASE RemoteChanges
  <2>1. Serially!RemoteChanges
    BY <1>8 DEF RemoteChanges, Serially!RemoteChanges
  <2>2. QED
    BY <2>1 DEF Serially!Next
<1>9. ASSUME NEW r \in Runs,
             \/ Enqueue(r) \/ EnqueueFails(r) \/ StoreMissing(r) \/ TakeJob(r) \/ Refuse(r)
             \/ Refused(r) \/ MarkRunning(r) \/ MarkFails(r) \/ PulseRaises(r) \/ Open(r)
             \/ OpenFails(r) \/ Reconcile(r) \/ ReconcileFails(r) \/ FinishFails(r)
             \/ FailOwnRun(r) \/ WorkRaises(r) \/ BeatFails(r) \/ DeleteRun(r)
      PROVE  UNCHANGED Serially!absVars
  BY <1>9, LeaseAndReadKept DEF Enqueue, EnqueueFails, StoreMissing, TakeJob, Refuse, Refused,
     MarkRunning, MarkFails, PulseRaises, Open, OpenFails, Reconcile, ReconcileFails, FinishFails,
     FailOwnRun, WorkRaises, BeatFails, DeleteRun, Abort, orders
<1>10. ASSUME NEW r \in Runs, Start(r) \/ Search(r) \/ Pulse(r) \/ Beat(r)
       PROVE  UNCHANGED Serially!absVars
  BY <1>10, RenewKeepsLease, LeaseAndReadKept DEF Start, Search, Pulse, PulseThen, Beat, orders
<1>11. ASSUME NEW p \in Procs, Repair(p) \/ LastFail(p) \/ Crash(p)
       PROVE  UNCHANGED Serially!absVars
  BY <1>11, LeaseAndReadKept DEF Repair, LastFail, Crash, orders
<1>12. CASE RecoverStale \/ ReadStop \/ Tick \/ UNCHANGED vars
  <2>1. state'.status = state.status /\ state'.holder = state.holder
    BY <1>12 DEF RecoverStale, ReadStop, Tick, vars, TypeOK, StateRow
  <2>2. QED
    BY <1>12, <2>1, LeaseAndReadKept DEF RecoverStale, ReadStop, Tick, vars, orders
<1>13. QED
  BY <1>1, <1>2, <1>3, <1>4, <1>5, <1>6, <1>7, <1>8, <1>9, <1>10, <1>11, <1>12
     DEF Next, Step, SyncStep

(* The syncs of a store act one at a time: the lease with its takeovers and *)
(* slow owners implements StoreOrders.                                      *)
THEOREM SerialSyncs == Spec => ActsSerially
<1>1. Init => Serially!Init
  BY DEF Init, Fresh, Serially!Init
<1>2. TypeOK /\ VersionInv /\ HolderInv /\ [Next]_vars => [Serially!Next]_(Serially!absVars)
  BY SerialStep
<1>3. Init => HolderInv
  BY DEF Init, Fresh, HolderInv
<1>4. TypeOK /\ HolderInv /\ [Next]_vars => HolderInv'
  BY HolderStep
<1>5. QED
  BY <1>1, <1>2, <1>3, <1>4, SyncTyping, Versions, PTL DEF Spec, ActsSerially, Serially!Spec

-----------------------------------------------------------------------------
(***************************************************************************)
(* What the runs of a store record, for every number of runs and every     *)
(* timeout.  Success and failure are final, however slow the processes are *)
(* and however they overlap.  Where transactions that write what they read *)
(* without a lock do not overlap others (Serial) and heartbeats come in    *)
(* time (not Slow), a live owner keeps its lease, and the outcome says     *)
(* whether orders were stored.                                             *)
(***************************************************************************)

(* At most one transaction is open, and what it has read still holds.       *)
OneOpen ==
  /\ stopping.runs # {} => \A p \in Procs : pc[p] # "settle"
  /\ \A p, q \in Procs : pc[p] = "settle" /\ pc[q] = "settle" => p = q
ReadsHold ==
  /\ \A p \in Procs : pc[p] = "settle" => state.status = "queued"
  /\ \A r \in stopping.runs : run[r].status \in ActiveRun
  /\ stopping.runs # {} => (stopping.reset <=> state.status # "idle")
SerialInv == OneOpen /\ ReadsHold
NoneSettles == \A p \in Procs : pc[p] # "settle"

LEMMA SerialInvStep ==
  ASSUME Serial, TypeOK, SerialInv, [Next]_vars
  PROVE  SerialInv'
<1> USE ProcFacts
<1>1. CASE ~OpenTransaction /\ Step
  <2>1. stopping.runs = {} /\ \A p \in Procs : pc[p] # "settle"
    BY <1>1 DEF OpenTransaction
  <2>2. ASSUME NEW p \in Procs, Repair(p)
        PROVE  SerialInv'
    <3>1. \A q \in Procs : pc'[q] = "settle" => q = p /\ state.status = "queued"
      BY <2>1, <2>2 DEF Repair, TypeOK, Goto
    <3>2. QED
      BY <2>1, <2>2, <3>1 DEF Repair, SerialInv, OneOpen, ReadsHold
  <2>3. ASSUME NEW r \in Runs,
               \/ QueueSync(r) \/ Enqueue(r) \/ EnqueueFails(r) \/ StoreMissing(r) \/ TakeJob(r)
               \/ Acquire(r) \/ Refuse(r) \/ Refused(r) \/ MarkRunning(r) \/ MarkFails(r)
               \/ Start(r) \/ Search(r) \/ GetOrders(r) \/ Pulse(r) \/ PulseRaises(r) \/ Open(r)
               \/ OpenFails(r) \/ Reconcile(r) \/ ReconcileFails(r) \/ Finish(r) \/ FinishFails(r)
               \/ Fail(r) \/ FailOwnRun(r) \/ WorkRaises(r) \/ Beat(r) \/ BeatFails(r)
               \/ DeleteRun(r)
        PROVE  SerialInv'
    <3>1. NoneSettles'
      <4>1. ASSUME NEW p \in Procs, NEW label \in PCs \ {"settle"}, Goto(p, label)
            PROVE  NoneSettles'
        BY <2>1, <4>1 DEF TypeOK, Goto, NoneSettles
      <4>2. CASE QueueSync(r) \/ Refuse(r) \/ StoreMissing(r) \/ TakeJob(r) \/ Acquire(r) \/ Refused(r)
                 \/ MarkRunning(r) \/ GetOrders(r) \/ Open(r) \/ Reconcile(r) \/ Fail(r) \/ FailOwnRun(r)
                 \/ Finish(r)
        <5>1. \E p \in Procs, label \in PCs \ {"settle"} : Goto(p, label)
          BY <4>2 DEF QueueSync, Refuse, StoreMissing, TakeJob, Acquire, Refused, MarkRunning, GetOrders,
             Open, Reconcile, Fail, FailOwnRun, Finish, Commit, PCs, Working
        <5>2. QED
          BY <4>1, <5>1
      <4>3. CASE Start(r) \/ Search(r) \/ Pulse(r)
        <5>1. \E p \in Procs, label \in PCs \ {"settle"} : Goto(p, label)
          BY <4>3 DEF Start, Search, Pulse, PulseThen, PCs, Working
        <5>2. QED
          BY <4>1, <5>1
      <4>4. CASE MarkFails(r) \/ PulseRaises(r) \/ OpenFails(r) \/ ReconcileFails(r) \/ FinishFails(r)
                 \/ WorkRaises(r)
        <5>1. Goto(Job(r), "fail")
          BY <4>4 DEF MarkFails, PulseRaises, OpenFails, ReconcileFails, FinishFails, WorkRaises, Abort
        <5>2. QED
          BY <4>1, <5>1 DEF PCs
      <4>5. CASE Enqueue(r) \/ EnqueueFails(r)
        BY <2>1, <4>5 DEF Enqueue, EnqueueFails, TypeOK, NoneSettles
      <4>6. CASE Beat(r) \/ BeatFails(r) \/ DeleteRun(r)
        BY <2>1, <4>6 DEF Beat, BeatFails, DeleteRun, NoneSettles
      <4>7. QED
        BY <2>3, <4>2, <4>3, <4>4, <4>5, <4>6
    <3>2. stopping' = stopping
      BY <2>3 DEF QueueSync, Enqueue, EnqueueFails, StoreMissing, TakeJob, Acquire, Refuse,
         Refused, MarkRunning, MarkFails, Start, Search, GetOrders, Pulse, PulseThen, PulseRaises,
         Open, OpenFails, Reconcile, ReconcileFails, Finish, FinishFails, Commit, Fail, FailOwnRun,
         WorkRaises, Abort, Beat, BeatFails, DeleteRun
    <3>3. QED
      BY <2>1, <3>1, <3>2 DEF SerialInv, OneOpen, ReadsHold, NoneSettles
  <2>4. ASSUME NEW p \in Procs, LastFail(p)
        PROVE  SerialInv'
    <3>1. \A q \in Procs : pc'[q] # "settle"
      BY <2>1, <2>4 DEF LastFail, TypeOK, Goto
    <3>2. QED
      BY <2>1, <2>4, <3>1 DEF LastFail, SerialInv, OneOpen, ReadsHold
  <2>5. CASE ReadStop
    BY <2>1, <2>5 DEF ReadStop, SerialInv, OneOpen, ReadsHold
  <2>6. CASE RecoverStale \/ RemoteChanges \/ Tick
    BY <2>1, <2>6 DEF RecoverStale, RemoteChanges, Tick, SerialInv, OneOpen, ReadsHold
  <2>7. QED
    BY <1>1, <2>2, <2>3, <2>4, <2>5, <2>6 DEF Step, SyncStep
<1>2. CASE CommitStop
  BY <1>2 DEF CommitStop, NoStop, SerialInv, OneOpen, ReadsHold
<1>3. ASSUME NEW p \in Procs, Settle(p)
      PROVE  SerialInv'
  <2>1. \A q \in Procs : pc'[q] # "settle"
    BY <1>3 DEF Settle, SerialInv, OneOpen, TypeOK, Goto
  <2>2. stopping'.runs = {}
    BY <1>3 DEF Settle, SerialInv, OneOpen, TypeOK
  <2>3. QED
    BY <2>1, <2>2 DEF SerialInv, OneOpen, ReadsHold
<1>4. ASSUME NEW p \in Procs, Crash(p)
      PROVE  SerialInv'
  <2>1. \A q \in Procs : pc'[q] = "settle" => pc[q] = "settle"
    BY <1>4 DEF Crash, TypeOK, Goto
  <2>2. QED
    BY <1>4, <2>1 DEF Crash, SerialInv, OneOpen, ReadsHold
<1>5. CASE UNCHANGED vars
  BY <1>5 DEF vars, SerialInv, OneOpen, ReadsHold
<1>6. QED
  BY <1>1, <1>2, <1>3, <1>4, <1>5 DEF Next

LEMMA OpenReadsHold ==
  ASSUME Serial
  PROVE  Spec => []SerialInv
<1>1. Init => SerialInv
  BY DEF Init, NoStop, SerialInv, OneOpen, ReadsHold
<1>2. TypeOK /\ SerialInv /\ [Next]_vars => SerialInv'
  BY SerialInvStep
<1>3. QED
  BY <1>1, <1>2, SyncTyping, PTL DEF Spec

(* A step changes the status of a run that has succeeded or failed only by  *)
(* deleting its row, by using its number for a new run, or by a stop.       *)
LEMMA OutcomeKept ==
  ASSUME TypeOK, [Next]_vars, NEW r \in Runs, run[r].status \in {"success", "failed"}
  PROVE  \/ run'[r].status = run[r].status \/ run'[r].status \in {"gone", "cancelled"}
         \/ pc'[Call(r)] = "dispatch"
<1> USE ProcFacts DEF ActiveRun
<1>1. ASSUME NEW s \in Runs, QueueSync(s)
      PROVE  run'[r].status = run[r].status \/ pc'[Call(r)] = "dispatch"
  BY <1>1 DEF QueueSync, TypeOK, Goto
<1>2. ASSUME NEW s \in Runs, Refused(s) \/ FailOwnRun(s)
      PROVE  run'[r].status = run[r].status
  BY <1>2 DEF Refused, FailOwnRun, FailRun, TypeOK
<1>3. ASSUME NEW s \in Runs, MarkRunning(s) \/ Finish(s)
      PROVE  run'[r].status = run[r].status
  BY <1>3 DEF MarkRunning, Finish, Commit, TypeOK
<1>4. ASSUME NEW s \in Runs, Renew(s)
      PROVE  run'[r].status = run[r].status
  BY <1>4 DEF Renew, RenewedRun, TypeOK, RunRow
<1>5. ASSUME NEW s \in Runs, DeleteRun(s)
      PROVE  run'[r].status = run[r].status \/ run'[r].status = "gone"
  BY <1>5 DEF DeleteRun, TypeOK
<1>6. ASSUME NEW p \in Procs, LastFail(p)
      PROVE  run'[r].status = run[r].status
  BY <1>6 DEF LastFail, FailRun, TypeOK
<1>7. CASE RecoverStale \/ Tick
  BY <1>7 DEF RecoverStale, StaleRuns, Tick, TypeOK, RunRow
<1>8. CASE CommitStop
  BY <1>8 DEF CommitStop
<1>9. CASE run' = run
  BY <1>9
<1>10. QED
  BY <1>1, <1>2, <1>3, <1>4, <1>5, <1>6, <1>7, <1>8, <1>9
     DEF Next, Step, SyncStep, vars, Enqueue, EnqueueFails, TakeJob, StoreMissing, Acquire, Refuse,
     MarkFails, Start, Search, GetOrders, Pulse, PulseThen, PulseRaises, Open, OpenFails, Reconcile,
     ReconcileFails, FinishFails, Fail, WorkRaises, Abort, Beat, BeatFails, Repair, Settle, Crash,
     ReadStop, RemoteChanges

(* A run that has succeeded does not fail, one that has failed does not     *)
(* succeed, and neither is taken up again, however slow its job, the call   *)
(* that queued it, their handlers and the recovery are and however they     *)
(* overlap (fail_run, mark_run_running, complete_run_in_session).  What a   *)
(* stop or a resumption does to runs by way of "cancelled" is not meant.    *)
THEOREM FinalOutcome == Spec => RunEndsOnce
<1> DEFINE A == \A r \in Runs :
                  run[r].status \in {"success", "failed"} /\ run'[r].status # run[r].status =>
                    run'[r].status \in {"gone", "cancelled"} \/ pc'[Call(r)] = "dispatch"
<1>1. TypeOK /\ [Next]_vars => A
  BY OutcomeKept
<1> HIDE DEF A
<1>2. [][A]_vars => RunEndsOnce
  BY PTL DEF RunEndsOnce, A
<1>3. QED
  BY <1>1, <1>2, SyncTyping, PTL DEF Spec
-----------------------------------------------------------------------------
(***************************************************************************)
(* Processes in time (not Slow).  A tick finds every heartbeat of its      *)
(* interval done, so the lease and the run row of a live owner are never   *)
(* older than one tick, while others need more than Timeout of them to act.*)
(***************************************************************************)
Beating == {"search", "get", "pulse", "open", "reconcile"}
Live(r) == Held(r) /\ pc[Job(r)] \in Working /\ beat[r] # "failed"

(* A call that is under way has no job, and the thread of a job beats from  *)
(* start() to the end of the reconciliation.                                *)
PlaceInv ==
  \A r \in Runs :
    /\ pc[Call(r)] # "idle" => pc[Job(r)] = "idle"
    /\ beat[r] # "off" <=> pc[Job(r)] \in Beating

LEMMA CallMoves ==
  ASSUME TypeOK, PlaceInv, NEW s \in Runs, NEW label \in PCs, Goto(Call(s), label),
         pc[Call(s)] # "idle", beat' = beat
  PROVE  PlaceInv'
<1>1. \A q \in Procs : pc'[q] = IF q = Call(s) THEN label ELSE pc[q]
  BY DEF TypeOK, Goto
<1>2. QED
  BY <1>1, ProcFacts DEF PlaceInv

LEMMA JobMoves ==
  ASSUME TypeOK, PlaceInv, NEW s \in Runs, NEW label \in PCs, Goto(Job(s), label),
         pc[Job(s)] # "idle", \A r \in Runs : r # s => beat'[r] = beat[r],
         beat'[s] # "off" <=> label \in Beating
  PROVE  PlaceInv'
<1>1. \A q \in Procs : pc'[q] = IF q = Job(s) THEN label ELSE pc[q]
  BY DEF TypeOK, Goto
<1>2. QED
  BY <1>1, ProcFacts DEF PlaceInv

LEMMA PlaceStep ==
  ASSUME ~Slow, TypeOK, PlaceInv, [Next]_vars
  PROVE  PlaceInv'
<1> USE ProcFacts
<1>1. ASSUME NEW s \in Runs, QueueSync(s)
      PROVE  PlaceInv'
  <2>1. \A q \in Procs : pc'[q] = IF q = Call(s) THEN "dispatch" ELSE pc[q]
    BY <1>1 DEF QueueSync, TypeOK, Goto
  <2>2. pc[Job(s)] = "idle" /\ beat' = beat
    BY <1>1 DEF QueueSync, Unused
  <2>3. QED
    BY <2>1, <2>2 DEF PlaceInv
<1>2. ASSUME NEW s \in Runs, Enqueue(s) \/ EnqueueFails(s)
      PROVE  PlaceInv'
  <2>1. pc[Call(s)] # "idle" /\ beat' = beat
    BY <1>2 DEF Enqueue, EnqueueFails
  <2>2. \/ pc'[Call(s)] = "idle" /\ pc'[Job(s)] = "waiting"
        \/ pc'[Job(s)] = "idle"
    BY <1>2 DEF Enqueue, EnqueueFails, TypeOK
  <2>3. \A q \in Procs \ {Call(s), Job(s)} : pc'[q] = pc[q]
    BY <1>2 DEF Enqueue, EnqueueFails, TypeOK
  <2>4. QED
    BY <2>1, <2>2, <2>3 DEF PlaceInv, Beating
<1>3. ASSUME NEW s \in Runs,
             \/ TakeJob(s) \/ StoreMissing(s) \/ Acquire(s) \/ Refuse(s) \/ Refused(s)
             \/ MarkRunning(s) \/ Fail(s) \/ FailOwnRun(s) \/ Finish(s)
      PROVE  PlaceInv'
  <2>1. pc[Job(s)] \notin Beating \cup {"idle"} /\ beat' = beat
    BY <1>3 DEF TakeJob, StoreMissing, Acquire, Refuse, Refused, MarkRunning, Fail, FailOwnRun,
       Finish, Commit, Beating
  <2>2. \E label \in PCs \ Beating : Goto(Job(s), label)
    BY <1>3 DEF TakeJob, StoreMissing, Acquire, Refuse, Refused, MarkRunning, Fail, FailOwnRun,
       Finish, Commit, Beating, PCs, Working
  <2>3. QED
    BY <2>1, <2>2, JobMoves DEF PlaceInv
<1>4. ASSUME NEW s \in Runs, Start(s)
      PROVE  PlaceInv'
  <2>1. pc[Job(s)] = "start" /\ Goto(Job(s), "search") /\ beat' = [beat EXCEPT ![s] = "on"]
    BY <1>4 DEF Start, PulseThen
  <2>2. QED
    BY <2>1, JobMoves DEF Beating, PCs, Working, TypeOK
<1>5. ASSUME NEW s \in Runs, Search(s) \/ GetOrders(s) \/ Pulse(s) \/ Open(s)
      PROVE  PlaceInv'
  <2>1. pc[Job(s)] \in Beating /\ beat' = beat
    BY <1>5 DEF Search, GetOrders, Pulse, PulseThen, Open, Beating
  <2>2. \E label \in PCs \cap Beating : Goto(Job(s), label)
    BY <1>5 DEF Search, GetOrders, Pulse, PulseThen, Open, Beating, PCs, Working
  <2>3. QED
    BY <2>1, <2>2, JobMoves DEF PlaceInv, Beating
<1>6. ASSUME NEW s \in Runs, Reconcile(s)
      PROVE  PlaceInv'
  <2>1. pc[Job(s)] = "reconcile" /\ Goto(Job(s), "finish") /\ beat' = [beat EXCEPT ![s] = "off"]
    BY <1>6 DEF Reconcile
  <2>2. QED
    BY <2>1, JobMoves DEF Beating, PCs, Working, TypeOK
<1>7. ASSUME NEW s \in Runs,
             \/ MarkFails(s) \/ PulseRaises(s) \/ OpenFails(s) \/ ReconcileFails(s)
             \/ FinishFails(s) \/ WorkRaises(s)
      PROVE  PlaceInv'
  <2>1. Abort(s) /\ pc[Job(s)] # "idle"
    BY <1>7 DEF MarkFails, PulseRaises, OpenFails, ReconcileFails, FinishFails, WorkRaises
  <2>2. Goto(Job(s), "fail") /\ beat' = [beat EXCEPT ![s] = "off"]
    BY <2>1 DEF Abort
  <2>3. QED
    BY <2>1, <2>2, JobMoves DEF Beating, PCs, TypeOK
<1>8. ASSUME NEW s \in Runs, Beat(s) \/ BeatFails(s) \/ DeleteRun(s)
      PROVE  PlaceInv'
  BY <1>8 DEF Beat, BeatFails, DeleteRun, TypeOK, PlaceInv
<1>9. ASSUME NEW p \in Procs, Repair(p) \/ LastFail(p) \/ Settle(p)
      PROVE  PlaceInv'
  <2>1. pc[p] \notin Beating \cup {"idle"} /\ beat' = beat
    BY <1>9 DEF Repair, LastFail, Settle, Beating
  <2>2. \E label \in PCs \ Beating : Goto(p, label)
    BY <1>9 DEF Repair, LastFail, Settle, Beating, PCs
  <2>3. \E s \in Runs : p = Call(s) \/ p = Job(s)
    BY DEF Procs, Call, Job
  <2>4. QED
    BY <2>1, <2>2, <2>3, CallMoves, JobMoves DEF PlaceInv
<1>10. ASSUME NEW p \in Procs, Crash(p)
       PROVE  PlaceInv'
  <2>1. pc[p] # "idle" /\ Goto(p, "idle")
    BY <1>10 DEF Crash
  <2>2. ASSUME NEW s \in Runs, p = Call(s)
        PROVE  PlaceInv'
    <3>1. beat' = beat
      BY <1>10, <2>2 DEF Crash, Call
    <3>2. QED
      BY <2>1, <2>2, <3>1, CallMoves DEF PCs
  <2>3. ASSUME NEW s \in Runs, p = Job(s)
        PROVE  PlaceInv'
    <3>1. beat' = [beat EXCEPT ![s] = "off"]
      BY <1>10, <2>3 DEF Crash, Job
    <3>2. QED
      BY <2>1, <2>3, <3>1, JobMoves DEF PCs, Beating, TypeOK
  <2>4. QED
    BY <2>2, <2>3 DEF Procs, Call, Job
<1>11. CASE RecoverStale \/ ReadStop \/ CommitStop \/ RemoteChanges \/ Tick \/ UNCHANGED vars
  BY <1>11 DEF RecoverStale, ReadStop, CommitStop, RemoteChanges, Tick, vars, PlaceInv
<1>12. QED
  BY <1>1, <1>2, <1>3, <1>4, <1>5, <1>6, <1>7, <1>8, <1>9, <1>10, <1>11
     DEF Next, Step, SyncStep

(* The lease and the row of a live owner; its row may still be queued until *)
(* it is marked as running.                                                 *)
InTimeOf(r) ==
  Live(r) =>
    /\ state.age <= 1 /\ (r \in beaten => state.age = 0)
    /\ pc[Job(r)] # "mark" =>
         /\ run[r].status = "running" /\ run[r].age <= 1
         /\ r \in beaten => run[r].age = 0
TimeInv == \A r \in Runs : InTimeOf(r)

LEMMA RenewTimes ==
  ASSUME TypeOK, NEW s \in Runs, Renew(s)
  PROVE  /\ state'.status = state.status /\ state'.holder = state.holder /\ state'.age = 0
         /\ \A r \in Runs : run'[r].status = run[r].status
         /\ run[s].status = "running" => run'[s].age = 0
BY DEF Renew, RenewedState, RenewedRun, TypeOK, StateRow, RunRow

LEMMA TimeStep ==
  ASSUME Serial, ~Slow, TypeOK, SerialInv, PlaceInv, TimeInv, [Next]_vars, NEW r \in Runs
  PROVE  InTimeOf(r)'
<1> USE ProcFacts, ConstantsAssumption
<1>0. /\ state.age \in Nat /\ run[r].age \in Nat /\ InTimeOf(r)
      /\ Timeout \in Nat /\ Timeout >= 1
  BY DEF TypeOK, StateRow, RunRow, Ages, TimeInv
<1>1. ASSUME state' = state, run'[r] = run[r], r \in beaten' => r \in beaten,
             pc'[Job(r)] \in Working => pc'[Job(r)] = pc[Job(r)] /\ beat'[r] \in {beat[r], "failed"}
      PROVE  InTimeOf(r)'
  BY <1>0, <1>1 DEF InTimeOf, Live, Held
<1>2. ASSUME ~Held(r)'
      PROVE  InTimeOf(r)'
  BY <1>2 DEF InTimeOf, Live
<1>3. ASSUME NEW s \in Runs, NEW label, Goto(Job(s), label)
      PROVE  pc'[Job(r)] = IF r = s THEN label ELSE pc[Job(r)]
  BY <1>3 DEF TypeOK, Goto
<1>4. ASSUME NEW s \in Runs, QueueSync(s) \/ Finish(s)
      PROVE  InTimeOf(r)'
  BY <1>2, <1>4 DEF QueueSync, Finish, Commit, Fresh, Held
<1>5. ASSUME NEW s \in Runs, Enqueue(s) \/ EnqueueFails(s)
      PROVE  InTimeOf(r)'
  <2>1. pc'[Job(r)] = pc[Job(r)] \/ pc'[Job(r)] \in {"idle", "waiting"}
    BY <1>5 DEF Enqueue, EnqueueFails, TypeOK
  <2>2. UNCHANGED <<state, run, beat, beaten>>
    BY <1>5 DEF Enqueue, EnqueueFails
  <2>3. QED
    BY <1>1, <2>1, <2>2 DEF Working
<1>6. ASSUME NEW s \in Runs, TakeJob(s) \/ StoreMissing(s) \/ Refuse(s)
      PROVE  InTimeOf(r)'
  <2>1. pc'[Job(r)] = pc[Job(r)] \/ pc'[Job(r)] \notin Working
    BY <1>3, <1>6 DEF TakeJob, StoreMissing, Refuse, Working
  <2>2. UNCHANGED <<state, run, beat, beaten>>
    BY <1>6 DEF TakeJob, StoreMissing, Refuse
  <2>3. QED
    BY <1>1, <2>1, <2>2
<1>7. ASSUME NEW s \in Runs, Refused(s) \/ FailOwnRun(s)
      PROVE  InTimeOf(r)'
  <2>1. /\ UNCHANGED <<state, beat, beaten>>
        /\ r = s => pc'[Job(r)] \notin Working
        /\ r # s => pc'[Job(r)] = pc[Job(r)]
    BY <1>3, <1>7 DEF Refused, FailOwnRun, Working
  <2>2. r # s => run'[r] = run[r]
    BY <1>7 DEF Refused, FailOwnRun, FailRun, TypeOK
  <2>3. QED
    BY <1>1, <2>1, <2>2 DEF InTimeOf, Live
<1>8. ASSUME NEW s \in Runs, Abort(s)
      PROVE  InTimeOf(r)'
  <2>1. /\ UNCHANGED <<state, run, beaten>>
        /\ r = s => pc'[Job(r)] \notin Working
        /\ r # s => pc'[Job(r)] = pc[Job(r)] /\ beat'[r] = beat[r]
    BY <1>3, <1>8 DEF Abort, Working, TypeOK
  <2>2. QED
    BY <1>1, <2>1
<1>9. ASSUME NEW s \in Runs, Fail(s)
      PROVE  InTimeOf(r)'
  <2>1. pc'[Job(r)] = IF r = s THEN "failRun" ELSE pc[Job(r)]
    BY <1>3, <1>9 DEF Fail
  <2>2. CASE Held(s)
    BY <1>2, <1>9, <2>2 DEF Fail, Fresh, Held
  <2>3. CASE ~Held(s)
    BY <1>1, <1>9, <2>1, <2>3 DEF Fail, Working
  <2>4. QED
    BY <2>2, <2>3
<1>10. ASSUME NEW s \in Runs, Acquire(s)
       PROVE  InTimeOf(r)'
  <2>1. state'.holder = s /\ state'.age = 0
    BY <1>10 DEF Acquire
  <2>2. pc'[Job(s)] = "mark"
    BY <1>10 DEF Acquire, Goto, TypeOK
  <2>3. QED
    BY <2>1, <2>2 DEF InTimeOf, Live, Held
<1>11. ASSUME NEW s \in Runs, MarkRunning(s)
       PROVE  InTimeOf(r)'
  <2>1. pc'[Job(r)] = IF r = s THEN "start" ELSE pc[Job(r)]
    BY <1>3, <1>11 DEF MarkRunning
  <2>2. UNCHANGED <<state, beat, beaten>>
    BY <1>11 DEF MarkRunning
  <2>3. CASE r = s
    <3>1. run'[r].status = "running" /\ run'[r].age = 0
      BY <1>11, <2>3 DEF MarkRunning, TypeOK
    <3>2. pc[Job(r)] = "mark"
      BY <1>11, <2>3 DEF MarkRunning
    <3>3. QED
      BY <1>0, <2>2, <3>1, <3>2 DEF InTimeOf, Live, Held, Working
  <2>4. CASE r # s
    <3>1. run'[r] = run[r]
      BY <1>11, <2>4 DEF MarkRunning, TypeOK
    <3>2. QED
      BY <1>1, <2>1, <2>2, <2>4, <3>1
  <2>5. QED
    BY <2>3, <2>4
<1>12. ASSUME NEW s \in Runs, Renew(s), beat[s] # "failed", pc[Job(s)] \in Working \ {"mark"}
       PROVE  InTimeOf(r)'
  <2>1. /\ state'.holder = s /\ state'.age = 0
        /\ run'[s].status = run[s].status /\ (run[s].status = "running" => run'[s].age = 0)
    BY <1>12, RenewTimes DEF Renew, Held
  <2>2. run[s].status = "running"
    BY <1>12 DEF Renew, TimeInv, InTimeOf, Live
  <2>3. QED
    BY <2>1, <2>2 DEF InTimeOf, Live, Held
<1>13. ASSUME NEW s \in Runs, Start(s) \/ Search(s) \/ Pulse(s)
       PROVE  InTimeOf(r)'
  BY <1>12, <1>13 DEF Start, Search, Pulse, PulseThen, Working
<1>14. ASSUME NEW s \in Runs, Beat(s)
       PROVE  InTimeOf(r)'
  <2>1. pc[Job(s)] \in Working \ {"mark"} /\ beat[s] # "failed" /\ Renew(s)
    BY <1>14 DEF Beat, PlaceInv, Beating, Working
  <2>2. QED
    BY <1>12, <2>1
<1>15. ASSUME NEW s \in Runs, GetOrders(s) \/ Open(s) \/ Reconcile(s)
       PROVE  InTimeOf(r)'
  <2>1. UNCHANGED <<state, run, beaten>>
    BY <1>15 DEF GetOrders, Open, Reconcile
  <2>2. CASE r = s
    <3>1. pc[Job(r)] \in Working \ {"mark"}
      BY <1>15, <2>2 DEF GetOrders, Open, Reconcile, Working
    <3>2. beat[r] = "failed" => beat'[r] = "failed"
      BY <1>15, <2>2 DEF GetOrders, Open, Reconcile
    <3>3. QED
      BY <1>0, <2>1, <3>1, <3>2 DEF InTimeOf, Live, Held
  <2>3. CASE r # s
    <3>1. pc'[Job(r)] = pc[Job(r)] /\ beat'[r] = beat[r]
      BY <1>3, <1>15, <2>3 DEF GetOrders, Open, Reconcile, TypeOK
    <3>2. QED
      BY <1>1, <2>1, <3>1
  <2>4. QED
    BY <2>2, <2>3
<1>16. ASSUME NEW s \in Runs, BeatFails(s)
       PROVE  InTimeOf(r)'
  BY <1>1, <1>16 DEF BeatFails, TypeOK
<1>17. ASSUME NEW s \in Runs, DeleteRun(s)
       PROVE  InTimeOf(r)'
  <2>1. UNCHANGED <<state, pc, beat, beaten>> /\ (r # s => run'[r] = run[r])
    BY <1>17 DEF DeleteRun, TypeOK
  <2>2. run[s].status # "running"
    BY <1>17 DEF DeleteRun, EndedRun
  <2>3. QED
    BY <1>0, <2>1, <2>2 DEF InTimeOf, Live, Held
<1>18. ASSUME NEW p \in Procs, Repair(p) \/ LastFail(p)
       PROVE  InTimeOf(r)'
  <2>1. UNCHANGED <<state, beat, beaten>>
    BY <1>18 DEF Repair, LastFail
  <2>2. pc'[Job(r)] = pc[Job(r)] \/ pc'[Job(r)] \notin Working
    BY <1>18 DEF Repair, LastFail, Goto, TypeOK, Working
  <2>3. run'[r] = run[r] \/ pc'[Job(r)] \notin Working
    <3>1. CASE Repair(p)
      BY <3>1 DEF Repair
    <3>2. CASE LastFail(p)
      <4>1. PICK s \in Runs : p = Call(s) \/ p = Job(s)
        BY DEF Procs, Call, Job
      <4>2. p[2] = s
        BY <4>1 DEF Call, Job
      <4>3. CASE r # s
        BY <3>2, <4>2, <4>3 DEF LastFail, FailRun, TypeOK
      <4>4. CASE r = s
        <5>1. pc[Job(r)] = "idle" \/ p = Job(r)
          BY <3>2, <4>1, <4>4 DEF LastFail, PlaceInv
        <5>2. pc'[Job(r)] = "idle"
          BY <3>2, <5>1 DEF LastFail, Goto, TypeOK
        <5>3. QED
          BY <5>2 DEF Working
      <4>5. QED
        BY <4>3, <4>4
    <3>3. QED
      BY <1>18, <3>1, <3>2
  <2>4. QED
    BY <1>1, <2>1, <2>2, <2>3 DEF InTimeOf, Live
<1>19. ASSUME NEW p \in Procs, Settle(p)
       PROVE  InTimeOf(r)'
  BY <1>2, <1>19 DEF Settle, Fresh, Held
<1>20. ASSUME NEW p \in Procs, Crash(p)
       PROVE  InTimeOf(r)'
  <2>1. UNCHANGED <<state, run, beaten>>
    BY <1>20 DEF Crash
  <2>2. pc'[Job(r)] \in Working => p # Job(r) /\ pc'[Job(r)] = pc[Job(r)]
    BY <1>20 DEF Crash, Goto, TypeOK, Working
  <2>3. p # Job(r) => beat'[r] = beat[r]
    BY <1>20 DEF Crash, Procs, Job, TypeOK
  <2>4. QED
    BY <1>1, <2>1, <2>2, <2>3
<1>21. CASE RecoverStale
  <2>1. UNCHANGED <<state, pc, beat, beaten>>
    BY <1>21 DEF RecoverStale
  <2>2. Live(r) /\ pc[Job(r)] # "mark" => run'[r] = run[r]
    BY <1>0, <1>21 DEF RecoverStale, StaleRuns, InTimeOf
  <2>3. QED
    BY <1>0, <2>1, <2>2 DEF InTimeOf, Live, Held
<1>22. CASE CommitStop
  <2>1. \A s \in stopping.runs : run[s].status # "gone"
    BY <1>22 DEF SerialInv, ReadsHold, ActiveRun
  <2>2. state' = IF stopping.reset THEN Fresh("idle", NoRun) ELSE state
    BY <1>22, <2>1 DEF CommitStop
  <2>3. stopping.reset <=> state.status # "idle"
    BY <1>22 DEF CommitStop, SerialInv, ReadsHold
  <2>4. QED
    BY <1>2, <2>2, <2>3 DEF Fresh, Held
<1>23. CASE ReadStop \/ RemoteChanges \/ UNCHANGED vars
  BY <1>1, <1>23 DEF ReadStop, RemoteChanges, vars
<1>24. CASE Tick
  <2>1. SUFFICES ASSUME Live(r)'
                 PROVE  /\ state'.age <= 1 /\ r \notin beaten'
                        /\ run'[r].status = "running" /\ run'[r].age <= 1
    BY DEF InTimeOf
  <2>2. UNCHANGED <<pc, beat>> /\ beaten' = {} /\ InTime
    BY <1>24 DEF Tick
  <2>3. state'.status = state.status /\ state'.holder = state.holder
    BY <1>24 DEF Tick, TypeOK, StateRow
  <2>4. Live(r)
    BY <2>1, <2>2, <2>3 DEF Live, Held
  <2>5. pc[Job(r)] \in Beating /\ beat[r] = "on"
    BY <2>2, <2>4 DEF InTime, Patient, Live, Working, PlaceInv, Beating, TypeOK
  <2>6. r \in beaten /\ pc[Job(r)] # "mark"
    BY <2>2, <2>5 DEF InTime, Beating
  <2>7. state.age = 0 /\ run[r].status = "running" /\ run[r].age = 0
    BY <1>0, <2>4, <2>6 DEF InTimeOf
  <2>8. Older(0) = 1
    BY <1>0 DEF Older
  <2>9. state'.age = 1
    BY <1>24, <2>4, <2>7, <2>8 DEF Tick, TypeOK, StateRow, Live, Held
  <2>10. run'[r].status = "running" /\ run'[r].age = 1
    BY <1>24, <2>7, <2>8 DEF Tick, TypeOK, RunRow, ActiveRun
  <2>11. QED
    BY <2>2, <2>9, <2>10
<1>25. QED
  BY <1>4, <1>5, <1>6, <1>7, <1>8, <1>9, <1>10, <1>11, <1>13, <1>14, <1>15, <1>16, <1>17, <1>18,
     <1>19, <1>20, <1>21, <1>22, <1>23, <1>24
     DEF Next, Step, SyncStep, MarkFails, PulseRaises, OpenFails, ReconcileFails, FinishFails,
         WorkRaises

LEMMA HeartbeatsInTime ==
  ASSUME Serial, ~Slow
  PROVE  Spec => [](PlaceInv /\ TimeInv)
<1>1. Init => PlaceInv /\ TimeInv
  BY ProcFacts DEF Init, PlaceInv, TimeInv, InTimeOf, Live, Held, Fresh, Beating
<1>2. TypeOK /\ SerialInv /\ PlaceInv /\ TimeInv /\ [Next]_vars => (PlaceInv /\ TimeInv)'
  BY PlaceStep, TimeStep DEF TimeInv
<1>3. QED
  BY <1>1, <1>2, SyncTyping, OpenReadsHold, PTL DEF Spec

-----------------------------------------------------------------------------
LEMMA LeaseStep ==
  ASSUME Serial, TypeOK, SerialInv, TimeInv, [Next]_vars,
         NEW r \in Runs, Live(r), ~Held(r)', stopping.runs = {}
  PROVE  pc'[Job(r)] # pc[Job(r)]
<1> USE ProcFacts, ConstantsAssumption
<1>1. state.status = "running" /\ state.holder = r /\ state.age \in Nat /\ state.age <= Timeout
  BY DEF Live, Held, TimeInv, InTimeOf, TypeOK, StateRow, Ages
<1>2. state' # state
  BY DEF Live, Held
<1>3. ASSUME NEW s \in Runs, QueueSync(s)
      PROVE  FALSE
  BY <1>1, <1>3 DEF QueueSync, Active
<1>4. ASSUME NEW s \in Runs, Acquire(s)
      PROVE  FALSE
  BY <1>1, <1>4 DEF Acquire, LeaseFree
<1>5. ASSUME NEW s \in Runs, Renew(s)
      PROVE  FALSE
  <2>1. state'.status = "running" /\ state'.holder = r
    BY <1>1, <1>5, RenewTimes
  <2>2. QED
    BY <2>1 DEF Held
<1>6. ASSUME NEW s \in Runs, Finish(s) \/ Fail(s)
      PROVE  pc'[Job(r)] # pc[Job(r)]
  <2>1. Held(s)
    BY <1>2, <1>6 DEF Finish, Fail
  <2>2. s = r
    BY <1>1, <2>1 DEF Held
  <2>3. QED
    BY <1>6, <2>2 DEF Finish, Commit, Fail, Goto, TypeOK
<1>7. ASSUME NEW p \in Procs, Settle(p)
      PROVE  FALSE
  BY <1>1, <1>7 DEF Settle, SerialInv, ReadsHold
<1>8. ASSUME CommitStop
      PROVE  FALSE
  BY <1>8 DEF CommitStop
<1>9. ASSUME Tick
      PROVE  FALSE
  <2>1. state'.status = state.status /\ state'.holder = state.holder
    BY <1>9 DEF Tick, TypeOK, StateRow
  <2>2. QED
    BY <1>1, <2>1 DEF Held
<1>10. QED
  BY <1>2, <1>3, <1>4, <1>5, <1>6, <1>7, <1>8, <1>9
     DEF Next, Step, SyncStep, vars, Enqueue, EnqueueFails, TakeJob, StoreMissing, Refuse, Refused,
     MarkRunning, MarkFails, Start, Search, GetOrders, Pulse, PulseThen, PulseRaises, Open, OpenFails,
     Reconcile, ReconcileFails, FinishFails, FailOwnRun, WorkRaises, Abort, Beat, BeatFails,
     DeleteRun, Repair, LastFail, Crash, RecoverStale, ReadStop, RemoteChanges

(* _PeriodicLeaseHeartbeat: with heartbeats in time and no overlapping      *)
(* unlocked transactions, nobody but a stop of the system takes the lease   *)
(* of a live owner, however many runs there are and however short Timeout.  *)
THEOREM LeaseKept ==
  ASSUME Serial, ~Slow
  PROVE  Spec => LiveLeaseKept
<1> DEFINE A == \A r \in Runs :
                  Held(r) /\ pc[Job(r)] \in Working /\ beat[r] # "failed" /\ ~Held(r)' =>
                    pc'[Job(r)] # pc[Job(r)] \/ stopping.runs # {}
<1>1. TypeOK /\ SerialInv /\ TimeInv /\ [Next]_vars => A
  BY LeaseStep DEF Live
<1> HIDE DEF A
<1>2. [][A]_vars => LiveLeaseKept
  BY PTL DEF LiveLeaseKept, A
<1>3. QED
  BY <1>1, <1>2, SyncTyping, OpenReadsHold, HeartbeatsInTime, PTL DEF Spec

-----------------------------------------------------------------------------
(* The run that commits is a running one, so that its row becomes success.  *)
LEMMA CommitsRunning ==
  ASSUME PlaceInv, TimeInv, NEW s \in Runs, Finish(s)
  PROVE  run[s].status = "running"
<1>1. pc[Job(s)] = "finish" /\ Held(s)
  BY DEF Finish
<1>2. beat[s] = "off"
  BY <1>1 DEF PlaceInv, Beating
<1>3. QED
  BY <1>1, <1>2 DEF TimeInv, InTimeOf, Live, Working

LEMMA OutcomeStep ==
  ASSUME Serial, TypeOK, SerialInv, PlaceInv, TimeInv, OutcomeAgrees, [Next]_vars
  PROVE  OutcomeAgrees'
<1> USE ProcFacts DEF ActiveRun
<1> DEFINE Kept(r) == /\ run'[r].status # "gone" => run[r].status # "gone"
                      /\ \/ run'[r].status = "gone"
                         \/ run'[r].status = "success" <=> run[r].status = "success"
<1>1. ASSUME committed' = committed, \A r \in Runs : Kept(r)
      PROVE  OutcomeAgrees'
  BY <1>1 DEF OutcomeAgrees
<1>2. ASSUME NEW s \in Runs, QueueSync(s)
      PROVE  OutcomeAgrees'
  <2>1. committed' = committed \ {s} /\ run'[s].status = "queued"
        /\ \A r \in Runs \ {s} : run'[r] = run[r]
    BY <1>2 DEF QueueSync, TypeOK
  <2>2. QED
    BY <2>1 DEF OutcomeAgrees
<1>3. ASSUME NEW s \in Runs, Finish(s)
      PROVE  OutcomeAgrees'
  <2>1. run[s].status = "running"
    BY <1>3, CommitsRunning
  <2>2. committed' = committed \cup {s} /\ run'[s].status = "success"
        /\ \A r \in Runs \ {s} : run'[r] = run[r]
    BY <1>3, <2>1 DEF Finish, Commit, TypeOK
  <2>3. QED
    BY <2>2 DEF OutcomeAgrees
<1>4. ASSUME NEW s \in Runs, FailRun(s)
      PROVE  \A r \in Runs : Kept(r)
  BY <1>4 DEF FailRun, TypeOK
<1>5. ASSUME NEW s \in Runs, Refused(s) \/ FailOwnRun(s)
      PROVE  OutcomeAgrees'
  BY <1>1, <1>4, <1>5 DEF Refused, FailOwnRun, orders
<1>6. ASSUME NEW s \in Runs, MarkRunning(s)
      PROVE  OutcomeAgrees'
  BY <1>1, <1>6 DEF MarkRunning, orders, TypeOK
<1>7. ASSUME NEW s \in Runs, Start(s) \/ Search(s) \/ Pulse(s) \/ Beat(s)
      PROVE  OutcomeAgrees'
  <2>1. Renew(s) /\ committed' = committed
    BY <1>7 DEF Start, Search, Pulse, PulseThen, Beat, orders
  <2>2. \A r \in Runs : run'[r].status = run[r].status
    BY <2>1, RenewTimes
  <2>3. QED
    BY <1>1, <2>1, <2>2
<1>8. ASSUME NEW s \in Runs, DeleteRun(s)
      PROVE  OutcomeAgrees'
  <2>1. committed' = committed \ {s} /\ run'[s].status = "gone"
        /\ \A r \in Runs \ {s} : run'[r] = run[r]
    BY <1>8 DEF DeleteRun, TypeOK
  <2>2. QED
    BY <2>1 DEF OutcomeAgrees
<1>9. ASSUME NEW p \in Procs, LastFail(p)
      PROVE  OutcomeAgrees'
  <2>1. p[2] \in Runs
    BY DEF Procs
  <2>2. QED
    BY <1>1, <1>4, <1>9, <2>1 DEF LastFail, orders
<1>10. CASE RecoverStale
  BY <1>1, <1>10 DEF RecoverStale, StaleRuns, orders, TypeOK
<1>11. CASE Tick
  <2>1. \A r \in Runs : run'[r].status = run[r].status
    BY <1>11 DEF Tick, TypeOK, RunRow
  <2>2. QED
    BY <1>1, <1>11, <2>1 DEF Tick, orders
<1>12. CASE CommitStop
  BY <1>1, <1>12 DEF CommitStop, SerialInv, ReadsHold, orders, TypeOK
<1>13. CASE UNCHANGED <<run, committed>>
  BY <1>1, <1>13
<1>14. QED
  BY <1>2, <1>3, <1>5, <1>6, <1>7, <1>8, <1>9, <1>10, <1>11, <1>12, <1>13
     DEF Next, Step, SyncStep, vars, orders, Enqueue, EnqueueFails, TakeJob, StoreMissing, Acquire,
     Refuse, MarkFails, GetOrders, PulseRaises, Open, OpenFails, Reconcile, ReconcileFails,
     FinishFails, Fail, WorkRaises, Abort, BeatFails, Repair, Settle, Crash, ReadStop,
     RemoteChanges

(* complete_run_in_session: with heartbeats in time and no overlapping      *)
(* unlocked transactions, the orders of a run are stored exactly if its row *)
(* says success, for every number of runs.                                  *)
THEOREM OutcomeTold ==
  ASSUME Serial, ~Slow
  PROVE  Spec => []OutcomeAgrees
<1>1. Init => OutcomeAgrees
  BY DEF Init, OutcomeAgrees
<1>2. TypeOK /\ SerialInv /\ PlaceInv /\ TimeInv /\ OutcomeAgrees /\ [Next]_vars => OutcomeAgrees'
  BY OutcomeStep
<1>3. QED
  BY <1>1, <1>2, SyncTyping, OpenReadsHold, HeartbeatsInTime, PTL DEF Spec

-----------------------------------------------------------------------------
(* The orders in the run of the sales: each part is an instance of          *)
(* OrderBooks or OrderSearch, of which their theorems speak.                *)
LEMMA SalesPart ==
  ASSUME [SalesNext]_<<part, vars, bookVars>>
  PROVE  part' = part
BY DEF SalesNext

LEMMA LinesOfOrders ==
  SalesSpec => /\ [](part = "lines" => OrderLines!BooksTypeOK /\ OrderLines!BooksAgree)
               /\ [][part = "lines" => OrderLines!Newer]_<<part, bookVars>>
<1>1. SalesInit /\ part = "lines" => OrderLines!BooksInit
  BY DEF SalesInit
<1>2. part = "lines" /\ [SalesNext]_<<part, vars, bookVars>> => [OrderLines!BooksNext]_OrderLines!bookVars
  BY DEF SalesNext, OrderLines!bookVars, bookVars
<1>3. [SalesNext]_<<part, vars, bookVars>> => ((part = "lines")' <=> part = "lines")
  BY SalesPart
<1>4. OrderLines!BooksSpec => []((OrderLines!BooksTypeOK /\ OrderLines!BooksAgree)) /\ OrderLines!SnapshotsNeverOlder
  <2>1. OrderLines!BooksSpec => []OrderLines!BooksTypeOK
    BY OrdersAssumption, OrderLines!BooksTyping
  <2>2. OrderLines!BooksSpec => []OrderLines!BooksAgree
    BY OrdersAssumption, OrderLines!BooksAreRight
  <2>3. OrderLines!BooksSpec => OrderLines!SnapshotsNeverOlder
    BY OrdersAssumption, OrderLines!NeverBack
  <2>4. QED
    BY <2>1, <2>2, <2>3, PTL
<1>5. part = "lines" /\ [SalesNext]_<<part, vars, bookVars>> /\ [OrderLines!Newer]_OrderLines!bookVars
        => [part = "lines" => OrderLines!Newer]_<<part, bookVars>>
  BY DEF SalesNext, OrderLines!bookVars, bookVars
<1>6. [SalesNext]_<<part, vars, bookVars>> /\ part # "lines"
        => [part = "lines" => OrderLines!Newer]_<<part, bookVars>>
  OBVIOUS
<1>7. QED
  BY <1>1, <1>2, <1>3, <1>4, <1>5, <1>6, PTL DEF SalesSpec, OrderLines!BooksSpec, OrderLines!SnapshotsNeverOlder

LEMMA DaysOfOrders ==
  SalesSpec => /\ [](part = "days" => OrderDays!BooksTypeOK /\ OrderDays!BooksAgree)
               /\ [][part = "days" => OrderDays!Newer]_<<part, bookVars>>
<1>1. SalesInit /\ part = "days" => OrderDays!BooksInit
  BY DEF SalesInit
<1>2. part = "days" /\ [SalesNext]_<<part, vars, bookVars>> => [OrderDays!BooksNext]_OrderDays!bookVars
  BY DEF SalesNext, OrderDays!bookVars, bookVars
<1>3. [SalesNext]_<<part, vars, bookVars>> => ((part = "days")' <=> part = "days")
  BY SalesPart
<1>4. OrderDays!BooksSpec => []((OrderDays!BooksTypeOK /\ OrderDays!BooksAgree)) /\ OrderDays!SnapshotsNeverOlder
  <2>1. OrderDays!BooksSpec => []OrderDays!BooksTypeOK
    BY OrdersAssumption, OrderDays!BooksTyping
  <2>2. OrderDays!BooksSpec => []OrderDays!BooksAgree
    BY OrdersAssumption, OrderDays!BooksAreRight
  <2>3. OrderDays!BooksSpec => OrderDays!SnapshotsNeverOlder
    BY OrdersAssumption, OrderDays!NeverBack
  <2>4. QED
    BY <2>1, <2>2, <2>3, PTL
<1>5. part = "days" /\ [SalesNext]_<<part, vars, bookVars>> /\ [OrderDays!Newer]_OrderDays!bookVars
        => [part = "days" => OrderDays!Newer]_<<part, bookVars>>
  BY DEF SalesNext, OrderDays!bookVars, bookVars
<1>6. [SalesNext]_<<part, vars, bookVars>> /\ part # "days"
        => [part = "days" => OrderDays!Newer]_<<part, bookVars>>
  OBVIOUS
<1>7. QED
  BY <1>1, <1>2, <1>3, <1>4, <1>5, <1>6, PTL DEF SalesSpec, OrderDays!BooksSpec, OrderDays!SnapshotsNeverOlder

LEMMA UndatedOrders ==
  SalesSpec => /\ [](part = "undated" => Undated!BooksTypeOK /\ Undated!BooksAgree)
               /\ [][part = "undated" => Undated!Newer]_<<part, bookVars>>
<1>1. SalesInit /\ part = "undated" => Undated!BooksInit
  BY DEF SalesInit
<1>2. part = "undated" /\ [SalesNext]_<<part, vars, bookVars>> => [Undated!BooksNext]_Undated!bookVars
  BY DEF SalesNext, Undated!bookVars, bookVars
<1>3. [SalesNext]_<<part, vars, bookVars>> => ((part = "undated")' <=> part = "undated")
  BY SalesPart
<1>4. Undated!BooksSpec => []((Undated!BooksTypeOK /\ Undated!BooksAgree)) /\ Undated!SnapshotsNeverOlder
  <2>1. Undated!BooksSpec => []Undated!BooksTypeOK
    BY OrdersAssumption, Undated!BooksTyping
  <2>2. Undated!BooksSpec => []Undated!BooksAgree
    BY OrdersAssumption, Undated!BooksAreRight
  <2>3. Undated!BooksSpec => Undated!SnapshotsNeverOlder
    BY OrdersAssumption, Undated!NeverBack
  <2>4. QED
    BY <2>1, <2>2, <2>3, PTL
<1>5. part = "undated" /\ [SalesNext]_<<part, vars, bookVars>> /\ [Undated!Newer]_Undated!bookVars
        => [part = "undated" => Undated!Newer]_<<part, bookVars>>
  BY DEF SalesNext, Undated!bookVars, bookVars
<1>6. [SalesNext]_<<part, vars, bookVars>> /\ part # "undated"
        => [part = "undated" => Undated!Newer]_<<part, bookVars>>
  OBVIOUS
<1>7. QED
  BY <1>1, <1>2, <1>3, <1>4, <1>5, <1>6, PTL DEF SalesSpec, Undated!BooksSpec, Undated!SnapshotsNeverOlder

LEMMA AskedOrders ==
  SalesSpec => [](part = "search" => Asked!SearchTypeOK /\ Asked!NothingMissed /\ Asked!NothingStale)
<1>1. SalesInit /\ part = "search" => Asked!SearchInit
  BY DEF SalesInit
<1>2. part = "search" /\ [SalesNext]_<<part, vars, bookVars>> => [Asked!SearchNext]_Asked!searchVars
  BY DEF SalesNext, Asked!searchVars, bookVars
<1>3. [SalesNext]_<<part, vars, bookVars>> => ((part = "search")' <=> part = "search")
  BY SalesPart
<1>4. Asked!SearchSpec => [](Asked!SearchTypeOK /\ Asked!NothingMissed /\ Asked!NothingStale)
  <2>0. OutagesShort = TRUE
    BY DEF OutagesShort
  <2>1. Asked!SearchSpec => []Asked!SearchTypeOK
    BY OrdersAssumption, <2>0, Asked!SearchTyping
  <2>2. Asked!SearchSpec => []Asked!NothingMissed
    BY OrdersAssumption, <2>0, Asked!NoOrderMissed
  <2>3. Asked!SearchSpec => []Asked!NothingStale
    BY OrdersAssumption, <2>0, Asked!StoredIsRecent
  <2>4. QED
    BY <2>1, <2>2, <2>3, PTL
<1>5. QED
  BY <1>1, <1>2, <1>3, <1>4, PTL DEF SalesSpec, Asked!SearchSpec

(* sync_owned_store, as the run checks it: the units of each line add up,   *)
(* its adjustments in force are those of its columns, between two syncs the *)
(* daily sales of every day are those of its lines, no order of a covered   *)
(* day is missing, and none is older than the rules of rechecking allow.    *)
THEOREM SalesBooksAgree == SalesSpec => []BooksAgree
<1>1. /\ part = "lines" => OrderLines!BooksTypeOK /\ OrderLines!BooksAgree
      /\ part = "days" => OrderDays!BooksTypeOK /\ OrderDays!BooksAgree
      /\ part = "undated" => Undated!BooksTypeOK /\ Undated!BooksAgree
      /\ part = "search" => Asked!SearchTypeOK /\ Asked!NothingMissed /\ Asked!NothingStale
      => BooksAgree
  BY DEF BooksAgree
<1>2. QED
  BY <1>1, LinesOfOrders, DaysOfOrders, UndatedOrders, AskedOrders, PTL

(* _reconcile_order_snapshot, as the run checks it: an older snapshot       *)
(* changes nothing, a newer one keeps the units first ordered.              *)
THEOREM SalesNeverBack == SalesSpec => SnapshotsNeverOlder
<1>1. [part = "lines" => OrderLines!Newer]_<<part, bookVars>>
      /\ [part = "days" => OrderDays!Newer]_<<part, bookVars>>
      /\ [part = "undated" => Undated!Newer]_<<part, bookVars>>
      => [/\ part = "lines" => OrderLines!Newer
          /\ part = "days" => OrderDays!Newer
          /\ part = "undated" => Undated!Newer]_<<part, bookVars>>
  OBVIOUS
<1>2. QED
  BY <1>1, LinesOfOrders, DaysOfOrders, UndatedOrders, PTL DEF SnapshotsNeverOlder
=============================================================================
