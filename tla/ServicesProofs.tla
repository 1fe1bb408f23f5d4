-------------------------- MODULE ServicesProofs ---------------------------
(***************************************************************************)
(* The components of the run MCServices: the stop of all tasks and their   *)
(* resumption, starts of the service, announcements, the upkeep of an      *)
(* owner and the titles of a product.  What they promise is proved for     *)
(* every number of tasks, users, processes, crashes and changes.           *)
(*                                                                         *)
(* The last sections define the run itself, with the instances of other    *)
(* components whose proofs stand in modules of their own, and prove that   *)
(* what the run checks follows from what is proved of the components.      *)
(* They come last since the provers are slow beside many instances.        *)
(***************************************************************************)
EXTENDS TaskControl, Startup, Announcements, Upkeep, ProductTitles,
        FiniteSetTheorems, WellFoundedInduction, TLAPS

Rounds == {"cancel", "kill", "count", "scan"}
Stopping == Rounds \cup {"close"}
Begun == {"read", "work"}

(* Where the call is, the control row says so; a round is not begun after   *)
(* enough quiet ones.                                                       *)
CallsOK ==
  /\ adm.pc \in Stopping => ctl.paused /\ ctl.phase = "stopping"
  /\ adm.pc \in {"prepare", "unpause"} => ctl.paused /\ ctl.phase = "resuming"
  /\ adm.pc = "dispatch" => ~ctl.paused
  /\ adm.pc \in Rounds => adm.stable < StableChecks
TypedInv == TypeOK /\ CallsOK

(* A task at rest: no job in a queue, and no worker that may start or has   *)
(* started it.  A job between its queue and the registry does no harm: it   *)
(* finds a row that is not queued.                                          *)
Resting(t) ==
  /\ queue[t] = 0 /\ row[t] # "queued"
  /\ \A w \in Workers : worker[w].task = t => worker[w].pc \notin Begun
Quiet == \A t \in Selected : Resting(t)
NoneActive == \A t \in Selected : row[t] \notin Active

(* One quiet round leaves the tasks at rest, though a row may still say     *)
(* running, of a worker that was ended after the rows had been counted; the *)
(* next round cancels it, and with the second quiet round none is active.   *)
StopInv ==
  /\ adm.pc = "scan" /\ adm.still => \A t \in Selected : row[t] # "queued"
  /\ adm.pc \in Stopping /\ adm.stable >= 1 => Quiet
  /\ adm.pc \in Rounds \ {"cancel"} /\ adm.stable >= 1 => NoneActive
  /\ adm.pc \in Stopping /\ adm.stable >= 2 => NoneActive
  /\ DeploySafe \/ adm.pc = "prepare" => Quiet /\ NoneActive

(* What a stop has cancelled and nothing has given back since is in the     *)
(* snapshot that a resumption works on.                                     *)
OwedInv ==
  /\ StopRemembers
  /\ adm.pc = "prepare" => adm.held = ctl.snap
  /\ adm.pc = "unpause" => owed = {}

(* Without late checks a dispatcher holds no task of a paused owner.        *)
DispInv == disp # None => ~Paused(disp)

(* A task that could be started has no worker.  A cancelled one may have    *)
(* one only while a stop that has cancelled it is not done.                 *)
Idleness == {"new", "queued", "failed", "cancelled"}
OneBegun ==
  \A t \in TaskIds : \A v, w \in Workers :
    /\ worker[v].task = t /\ worker[w].task = t
    /\ worker[v].pc \in Begun /\ worker[w].pc \in Begun
    => v = w
IdleRows ==
  \A t \in TaskIds : \A w \in Workers :
    worker[w].task = t /\ worker[w].pc = "work" /\ row[t] \in Idleness =>
      Paused(t) /\ row[t] = "cancelled" /\ ctl.phase \in {"stopping", "stop_failed"}
OwnSnapshot == ctl.paused => ctl.snap \subseteq Selected
WorkInv == OneBegun /\ IdleRows /\ OwnSnapshot
-----------------------------------------------------------------------------
LEMMA AtRestIsAdmin == AtRest \in Admin
<1>1. 0 \in 0..StableChecks
  BY ConstantsAssumption
<1>2. QED
  BY <1>1 DEF AtRest, Admin, AdminPC

LEMMA TypedInit == Init => TypedInv
BY ConstantsAssumption DEF Init, TypedInv, TypeOK, CallsOK, Control, Phases, Statuses, Horse, Idle,
   Admin, AdminPC, AtRest, Stopping, Rounds

LEMMA TypedStep ==
  ASSUME TypedInv, [Next]_vars
  PROVE  TypedInv'
<1> USE ConstantsAssumption DEF TypedInv, TypeOK, CallsOK, Stopping, Rounds
<1>1. ASSUME NEW t \in TaskIds, Create(t) \/ Cancel(t) \/ Delete(t) \/ Choose(t) \/ Expire(t)
      PROVE  TypedInv'
  <2>1. row' \in [TaskIds -> Statuses] /\ queue' \in [TaskIds -> Nat]
    BY <1>1 DEF Create, Cancel, Delete, Choose, Expire, Statuses
  <2>2. QED
    BY <1>1, <2>1 DEF Create, Cancel, Delete, Choose, Expire, budget
<1>2. ASSUME NEW t \in TaskIds, Retry(t)
      PROVE  TypedInv'
  BY <1>2 DEF Retry, Statuses
<1>3. CASE Enqueue \/ EnqueueRefused
  BY <1>3 DEF Enqueue, EnqueueRefused, Statuses, budget
<1>4. ASSUME NEW w \in Workers,
             Pop(w) \/ Register(w) \/ Begin(w) \/ Start(w) \/ End(w) \/ Die(w)
      PROVE  TypedInv'
  <2>1. PICK h \in Horse : worker' = [worker EXCEPT ![w] = h]
    <3>1. worker[w] \in Horse /\ Idle \in Horse
      BY DEF Horse, Idle
    <3>2. CASE Pop(w)
      <4>1. PICK t \in TaskIds :
              worker' = [worker EXCEPT ![w] = [Idle EXCEPT !.task = t, !.pc = "popped"]]
        BY <3>2 DEF Pop
      <4>2. QED
        BY <3>1, <4>1 DEF Horse, Idle
    <3>3. CASE Register(w) \/ Start(w)
      BY <3>1, <3>3 DEF Register, Start, Horse
    <3>4. CASE Begin(w)
      BY <3>1, <3>4 DEF Begin, Startable, Horse
    <3>5. CASE End(w) \/ Die(w)
      BY <3>1, <3>5 DEF End, Die
    <3>6. QED
      BY <1>4, <3>2, <3>3, <3>4, <3>5
  <2>2. worker' \in [Workers -> Horse]
    BY <2>1
  <2>3. CASE Pop(w)
    BY <2>2, <2>3 DEF Pop, budget
  <2>4. CASE Register(w) \/ Begin(w) \/ Die(w)
    BY <2>2, <2>4 DEF Register, Begin, Die, budget
  <2>5. CASE Start(w)
    BY <2>2, <2>5 DEF Start, Statuses, budget
  <2>6. CASE End(w)
    BY <2>2, <2>6 DEF End, Statuses, budget
  <2>7. QED
    BY <1>4, <2>3, <2>4, <2>5, <2>6
<1>5. ASSUME NEW users \in SUBSET Users, StopCall(users)
      PROVE  TypedInv'
  <2>1. ctl' \in Control
    BY <1>5 DEF StopCall, Control, Phases
  <2>2. adm' \in Admin
    BY <1>5, AtRestIsAdmin DEF StopCall, Admin, AdminPC
  <2>3. CallsOK'
    BY <1>5 DEF StopCall, Control, Admin, AdminPC, AtRest
  <2>4. QED
    BY <1>5, <2>1, <2>2, <2>3 DEF StopCall, budget
<1>6. CASE CancelRound
  <2>1. ctl' \in Control
    BY <1>6 DEF CancelRound, Control, Merged, ActiveRows, Selected
  <2>2. adm' \in Admin
    BY <1>6 DEF CancelRound, Admin, AdminPC
  <2>3. CallsOK'
    BY <1>6 DEF CancelRound, Control, Admin
  <2>4. QED
    <3>1. Merged \subseteq TaskIds
      BY DEF Control, Merged, ActiveRows, Selected
    <3>2. row' \in [TaskIds -> Statuses]
      BY <1>6 DEF CancelRound, SetRows, Statuses
    <3>3. owed' \subseteq TaskIds
      BY <1>6, <3>1 DEF CancelRound
    <3>4. QED
      BY <1>6, <2>1, <2>2, <2>3, <3>2, <3>3 DEF CancelRound, budget
<1>7. CASE KillJobs
  <2>1. PICK told \in SUBSET Workers :
          worker' = [w \in Workers |-> IF w \in told THEN [worker[w] EXCEPT !.told = TRUE]
                                       ELSE worker[w]]
    BY <1>7 DEF KillJobs
  <2>2. worker' \in [Workers -> Horse]
    BY <2>1 DEF Horse
  <2>3. queue' \in [TaskIds -> Nat]
    BY <1>7 DEF KillJobs
  <2>4. PICK clean \in BOOLEAN :
          /\ clean \/ faults < MaxFaults
          /\ faults' = IF clean THEN faults ELSE faults + 1
          /\ adm' = [adm EXCEPT !.pc = "count", !.clean = clean]
    BY <1>7 DEF KillJobs
  <2>5. adm' \in Admin /\ adm'.pc = "count" /\ adm'.stable = adm.stable
    BY <2>4 DEF Admin, AdminPC
  <2>6. faults' \in 0..MaxFaults
    BY <2>4
  <2>7. UNCHANGED <<ctl, row, owed, disp, retries>> /\ adm.pc = "kill"
    BY <1>7 DEF KillJobs
  <2>8. CallsOK'
    BY <2>5, <2>7
  <2>9. QED
    BY <2>2, <2>3, <2>5, <2>6, <2>7, <2>8
<1>8. CASE CountRows
  <2>1. ctl' \in Control
    BY <1>8 DEF CountRows, Control
  <2>2. adm' \in Admin
    BY <1>8 DEF CountRows, Admin, AdminPC
  <2>3. CallsOK'
    BY <1>8 DEF CountRows, Admin
  <2>4. QED
    BY <1>8, <2>1, <2>2, <2>3 DEF CountRows, budget
<1>9. CASE ScanJobs
  <2>1. PICK stable \in 0..StableChecks :
          \/ adm' = [adm EXCEPT !.pc = "close", !.still = FALSE, !.stable = stable]
          \/ /\ ~Enough(stable)
             /\ adm' = [adm EXCEPT !.pc = "cancel", !.clean = TRUE, !.still = FALSE, !.stable = stable]
    <3>1. adm.stable \in 0..StableChecks /\ adm.stable < StableChecks
      BY <1>9 DEF ScanJobs, Admin
    <3>2. adm.stable + 1 \in 0..StableChecks /\ 0 \in 0..StableChecks
      BY <3>1
    <3>3. QED
      BY <1>9, <3>2 DEF ScanJobs
  <2>2. adm' \in Admin
    BY <2>1 DEF Admin, AdminPC
  <2>3. adm'.pc \in Stopping /\ (adm'.pc \in Rounds => adm'.stable < StableChecks)
    <3>1. CASE adm' = [adm EXCEPT !.pc = "close", !.still = FALSE, !.stable = stable]
      BY <3>1 DEF Admin
    <3>2. CASE /\ ~Enough(stable)
               /\ adm' = [adm EXCEPT !.pc = "cancel", !.clean = TRUE, !.still = FALSE, !.stable = stable]
      <4>1. stable < StableChecks
        BY <3>2 DEF Enough
      <4>2. QED
        BY <3>2, <4>1 DEF Admin
    <3>3. QED
      BY <2>1, <3>1, <3>2
  <2>4. CallsOK'
    BY <1>9, <2>3 DEF ScanJobs
  <2>5. QED
    BY <1>9, <2>2, <2>4 DEF ScanJobs, budget
<1>10. CASE CloseStop
  <2>1. ctl' \in Control
    BY <1>10 DEF CloseStop, Control, Phases, Enough
  <2>2. adm' \in Admin
    BY <1>10 DEF CloseStop, Admin, AdminPC, AtRest
  <2>3. CallsOK'
    BY <1>10 DEF CloseStop, Control, AtRest
  <2>4. QED
    BY <1>10, <2>1, <2>2, <2>3 DEF CloseStop, budget
<1>11. CASE ResumeCall
  <2>1. ctl' \in Control
    BY <1>11 DEF ResumeCall, Control, Phases
  <2>2. adm' \in Admin
    <3>1. ctl.snap \subseteq TaskIds
      BY DEF Control
    <3>2. QED
      BY <1>11, <3>1, AtRestIsAdmin DEF ResumeCall, Admin, AdminPC
  <2>3. CallsOK'
    BY <1>11 DEF ResumeCall, Control, AtRest, MayResume, DeploySafe
  <2>4. QED
    BY <1>11, <2>1, <2>2, <2>3 DEF ResumeCall, budget
<1>12. CASE Unpause
  <2>1. ctl' \in Control
    BY <1>12 DEF Unpause, Control, Phases
  <2>2. adm' \in Admin
    BY <1>12 DEF Unpause, Admin, AdminPC
  <2>3. CallsOK'
    BY <1>12 DEF Unpause, Control, Admin
  <2>4. QED
    BY <1>12, <2>1, <2>2, <2>3 DEF Unpause, budget
<1>13. CASE Report
  <2>1. ctl' \in Control
    BY <1>13 DEF Report, Control
  <2>2. adm' \in Admin
    BY <1>13 DEF Report, Admin, AdminPC, AtRest
  <2>3. CallsOK'
    BY <1>13 DEF Report, AtRest
  <2>4. QED
    BY <1>13, <2>1, <2>2, <2>3 DEF Report, budget
<1>14. CASE Prepare
  <2>1. ctl' \in Control
    BY <1>14 DEF Prepare, Control
  <2>2. adm' \in Admin
    BY <1>14 DEF Prepare, Admin, AdminPC
  <2>3. CallsOK'
    BY <1>14 DEF Prepare, Control, Admin
  <2>4. QED
    BY <1>14, <2>1, <2>2, <2>3 DEF Prepare, budget, SetRows, Statuses
<1>15. CASE PrepareFails
  <2>1. ctl' \in Control
    BY <1>15 DEF PrepareFails, Control, Phases
  <2>2. adm' \in Admin
    BY <1>15 DEF PrepareFails, Admin, AdminPC, AtRest
  <2>3. CallsOK'
    BY <1>15 DEF PrepareFails, AtRest
  <2>4. QED
    BY <1>15, <2>1, <2>2, <2>3 DEF PrepareFails, budget
<1>16. CASE CrashCall
  <2>1. ctl' \in Control
    BY <1>16 DEF CrashCall, Control
  <2>2. adm' \in Admin
    BY <1>16 DEF CrashCall, Admin, AdminPC, AtRest
  <2>3. CallsOK'
    BY <1>16 DEF CrashCall, AtRest
  <2>4. QED
    BY <1>16, <2>1, <2>2, <2>3 DEF CrashCall, budget
<1>17. ASSUME NEW t \in TaskIds, DispatchRun(t)
       PROVE  TypedInv'
  <2>1. queue' \in [TaskIds -> Nat] /\ faults' \in 0..MaxFaults
    BY <1>17 DEF DispatchRun
  <2>2. adm' \in Admin
    BY <1>17 DEF DispatchRun, Admin
  <2>3. CallsOK'
    BY <1>17 DEF DispatchRun, Admin
  <2>4. QED
    BY <1>17, <2>1, <2>2, <2>3 DEF DispatchRun
<1>18. CASE UNCHANGED vars
  BY <1>18 DEF vars, budget
<1>19. QED
  BY <1>1, <1>2, <1>3, <1>4, <1>5, <1>6, <1>7, <1>8, <1>9, <1>10, <1>11, <1>12, <1>13, <1>14,
     <1>15, <1>16, <1>17, <1>18 DEF Next, Stop, Resume

(* Every variable of the task control keeps its type, and the control row   *)
(* says where the call is.                                                  *)
THEOREM ControlTyping == Spec => []TypedInv
<1>1. TypedInv /\ [Next]_vars => TypedInv'
  BY TypedStep
<1>2. QED
  BY <1>1, TypedInit, PTL DEF Spec
-----------------------------------------------------------------------------
World ==
  \/ \E t \in TaskIds : Create(t) \/ Retry(t) \/ Cancel(t) \/ Delete(t) \/ Choose(t) \/ Expire(t)
  \/ Enqueue \/ EnqueueRefused
  \/ \E w \in Workers : Pop(w) \/ Register(w) \/ Begin(w) \/ Start(w) \/ End(w) \/ Die(w)

LEMMA WorldLeavesControl == World => UNCHANGED <<ctl, adm>>
<1>1. ASSUME NEW t \in TaskIds,
             Create(t) \/ Retry(t) \/ Cancel(t) \/ Delete(t) \/ Choose(t) \/ Expire(t)
      PROVE  UNCHANGED <<ctl, adm>>
  BY <1>1 DEF Create, Retry, Cancel, Delete, Choose, Expire
<1>2. ASSUME Enqueue \/ EnqueueRefused
      PROVE  UNCHANGED <<ctl, adm>>
  BY <1>2 DEF Enqueue, EnqueueRefused
<1>3. ASSUME NEW w \in Workers,
             Pop(w) \/ Register(w) \/ Begin(w) \/ Start(w) \/ End(w) \/ Die(w)
      PROVE  UNCHANGED <<ctl, adm>>
  BY <1>3 DEF Pop, Register, Begin, Start, End, Die
<1>4. QED
  BY <1>1, <1>2, <1>3 DEF World

(* Users, dispatchers and workers do not queue a task of a paused owner,    *)
(* and they leave one at rest at rest.                                      *)
LEMMA RestIsKept ==
  ASSUME TypedInv, World, NEW t \in TaskIds, Paused(t)
  PROVE  /\ row[t] # "queued" => row'[t] # "queued"
         /\ Resting(t) => Resting(t)'
         /\ Resting(t) /\ row[t] \notin Active => row'[t] \notin Active
<1> USE DEF TypedInv, TypeOK
<1> DEFINE Kept ==
      /\ row[t] # "queued" => row'[t] # "queued"
      /\ Resting(t) => Resting(t)'
      /\ Resting(t) /\ row[t] \notin Active => row'[t] \notin Active
<1>1. ASSUME NEW s \in TaskIds, Create(s) \/ Retry(s)
      PROVE  Kept
  <2>1. s # t
    BY <1>1 DEF Create, Retry
  <2>2. row'[t] = row[t] /\ queue'[t] = queue[t] /\ worker' = worker
    BY <1>1, <2>1 DEF Create, Retry
  <2>3. QED
    BY <2>2 DEF Resting
<1>2. ASSUME NEW s \in TaskIds, Cancel(s) \/ Delete(s) \/ Choose(s) \/ Expire(s)
      PROVE  Kept
  <2>1. row'[t] \in {row[t], "cancelled", "deleted", "failed"} /\ queue' = queue /\ worker' = worker
    BY <1>2 DEF Cancel, Delete, Choose, Expire
  <2>2. QED
    BY <2>1 DEF Resting, Active
<1>3. CASE Enqueue
  <2>1. disp # t
    BY <1>3 DEF Enqueue
  <2>2. row' = row /\ queue'[t] = queue[t] /\ worker' = worker
    BY <1>3, <2>1 DEF Enqueue
  <2>3. QED
    BY <2>2 DEF Resting
<1>4. CASE EnqueueRefused
  <2>1. row'[t] \in {row[t], "failed"} /\ queue' = queue /\ worker' = worker
    BY <1>4 DEF EnqueueRefused
  <2>2. QED
    BY <2>1 DEF Resting, Active
<1>5. ASSUME NEW w \in Workers, Pop(w)
      PROVE  Kept
  <2>1. PICK s \in TaskIds :
          /\ queue[s] > 0
          /\ queue' = [queue EXCEPT ![s] = @ - 1]
          /\ worker' = [worker EXCEPT ![w] = [Idle EXCEPT !.task = s, !.pc = "popped"]]
    BY <1>5 DEF Pop
  <2>2. row' = row
    BY <1>5 DEF Pop
  <2>3. worker'[w].pc = "popped" /\ \A v \in Workers \ {w} : worker'[v] = worker[v]
    BY <2>1 DEF Idle
  <2>4. queue[t] = 0 => queue'[t] = 0
    BY <2>1
  <2>5. QED
    BY <2>2, <2>3, <2>4 DEF Resting, Begun
<1>6. ASSUME NEW w \in Workers, Register(w) \/ Die(w)
      PROVE  Kept
  <2>1. row' = row /\ queue' = queue
    BY <1>6 DEF Register, Die
  <2>2. worker'[w].pc \notin Begun /\ \A v \in Workers \ {w} : worker'[v] = worker[v]
    BY <1>6 DEF Register, Die, Idle, Begun, Horse
  <2>3. QED
    BY <2>1, <2>2 DEF Resting
<1>7. ASSUME NEW w \in Workers, Begin(w)
      PROVE  Kept
  <2>1. row' = row /\ queue' = queue
    BY <1>7 DEF Begin
  <2>2. \A v \in Workers \ {w} : worker'[v] = worker[v]
    BY <1>7 DEF Begin
  <2>3. CASE row[worker[w].task] = "queued"
    <3>1. worker'[w].task = worker[w].task
      BY <1>7, <2>3 DEF Begin, Startable, Horse
    <3>2. QED
      BY <2>1, <2>2, <2>3, <3>1 DEF Resting
  <2>4. CASE row[worker[w].task] # "queued"
    <3>1. worker'[w].pc = "idle"
      BY <1>7, <2>4 DEF Begin, Startable, Idle
    <3>2. QED
      BY <2>1, <2>2, <3>1 DEF Resting, Begun
  <2>5. QED
    BY <2>3, <2>4
<1>8. ASSUME NEW w \in Workers, Start(w)
      PROVE  Kept
  <2>1. queue' = queue /\ \A v \in Workers \ {w} : worker'[v] = worker[v]
    BY <1>8 DEF Start
  <2>2. worker[w].pc = "read" /\ worker'[w].task = worker[w].task
    BY <1>8 DEF Start, Horse
  <2>3. CASE worker[w].task = t
    <3>1. ~Resting(t)
      BY <2>2, <2>3 DEF Resting, Begun
    <3>2. row'[t] # "queued"
      BY <1>8, <2>3 DEF Start
    <3>3. QED
      BY <3>1, <3>2
  <2>4. CASE worker[w].task # t
    <3>1. row'[t] = row[t]
      BY <1>8, <2>4 DEF Start
    <3>2. QED
      BY <2>1, <2>2, <2>4, <3>1 DEF Resting
  <2>5. QED
    BY <2>3, <2>4
<1>9. ASSUME NEW w \in Workers, End(w)
      PROVE  Kept
  <2>1. queue' = queue /\ row'[t] \in {row[t], "done"}
    BY <1>9 DEF End
  <2>2. worker'[w].pc = "idle" /\ \A v \in Workers \ {w} : worker'[v] = worker[v]
    BY <1>9 DEF End, Idle
  <2>3. QED
    BY <2>1, <2>2 DEF Resting, Begun, Active
<1>10. QED
  BY <1>1, <1>2, <1>3, <1>4, <1>5, <1>6, <1>7, <1>8, <1>9 DEF World

LEMMA StillInit == Init => StopInv
BY DEF Init, StopInv, AtRest, Stopping, Rounds, DeploySafe

LEMMA StillStep ==
  ASSUME StableChecks >= 2, TypedInv, StopInv, [Next]_vars
  PROVE  StopInv'
<1> USE ConstantsAssumption DEF TypedInv, TypeOK
<1>1. CASE World
  <2>1. UNCHANGED <<ctl, adm>>
    BY <1>1, WorldLeavesControl
  <2>2. Selected' = Selected /\ DeploySafe' = DeploySafe
    BY <2>1 DEF Selected, DeploySafe
  <2>3. ASSUME ctl.paused
        PROVE  /\ (\A t \in Selected : row[t] # "queued") => \A t \in Selected : row'[t] # "queued"
               /\ Quiet => Quiet'
               /\ Quiet /\ NoneActive => NoneActive'
    <3>1. \A t \in Selected : t \in TaskIds /\ Paused(t)
      BY <2>3 DEF Selected, Paused
    <3>2. \A t \in Selected :
            /\ row[t] # "queued" => row'[t] # "queued"
            /\ Resting(t) => Resting(t)'
            /\ Resting(t) /\ row[t] \notin Active => row'[t] \notin Active
      BY <1>1, <3>1, RestIsKept
    <3>3. QED
      BY <2>2, <3>2 DEF Quiet, NoneActive
  <2>4. DeploySafe \/ adm.pc \in Stopping \/ adm.pc = "prepare" => ctl.paused
    BY DEF CallsOK, DeploySafe
  <2>5. adm.pc = "scan" => adm.pc \in Stopping
    BY DEF Stopping, Rounds
  <2>6. (adm.pc = "scan" /\ adm.still => \A t \in Selected : row[t] # "queued")'
    BY <2>1, <2>2, <2>3, <2>4, <2>5 DEF StopInv
  <2>7. adm.pc \in Rounds => adm.pc \in Stopping
    BY DEF Stopping
  <2>8. adm.stable \in Nat /\ (adm.stable >= 2 => adm.stable >= 1)
    BY DEF Admin
  <2>9. (adm.pc \in Stopping /\ adm.stable >= 1 => Quiet)'
    BY <2>1, <2>3, <2>4 DEF StopInv
  <2>10. (adm.pc \in Rounds \ {"cancel"} /\ adm.stable >= 1 => NoneActive)'
    BY <2>1, <2>3, <2>4, <2>7 DEF StopInv
  <2>11. (adm.pc \in Stopping /\ adm.stable >= 2 => NoneActive)'
    BY <2>1, <2>3, <2>4, <2>8 DEF StopInv
  <2>12. (DeploySafe \/ adm.pc = "prepare" => Quiet /\ NoneActive)'
    BY <2>1, <2>2, <2>3, <2>4 DEF StopInv
  <2>13. QED
    BY <2>6, <2>9, <2>10, <2>11, <2>12 DEF StopInv
<1>2. ASSUME NEW users \in SUBSET Users, StopCall(users)
      PROVE  StopInv'
  <2>1. adm'.pc = "cancel" /\ adm'.stable = 0
    BY <1>2, AtRestIsAdmin DEF StopCall, AtRest
  <2>2. ~ctl'.safe
    BY <1>2 DEF StopCall, Control
  <2>3. QED
    BY <2>1, <2>2 DEF StopInv, DeploySafe
<1>3. CASE CancelRound
  <2>1. /\ adm.pc = "cancel" /\ adm'.pc = "kill" /\ adm'.stable = adm.stable
        /\ ctl'.selected = ctl.selected /\ ctl'.phase = ctl.phase
    BY <1>3 DEF CancelRound, Admin, Control
  <2>2. ~DeploySafe' /\ Selected' = Selected
    BY <2>1 DEF CallsOK, Stopping, Rounds, DeploySafe, Selected
  <2>3. UNCHANGED <<queue, worker>> /\ \A t \in TaskIds : row'[t] \in {row[t], "cancelled"}
    BY <1>3 DEF CancelRound, SetRows
  <2>4. Quiet => Quiet'
    BY <2>2, <2>3 DEF Quiet, Resting, Selected
  <2>5. NoneActive'
    <3>1. \A t \in Selected : row[t] \in Active => row'[t] = "cancelled"
      BY <1>3 DEF CancelRound, SetRows, Merged, ActiveRows, Selected
    <3>2. QED
      BY <2>2, <2>3, <3>1 DEF NoneActive, Active, Selected
  <2>6. QED
    BY <2>1, <2>2, <2>4, <2>5 DEF StopInv, Stopping, Rounds
<1>4. CASE KillJobs
  <2>1. adm.pc = "kill" /\ adm'.pc = "count" /\ adm'.stable = adm.stable
    <3>1. PICK clean \in BOOLEAN : adm' = [adm EXCEPT !.pc = "count", !.clean = clean]
      BY <1>4 DEF KillJobs
    <3>2. QED
      BY <1>4, <3>1 DEF KillJobs, Admin
  <2>2. UNCHANGED <<ctl, row>> /\ \A t \in Selected : queue'[t] = 0
    BY <1>4 DEF KillJobs, Selected
  <2>3. \A w \in Workers : worker'[w].task = worker[w].task /\ worker'[w].pc = worker[w].pc
    <3>1. PICK told \in SUBSET Workers :
            worker' = [w \in Workers |-> IF w \in told THEN [worker[w] EXCEPT !.told = TRUE]
                                         ELSE worker[w]]
      BY <1>4 DEF KillJobs
    <3>2. QED
      BY <3>1 DEF Horse
  <2>4. Selected' = Selected /\ ~DeploySafe'
    BY <2>1, <2>2 DEF Selected, DeploySafe, CallsOK, Stopping, Rounds
  <2>5. (Quiet => Quiet') /\ (NoneActive => NoneActive')
    BY <2>2, <2>3, <2>4 DEF Quiet, Resting, NoneActive
  <2>6. QED
    BY <2>1, <2>4, <2>5 DEF StopInv, Stopping, Rounds
<1>5. CASE CountRows
  <2>1. /\ adm.pc = "count" /\ adm'.pc = "scan" /\ adm'.stable = adm.stable
        /\ adm'.still = (ActiveRows = {})
    BY <1>5 DEF CountRows, Admin
  <2>2. UNCHANGED <<ctl, row, queue, worker>>
    BY <1>5 DEF CountRows
  <2>3. Selected' = Selected /\ ~DeploySafe'
    BY <2>1, <2>2 DEF Selected, DeploySafe, CallsOK, Stopping, Rounds
  <2>4. (Quiet => Quiet') /\ (NoneActive => NoneActive')
    BY <2>2, <2>3 DEF Quiet, Resting, NoneActive
  <2>5. adm'.still => \A t \in Selected' : row'[t] # "queued"
    BY <2>1, <2>2, <2>3 DEF ActiveRows, Active, Selected
  <2>6. QED
    BY <2>1, <2>3, <2>4, <2>5 DEF StopInv, Stopping, Rounds
<1>6. CASE ScanJobs
  <2>1. adm.pc = "scan" /\ UNCHANGED <<ctl, row, queue, worker>>
    BY <1>6 DEF ScanJobs
  <2>2. /\ adm'.pc \in {"close", "cancel"}
        /\ adm'.stable = IF adm.still /\ NoJobs THEN adm.stable + 1 ELSE 0
    BY <1>6 DEF ScanJobs, Admin
  <2>3. Selected' = Selected /\ ~DeploySafe'
    BY <2>1 DEF Selected, DeploySafe, CallsOK, Stopping, Rounds
  <2>4. adm'.stable >= 1 => Quiet'
    <3>1. SUFFICES ASSUME adm.still, NoJobs
                   PROVE  Quiet'
      BY <2>2
    <3>2. \A t \in Selected : row[t] # "queued" /\ ~HasJob(t)
      BY <2>1, <3>1 DEF StopInv, NoJobs
    <3>3. \A t \in Selected : t \in TaskIds /\ queue[t] \in Nat
      BY DEF Selected
    <3>4. \A t \in Selected : Resting(t)
      BY <3>2, <3>3 DEF HasJob, Resting, Registered, Begun
    <3>5. QED
      BY <2>1, <2>3, <3>4 DEF Quiet, Resting
  <2>5. adm'.stable >= 2 => NoneActive'
    <3>1. adm.stable \in Nat
      BY DEF Admin
    <3>2. adm'.stable >= 2 => adm.stable >= 1
      BY <2>2, <3>1
    <3>3. QED
      BY <2>1, <2>3, <3>2 DEF StopInv, Stopping, Rounds, NoneActive
  <2>6. QED
    BY <2>2, <2>3, <2>4, <2>5 DEF StopInv, Rounds
<1>7. CASE CloseStop
  <2>1. adm.pc = "close" /\ adm'.pc = "idle" /\ UNCHANGED <<row, queue, worker>>
    BY <1>7 DEF CloseStop, AtRest
  <2>2. ctl'.selected = ctl.selected
    BY <1>7 DEF CloseStop, Control
  <2>3. DeploySafe' => adm.stable >= 2
    <3>1. ctl'.safe => Enough(adm.stable)
      BY <1>7 DEF CloseStop, Control
    <3>2. adm.stable \in Nat /\ StableChecks \in Nat
      BY DEF Admin
    <3>3. Enough(adm.stable) => adm.stable >= 2
      BY <3>2 DEF Enough
    <3>4. QED
      BY <3>1, <3>3 DEF DeploySafe
  <2>4. adm.stable >= 2 => Quiet /\ NoneActive
    BY <2>1 DEF StopInv, Stopping, Admin
  <2>5. Selected' = Selected
    BY <2>2 DEF Selected
  <2>6. (Quiet => Quiet') /\ (NoneActive => NoneActive')
    BY <2>1, <2>5 DEF Quiet, Resting, NoneActive
  <2>7. QED
    BY <2>1, <2>3, <2>4, <2>6 DEF StopInv, Stopping, Rounds
<1>8. CASE ResumeCall
  <2>1. adm'.pc = "prepare" /\ UNCHANGED <<row, queue, worker>> /\ DeploySafe
    BY <1>8, AtRestIsAdmin DEF ResumeCall, MayResume, AtRest
  <2>2. ctl'.selected = ctl.selected
    BY <1>8 DEF ResumeCall, Control
  <2>3. Selected' = Selected
    BY <2>2 DEF Selected
  <2>4. Quiet' /\ NoneActive'
    BY <2>1, <2>3 DEF StopInv, Quiet, Resting, NoneActive
  <2>5. QED
    BY <2>1, <2>4 DEF StopInv, Stopping, Rounds
<1>9. CASE Prepare
  <2>1. adm.pc = "prepare" /\ adm'.pc = "unpause" /\ ctl' = ctl
    BY <1>9 DEF Prepare, Admin
  <2>2. QED
    BY <2>1 DEF StopInv, Stopping, Rounds, DeploySafe, CallsOK
<1>10. CASE PrepareFails
  <2>1. adm.pc = "prepare" /\ adm'.pc = "idle" /\ UNCHANGED <<row, queue, worker>>
    BY <1>10 DEF PrepareFails, AtRest
  <2>2. ctl'.selected = ctl.selected
    BY <1>10 DEF PrepareFails, Control
  <2>3. Selected' = Selected
    BY <2>2 DEF Selected
  <2>4. Quiet' /\ NoneActive'
    BY <2>1, <2>3 DEF StopInv, Quiet, Resting, NoneActive
  <2>5. QED
    BY <2>1, <2>4 DEF StopInv, Stopping, Rounds
<1>11. CASE Unpause
  <2>1. adm'.pc = "dispatch" /\ ~ctl'.paused
    BY <1>11 DEF Unpause, Admin, Control
  <2>2. QED
    BY <2>1 DEF StopInv, Stopping, Rounds, DeploySafe
<1>12. CASE Report
  <2>1. adm'.pc = "idle" /\ ~ctl'.safe
    BY <1>12 DEF Report, AtRest, Control
  <2>2. QED
    BY <2>1 DEF StopInv, Stopping, Rounds, DeploySafe
<1>13. ASSUME NEW t \in TaskIds, DispatchRun(t)
       PROVE  StopInv'
  <2>1. adm'.pc = "dispatch" /\ adm.pc = "dispatch" /\ ctl' = ctl
    BY <1>13 DEF DispatchRun, Admin
  <2>2. QED
    BY <2>1 DEF StopInv, Stopping, Rounds, DeploySafe, CallsOK
<1>14. CASE CrashCall
  <2>1. adm'.pc = "idle" /\ UNCHANGED <<ctl, row, queue, worker>>
    BY <1>14 DEF CrashCall, AtRest
  <2>2. Selected' = Selected /\ DeploySafe' = DeploySafe
    BY <2>1 DEF Selected, DeploySafe
  <2>3. (Quiet => Quiet') /\ (NoneActive => NoneActive')
    BY <2>1, <2>2 DEF Quiet, Resting, NoneActive
  <2>4. QED
    BY <2>1, <2>2, <2>3 DEF StopInv, Stopping, Rounds
<1>15. CASE UNCHANGED vars
  <2>1. UNCHANGED <<ctl, adm, row, queue, worker>>
    BY <1>15 DEF vars
  <2>2. Selected' = Selected /\ DeploySafe' = DeploySafe
    BY <2>1 DEF Selected, DeploySafe
  <2>3. (Quiet => Quiet') /\ (NoneActive => NoneActive')
    BY <2>1, <2>2 DEF Quiet, Resting, NoneActive
  <2>4. QED
    BY <2>1, <2>2, <2>3 DEF StopInv, Stopping, Rounds
<1>16. QED
  BY <1>1, <1>2, <1>3, <1>4, <1>5, <1>6, <1>7, <1>8, <1>9, <1>10, <1>11, <1>12, <1>13, <1>14,
     <1>15 DEF Next, World, Stop, Resume

(* deploySafe: with at least two quiet rounds (the code asks for two), a    *)
(* control row that allows a deployment means that no task of the selected  *)
(* users is worked on and no row of theirs is active.                       *)
THEOREM StopIsQuiet ==
  ASSUME StableChecks >= 2
  PROVE  Spec => []SafeMeansStill
<1>1. Init => TypedInv /\ StopInv
  BY TypedInit, StillInit
<1>2. TypedInv /\ StopInv /\ [Next]_vars => (TypedInv /\ StopInv)'
  BY TypedStep, StillStep
<1>3. TypedInv /\ StopInv => SafeMeansStill
  <2>1. ASSUME StopInv, DeploySafe
        PROVE  ActiveRows = {} /\ \A t \in Selected : Working(t) = {}
    <3>1. Quiet /\ NoneActive
      BY <2>1 DEF StopInv
    <3>2. QED
      BY <3>1 DEF Quiet, NoneActive, Resting, ActiveRows, Working, Begun
  <2>2. QED
    BY <2>1 DEF SafeMeansStill
<1>4. QED
  BY <1>1, <1>2, <1>3, PTL DEF Spec
-----------------------------------------------------------------------------
LEMMA OwedInit == Init => OwedInv /\ DispInv
BY DEF Init, OwedInv, StopRemembers, DispInv, AtRest

(* Without late checks no dispatcher is ever refused.                       *)
LEMMA DispStep ==
  ASSUME ~LateChecks, TypedInv, DispInv, [Next]_vars
  PROVE  DispInv'
<1> USE DEF TypedInv, TypeOK
<1>1. ASSUME NEW t \in TaskIds, Create(t) \/ Retry(t) \/ Cancel(t) \/ Delete(t) \/ Expire(t)
      PROVE  DispInv'
  BY <1>1 DEF Create, Retry, Cancel, Delete, Expire, DispInv, Paused
<1>2. ASSUME NEW t \in TaskIds, Choose(t)
      PROVE  DispInv'
  BY <1>2 DEF Choose, DispInv, Paused
<1>3. CASE Enqueue \/ EnqueueRefused
  BY <1>3 DEF Enqueue, EnqueueRefused, DispInv
<1>4. ASSUME NEW w \in Workers,
             Pop(w) \/ Register(w) \/ Begin(w) \/ Start(w) \/ End(w) \/ Die(w)
      PROVE  DispInv'
  BY <1>4 DEF Pop, Register, Begin, Start, End, Die, DispInv, Paused
<1>5. ASSUME NEW users \in SUBSET Users, StopCall(users)
      PROVE  DispInv'
  BY <1>5 DEF StopCall, DispInv
<1>6. CASE CancelRound \/ CloseStop \/ ResumeCall \/ PrepareFails \/ Report
  <2>1. disp' = disp
    BY <1>6 DEF CancelRound, CloseStop, ResumeCall, PrepareFails, Report
  <2>2. ctl'.paused = ctl.paused /\ ctl'.selected = ctl.selected
    BY <1>6 DEF CancelRound, CloseStop, ResumeCall, PrepareFails, Report, Control
  <2>3. QED
    BY <2>1, <2>2 DEF DispInv, Paused
<1>7. CASE KillJobs \/ CountRows \/ ScanJobs \/ Prepare \/ CrashCall
  BY <1>7 DEF KillJobs, CountRows, ScanJobs, Prepare, CrashCall, DispInv, Paused
<1>8. CASE Unpause
  BY <1>8 DEF Unpause, Control, DispInv, Paused
<1>9. ASSUME NEW t \in TaskIds, DispatchRun(t)
      PROVE  DispInv'
  BY <1>9 DEF DispatchRun, DispInv, Paused
<1>10. CASE UNCHANGED vars
  BY <1>10 DEF vars, DispInv, Paused
<1>11. QED
  BY <1>1, <1>2, <1>3, <1>4, <1>5, <1>6, <1>7, <1>8, <1>9, <1>10 DEF Next, Stop, Resume

(* What users, dispatchers and workers leave owed stays cancelled.          *)
LEMMA OwedStayCancelled ==
  ASSUME TypedInv, DispInv, StopRemembers, World, NEW t \in owed'
  PROVE  t \in owed /\ row'[t] = "cancelled"
<1> USE DEF TypedInv, TypeOK, StopRemembers
<1>1. ASSUME NEW s \in TaskIds, Create(s) \/ Cancel(s) \/ Expire(s) \/ Choose(s)
      PROVE  t \in owed /\ row'[t] = "cancelled"
  BY <1>1 DEF Create, Cancel, Expire, Choose
<1>2. ASSUME NEW s \in TaskIds, Retry(s) \/ Delete(s)
      PROVE  t \in owed /\ row'[t] = "cancelled"
  BY <1>2 DEF Retry, Delete
<1>3. CASE Enqueue \/ EnqueueRefused
  BY <1>3 DEF Enqueue, EnqueueRefused, DispInv
<1>4. ASSUME NEW w \in Workers, Pop(w) \/ Register(w) \/ Begin(w) \/ Die(w)
      PROVE  t \in owed /\ row'[t] = "cancelled"
  BY <1>4 DEF Pop, Register, Begin, Die
<1>5. ASSUME NEW w \in Workers, Start(w)
      PROVE  t \in owed /\ row'[t] = "cancelled"
  BY <1>5 DEF Start
<1>6. ASSUME NEW w \in Workers, End(w)
      PROVE  t \in owed /\ row'[t] = "cancelled"
  <2>1. \/ UNCHANGED <<row, owed>>
        \/ row' = [row EXCEPT ![worker[w].task] = "done"] /\ owed' = owed \ {worker[w].task}
    BY <1>6 DEF End
  <2>2. QED
    BY <2>1
<1>7. QED
  BY <1>1, <1>2, <1>3, <1>4, <1>5, <1>6 DEF World

LEMMA OwedStep ==
  ASSUME TypedInv, DispInv, OwedInv, [Next]_vars
  PROVE  OwedInv'
<1> USE DEF TypedInv, TypeOK
<1>1. CASE World
  <2>1. UNCHANGED <<ctl, adm>>
    BY <1>1, WorldLeavesControl
  <2>2. \A t \in owed' : t \in owed /\ row'[t] = "cancelled"
    BY <1>1, OwedStayCancelled DEF OwedInv
  <2>3. QED
    BY <2>1, <2>2 DEF OwedInv, StopRemembers
<1>2. ASSUME NEW users \in SUBSET Users, StopCall(users)
      PROVE  OwedInv'
  <2>1. adm'.pc = "cancel" /\ UNCHANGED <<row, owed>>
    BY <1>2, AtRestIsAdmin DEF StopCall, AtRest
  <2>2. CASE ctl.paused
    <3>1. ctl'.paused /\ ctl'.snap = ctl.snap
      BY <1>2, <2>2 DEF StopCall, Control
    <3>2. QED
      BY <2>1, <3>1 DEF OwedInv, StopRemembers
  <2>3. CASE ~ctl.paused
    BY <2>1, <2>3 DEF OwedInv, StopRemembers
  <2>4. QED
    BY <2>2, <2>3
<1>3. CASE CancelRound
  <2>1. adm.pc = "cancel" /\ adm'.pc = "kill"
    BY <1>3 DEF CancelRound, Admin
  <2>2. ctl'.paused /\ ctl'.snap = Merged
    BY <1>3 DEF CancelRound, Control, CallsOK, Stopping, Rounds
  <2>3. \A t \in owed' : t \in Merged /\ row'[t] = "cancelled"
    <3>1. owed \subseteq TaskIds /\ Merged \subseteq TaskIds
      BY DEF Control, Merged, ActiveRows, Selected
    <3>2. \A t \in owed : t \in Merged /\ row[t] = "cancelled"
      BY DEF OwedInv, StopRemembers, Merged
    <3>3. owed' = owed \cup {t \in Merged : row[t] \in Active}
      BY <1>3 DEF CancelRound
    <3>4. row' = SetRows({t \in Merged : row[t] \in Active}, "cancelled")
      BY <1>3 DEF CancelRound
    <3>5. QED
      BY <3>1, <3>2, <3>3, <3>4 DEF SetRows
  <2>4. QED
    BY <2>1, <2>2, <2>3 DEF OwedInv, StopRemembers
<1>4. CASE KillJobs \/ CountRows \/ ScanJobs
  <2>1. adm'.pc \notin {"prepare", "unpause"}
    <3>1. CASE KillJobs
      <4>1. PICK clean \in BOOLEAN : adm' = [adm EXCEPT !.pc = "count", !.clean = clean]
        BY <3>1 DEF KillJobs
      <4>2. QED
        BY <4>1 DEF Admin
    <3>2. CASE CountRows
      BY <3>2 DEF CountRows, Admin
    <3>3. CASE ScanJobs
      BY <3>3 DEF ScanJobs, Admin
    <3>4. QED
      BY <1>4, <3>1, <3>2, <3>3
  <2>2. UNCHANGED <<ctl, row, owed>>
    BY <1>4 DEF KillJobs, CountRows, ScanJobs
  <2>3. QED
    BY <2>1, <2>2 DEF OwedInv, StopRemembers
<1>5. CASE CloseStop \/ PrepareFails \/ Report
  <2>1. adm'.pc = "idle" /\ UNCHANGED <<row, owed>>
    BY <1>5 DEF CloseStop, PrepareFails, Report, AtRest
  <2>2. ctl'.paused = ctl.paused /\ ctl'.snap = ctl.snap
    BY <1>5 DEF CloseStop, PrepareFails, Report, Control
  <2>3. QED
    BY <2>1, <2>2 DEF OwedInv, StopRemembers
<1>6. CASE ResumeCall
  <2>1. adm'.pc = "prepare" /\ adm'.held = ctl.snap /\ UNCHANGED <<row, owed>>
    BY <1>6, AtRestIsAdmin DEF ResumeCall, AtRest
  <2>2. ctl'.paused = ctl.paused /\ ctl'.snap = ctl.snap
    BY <1>6 DEF ResumeCall, Control
  <2>3. QED
    BY <2>1, <2>2 DEF OwedInv, StopRemembers
<1>7. CASE Prepare
  <2>1. owed' = {}
    BY <1>7 DEF Prepare, OwedInv, StopRemembers
  <2>2. adm'.pc = "unpause"
    BY <1>7 DEF Prepare, Admin
  <2>3. QED
    BY <2>1, <2>2 DEF OwedInv, StopRemembers
<1>8. CASE Unpause
  <2>1. owed' = {}
    BY <1>8 DEF Unpause, OwedInv
  <2>2. adm'.pc = "dispatch"
    BY <1>8 DEF Unpause, Admin
  <2>3. QED
    BY <2>1, <2>2 DEF OwedInv, StopRemembers
<1>9. ASSUME NEW t \in TaskIds, DispatchRun(t)
      PROVE  OwedInv'
  <2>1. adm'.pc = "dispatch" /\ UNCHANGED <<ctl, row, owed>>
    BY <1>9 DEF DispatchRun, Admin
  <2>2. QED
    BY <2>1 DEF OwedInv, StopRemembers
<1>10. CASE CrashCall
  BY <1>10 DEF CrashCall, AtRest, OwedInv, StopRemembers
<1>11. CASE UNCHANGED vars
  BY <1>11 DEF vars, OwedInv, StopRemembers
<1>12. QED
  BY <1>1, <1>2, <1>3, <1>4, <1>5, <1>6, <1>7, <1>8, <1>9, <1>10, <1>11
     DEF Next, World, Stop, Resume

(* stop_all_tasks: unless a stop slips in between a dispatcher's choice and *)
(* its pause check, every task that a stop has cancelled and nothing has    *)
(* given back stays in the snapshot, cancelled, and the system stays paused.*)
THEOREM StopForgetsNone ==
  ASSUME ~LateChecks
  PROVE  Spec => []StopRemembers
<1>1. Init => TypedInv /\ DispInv /\ OwedInv
  BY TypedInit, OwedInit
<1>2. TypedInv /\ DispInv /\ OwedInv /\ [Next]_vars => (TypedInv /\ DispInv /\ OwedInv)'
  BY TypedStep, DispStep, OwedStep
<1>3. OwedInv => StopRemembers
  BY DEF OwedInv
<1>4. QED
  BY <1>1, <1>2, <1>3, PTL DEF Spec
-----------------------------------------------------------------------------
LEMMA WorkInit == Init => WorkInv
BY DEF Init, WorkInv, OneBegun, IdleRows, OwnSnapshot, Idle, Begun

(* The job of a worker that begins is the only one of its task.             *)
LEMMA OneBegunStep ==
  ASSUME TypedInv, WorkInv, [Next]_vars
  PROVE  OneBegun'
<1> USE DEF TypedInv, TypeOK
<1>1. ASSUME UNCHANGED worker
      PROVE  OneBegun'
  BY <1>1 DEF WorkInv, OneBegun
<1>2. ASSUME NEW t \in TaskIds,
             Create(t) \/ Retry(t) \/ Cancel(t) \/ Delete(t) \/ Choose(t) \/ Expire(t)
      PROVE  UNCHANGED worker
  BY <1>2 DEF Create, Retry, Cancel, Delete, Choose, Expire
<1>3. ASSUME Enqueue \/ EnqueueRefused
      PROVE  UNCHANGED worker
  BY <1>3 DEF Enqueue, EnqueueRefused
<1>4. ASSUME NEW w \in Workers, Pop(w)
      PROVE  OneBegun'
  <2>1. worker'[w].pc = "popped" /\ \A v \in Workers \ {w} : worker'[v] = worker[v]
    BY <1>4 DEF Pop, Idle
  <2>2. QED
    BY <2>1 DEF WorkInv, OneBegun, Begun
<1>5. ASSUME NEW w \in Workers, Register(w) \/ End(w) \/ Die(w)
      PROVE  OneBegun'
  <2>1. worker'[w].pc \notin Begun /\ \A v \in Workers \ {w} : worker'[v] = worker[v]
    BY <1>5 DEF Register, End, Die, Idle, Horse, Begun
  <2>2. QED
    BY <2>1 DEF WorkInv, OneBegun
<1>6. ASSUME NEW w \in Workers, Begin(w)
      PROVE  OneBegun'
  <2>1. \A v \in Workers \ {w} : worker'[v] = worker[v]
    BY <1>6 DEF Begin
  <2>2. CASE row[worker[w].task] # "queued"
    <3>1. worker'[w].pc = "idle"
      BY <1>6, <2>2 DEF Begin, Startable, Idle
    <3>2. QED
      BY <2>1, <3>1 DEF WorkInv, OneBegun, Begun
  <2>3. CASE row[worker[w].task] = "queued"
    <3>1. worker'[w].task = worker[w].task
      BY <1>6, <2>3 DEF Begin, Startable, Horse
    <3>2. ASSUME NEW v \in Workers \ {w}, worker[v].task = worker[w].task,
                 worker[w].task \in TaskIds
          PROVE  worker[v].pc \notin Begun
      <4>1. worker[v].pc # "read"
        BY <1>6, <3>2 DEF Begin
      <4>2. worker[v].pc # "work"
        BY <2>3, <3>2 DEF WorkInv, IdleRows, Idleness
      <4>3. QED
        BY <4>1, <4>2 DEF Begun
    <3>3. QED
      BY <2>1, <3>1, <3>2 DEF WorkInv, OneBegun
  <2>4. QED
    BY <2>2, <2>3
<1>7. ASSUME NEW w \in Workers, Start(w)
      PROVE  OneBegun'
  <2>1. \A v \in Workers \ {w} : worker'[v] = worker[v]
    BY <1>7 DEF Start
  <2>2. worker'[w].task = worker[w].task /\ worker[w].pc \in Begun
    BY <1>7 DEF Start, Horse, Begun
  <2>3. QED
    BY <2>1, <2>2 DEF WorkInv, OneBegun
<1>8. CASE KillJobs
  <2>1. PICK told \in SUBSET Workers :
          worker' = [w \in Workers |-> IF w \in told THEN [worker[w] EXCEPT !.told = TRUE]
                                       ELSE worker[w]]
    BY <1>8 DEF KillJobs
  <2>2. \A w \in Workers : worker'[w].task = worker[w].task /\ worker'[w].pc = worker[w].pc
    BY <2>1 DEF Horse
  <2>3. QED
    BY <2>2 DEF WorkInv, OneBegun
<1>9. ASSUME NEW users \in SUBSET Users, StopCall(users)
      PROVE  UNCHANGED worker
  BY <1>9 DEF StopCall
<1>10. ASSUME CancelRound \/ CountRows \/ ScanJobs \/ CloseStop \/ ResumeCall \/ CrashCall
       PROVE  UNCHANGED worker
  BY <1>10 DEF CancelRound, CountRows, ScanJobs, CloseStop, ResumeCall, CrashCall
<1>11. ASSUME Prepare \/ PrepareFails \/ Unpause \/ Report \/ \E t \in TaskIds : DispatchRun(t)
       PROVE  UNCHANGED worker
  BY <1>11 DEF Prepare, PrepareFails, Unpause, Report, DispatchRun
<1>12. ASSUME UNCHANGED vars
       PROVE  UNCHANGED worker
  BY <1>12 DEF vars
<1>13. QED
  BY <1>1, <1>2, <1>3, <1>4, <1>5, <1>6, <1>7, <1>8, <1>9, <1>10, <1>11, <1>12
     DEF Next, Stop, Resume

(* A row that becomes one that may be started has no worker at work.        *)
LEMMA IdleRowsWorld ==
  ASSUME TypedInv, DispInv, WorkInv, World
  PROVE  IdleRows'
<1> USE DEF TypedInv, TypeOK
<1>0. UNCHANGED ctl
  BY WorldLeavesControl
<1>1. ASSUME NEW s \in TaskIds, Create(s) \/ Retry(s) \/ Cancel(s) \/ Expire(s)
      PROVE  IdleRows'
  <2>1. worker' = worker /\ \A t \in TaskIds \ {s} : row'[t] = row[t]
    BY <1>1 DEF Create, Retry, Cancel, Expire
  <2>2. \A w \in Workers : worker[w].task = s => worker[w].pc # "work"
    BY <1>1 DEF Create, Retry, Cancel, Expire, WorkInv, IdleRows, Idleness
  <2>3. QED
    BY <1>0, <2>1, <2>2 DEF WorkInv, IdleRows, Paused
<1>2. ASSUME NEW s \in TaskIds, Delete(s) \/ Choose(s)
      PROVE  IdleRows'
  <2>1. worker' = worker /\ \A t \in TaskIds : row'[t] \in {row[t], "deleted"}
    BY <1>2 DEF Delete, Choose
  <2>2. QED
    BY <1>0, <2>1 DEF WorkInv, IdleRows, Paused, Idleness
<1>3. CASE Enqueue \/ EnqueueRefused
  <2>1. worker' = worker /\ row' = row
    BY <1>3 DEF Enqueue, EnqueueRefused, DispInv
  <2>2. QED
    BY <1>0, <2>1 DEF WorkInv, IdleRows, Paused
<1>4. ASSUME NEW w \in Workers, Pop(w) \/ Register(w) \/ Begin(w) \/ Die(w)
      PROVE  IdleRows'
  <2>1. row' = row /\ \A v \in Workers \ {w} : worker'[v] = worker[v]
    BY <1>4 DEF Pop, Register, Begin, Die
  <2>2. worker'[w].pc # "work"
    <3>1. CASE Pop(w)
      BY <3>1 DEF Pop, Idle
    <3>2. CASE Register(w) \/ Die(w)
      BY <3>2 DEF Register, Die, Idle, Horse
    <3>3. CASE Begin(w)
      BY <3>3 DEF Begin, Idle, Horse
    <3>4. QED
      BY <1>4, <3>1, <3>2, <3>3
  <2>3. QED
    BY <1>0, <2>1, <2>2 DEF WorkInv, IdleRows, Paused
<1>5. ASSUME NEW w \in Workers, Start(w)
      PROVE  IdleRows'
  <2>1. \A v \in Workers \ {w} : worker'[v] = worker[v]
    BY <1>5 DEF Start
  <2>2. worker'[w].task = worker[w].task
    BY <1>5 DEF Start, Horse
  <2>3. \A t \in TaskIds : row'[t] = row[t] \/ row'[t] \in {"running", "deleted"}
    BY <1>5 DEF Start
  <2>4. worker[w].task \in TaskIds => row'[worker[w].task] \in {"running", "deleted"}
    BY <1>5 DEF Start
  <2>5. QED
    BY <1>0, <2>1, <2>2, <2>3, <2>4 DEF WorkInv, IdleRows, Paused, Idleness
<1>6. ASSUME NEW w \in Workers, End(w)
      PROVE  IdleRows'
  <2>1. worker'[w].pc = "idle" /\ \A v \in Workers \ {w} : worker'[v] = worker[v]
    BY <1>6 DEF End, Idle
  <2>2. \A t \in TaskIds : row'[t] \in {row[t], "done"}
    BY <1>6 DEF End
  <2>3. QED
    BY <1>0, <2>1, <2>2 DEF WorkInv, IdleRows, Paused, Idleness
<1>7. QED
  BY <1>1, <1>2, <1>3, <1>4, <1>5, <1>6 DEF World

LEMMA IdleRowsStep ==
  ASSUME StableChecks >= 2, TypedInv, StopInv, DispInv, WorkInv, [Next]_vars
  PROVE  IdleRows'
<1> USE ConstantsAssumption DEF TypedInv, TypeOK
<1>1. CASE World
  BY <1>1, IdleRowsWorld
<1>2. ASSUME NEW users \in SUBSET Users, StopCall(users)
      PROVE  IdleRows'
  <2>1. UNCHANGED <<row, worker>>
    BY <1>2 DEF StopCall
  <2>2. ctl.paused => ctl'.paused /\ ctl'.selected = ctl.selected /\ ctl'.phase = "stopping"
    BY <1>2 DEF StopCall, Control
  <2>3. QED
    BY <2>1, <2>2 DEF WorkInv, IdleRows, Paused
<1>3. CASE CancelRound
  <2>1. /\ ctl'.paused = ctl.paused /\ ctl'.phase = ctl.phase /\ ctl'.selected = ctl.selected
        /\ worker' = worker
    BY <1>3 DEF CancelRound, Control
  <2>2. ctl.paused /\ ctl.phase = "stopping"
    BY <1>3 DEF CancelRound, CallsOK, Stopping, Rounds
  <2>3. Merged \subseteq Selected
    BY <2>2 DEF Merged, ActiveRows, WorkInv, OwnSnapshot
  <2>4. \A t \in TaskIds : row'[t] = row[t] \/ (t \in Selected /\ row'[t] = "cancelled")
    BY <1>3, <2>3 DEF CancelRound, SetRows
  <2>5. QED
    BY <2>1, <2>2, <2>4 DEF WorkInv, IdleRows, Paused, Selected
<1>4. CASE KillJobs
  <2>1. PICK told \in SUBSET Workers :
          worker' = [w \in Workers |-> IF w \in told THEN [worker[w] EXCEPT !.told = TRUE]
                                       ELSE worker[w]]
    BY <1>4 DEF KillJobs
  <2>2. \A w \in Workers : worker'[w].task = worker[w].task /\ worker'[w].pc = worker[w].pc
    BY <2>1 DEF Horse
  <2>3. UNCHANGED <<ctl, row>>
    BY <1>4 DEF KillJobs
  <2>4. QED
    BY <2>2, <2>3 DEF WorkInv, IdleRows, Paused
<1>5. CASE CountRows \/ ScanJobs \/ CrashCall \/ \E t \in TaskIds : DispatchRun(t)
  <2>1. UNCHANGED <<ctl, row, worker>>
    BY <1>5 DEF CountRows, ScanJobs, CrashCall, DispatchRun
  <2>2. QED
    BY <2>1 DEF WorkInv, IdleRows, Paused
<1>6. CASE CloseStop
  <2>1. adm.pc = "close" /\ UNCHANGED <<row, worker>>
    BY <1>6 DEF CloseStop
  <2>2. ctl'.paused = ctl.paused /\ ctl'.selected = ctl.selected
    BY <1>6 DEF CloseStop, Control
  <2>3. CASE ctl'.phase = "stop_failed"
    BY <2>1, <2>2, <2>3 DEF WorkInv, IdleRows, Paused
  <2>4. CASE ctl'.phase # "stop_failed"
    <3>1. Enough(adm.stable)
      BY <1>6, <2>4 DEF CloseStop, Control
    <3>2. adm.stable \in Nat /\ StableChecks \in Nat
      BY DEF Admin
    <3>3. adm.stable >= 2 /\ adm.stable >= 1
      BY <3>1, <3>2 DEF Enough
    <3>4. Quiet
      BY <2>1, <3>3 DEF StopInv, Stopping
    <3>5. \A t \in TaskIds : \A w \in Workers :
            worker[w].task = t /\ worker[w].pc = "work" => ~Paused(t)
      BY <3>4 DEF Quiet, Resting, Begun, Selected, Paused
    <3>6. QED
      BY <2>1, <2>2, <3>5 DEF WorkInv, IdleRows, Paused
  <2>5. QED
    BY <2>3, <2>4
<1>7. CASE ResumeCall \/ PrepareFails \/ Unpause \/ Report
  <2>1. UNCHANGED <<row, worker>>
    BY <1>7 DEF ResumeCall, PrepareFails, Unpause, Report
  <2>2. ~ctl.paused \/ ctl.phase \notin {"stopping", "stop_failed"}
    BY <1>7 DEF ResumeCall, PrepareFails, Unpause, Report, CallsOK, MayResume, DeploySafe
  <2>3. QED
    BY <2>1, <2>2 DEF WorkInv, IdleRows, Paused
<1>8. CASE Prepare
  <2>1. ctl' = ctl /\ worker' = worker
    BY <1>8 DEF Prepare
  <2>2. ctl.phase = "resuming"
    BY <1>8 DEF Prepare, CallsOK
  <2>3. \A t \in TaskIds : row'[t] = row[t] \/ row[t] = "cancelled"
    BY <1>8 DEF Prepare, SetRows
  <2>4. QED
    BY <2>1, <2>2, <2>3 DEF WorkInv, IdleRows, Paused, Idleness
<1>9. CASE UNCHANGED vars
  BY <1>9 DEF vars, WorkInv, IdleRows, Paused
<1>10. QED
  BY <1>1, <1>2, <1>3, <1>4, <1>5, <1>6, <1>7, <1>8, <1>9 DEF Next, World, Stop, Resume

LEMMA OwnSnapshotStep ==
  ASSUME TypedInv, WorkInv, [Next]_vars
  PROVE  OwnSnapshot'
<1> USE DEF TypedInv, TypeOK
<1>1. CASE World
  <2>1. UNCHANGED ctl
    BY <1>1, WorldLeavesControl
  <2>2. QED
    BY <2>1 DEF WorkInv, OwnSnapshot, Selected
<1>2. ASSUME NEW users \in SUBSET Users, StopCall(users)
      PROVE  OwnSnapshot'
  <2>1. CASE ctl.paused
    <3>1. ctl'.snap = ctl.snap /\ ctl'.selected = ctl.selected
      BY <1>2, <2>1 DEF StopCall, Control
    <3>2. QED
      BY <2>1, <3>1 DEF WorkInv, OwnSnapshot, Selected
  <2>2. CASE ~ctl.paused
    <3>1. ctl'.snap = {}
      BY <1>2, <2>2 DEF StopCall
    <3>2. QED
      BY <3>1 DEF OwnSnapshot
  <2>3. QED
    BY <2>1, <2>2
<1>3. CASE CancelRound
  <2>1. ctl'.snap = Merged /\ ctl'.selected = ctl.selected /\ ctl'.paused = ctl.paused
    BY <1>3 DEF CancelRound, Control
  <2>2. ctl.paused => Merged \subseteq Selected
    BY DEF Merged, ActiveRows, WorkInv, OwnSnapshot
  <2>3. Selected' = Selected
    BY <2>1 DEF Selected
  <2>4. QED
    BY <2>1, <2>2, <2>3 DEF OwnSnapshot
<1>4. CASE KillJobs \/ CountRows \/ ScanJobs \/ Prepare \/ CrashCall \/ \E t \in TaskIds : DispatchRun(t)
  <2>1. UNCHANGED ctl
    BY <1>4 DEF KillJobs, CountRows, ScanJobs, Prepare, CrashCall, DispatchRun
  <2>2. QED
    BY <2>1 DEF WorkInv, OwnSnapshot, Selected
<1>5. CASE CloseStop \/ ResumeCall \/ PrepareFails \/ Report
  <2>1. ctl'.snap = ctl.snap /\ ctl'.selected = ctl.selected /\ ctl'.paused = ctl.paused
    BY <1>5 DEF CloseStop, ResumeCall, PrepareFails, Report, Control
  <2>2. QED
    BY <2>1 DEF WorkInv, OwnSnapshot, Selected
<1>6. CASE Unpause
  BY <1>6 DEF Unpause, Control, OwnSnapshot
<1>7. CASE UNCHANGED vars
  BY <1>7 DEF vars, WorkInv, OwnSnapshot, Selected
<1>8. QED
  BY <1>1, <1>2, <1>3, <1>4, <1>5, <1>6, <1>7 DEF Next, World, Stop, Resume

(* resume_all_tasks: with at least two quiet rounds, and unless a stop      *)
(* slips in between a dispatcher's choice and its pause check, no task is   *)
(* worked on twice at a time, whatever stops and resumptions enqueue.       *)
THEOREM NoTaskTwice ==
  ASSUME StableChecks >= 2, ~LateChecks
  PROVE  Spec => []OneExecution
<1> DEFINE IInv == TypedInv /\ StopInv /\ DispInv /\ WorkInv
<1>1. Init => IInv
  BY TypedInit, StillInit, OwedInit, WorkInit
<1>2. IInv /\ [Next]_vars => IInv'
  <2>1. SUFFICES ASSUME IInv, [Next]_vars
                 PROVE  IInv'
    OBVIOUS
  <2>2. WorkInv'
    BY <2>1, OneBegunStep, IdleRowsStep, OwnSnapshotStep DEF WorkInv
  <2>3. QED
    BY <2>1, <2>2, TypedStep, StillStep, DispStep
<1>3. IInv => OneExecution
  <2>1. SUFFICES ASSUME OneBegun, NEW t \in TaskIds
                 PROVE  Cardinality(Working(t)) <= 1
    BY DEF OneExecution, WorkInv
  <2>2. CASE Working(t) = {}
    BY <2>2, FS_EmptySet
  <2>3. CASE Working(t) # {}
    <3>1. PICK w \in Workers : w \in Working(t)
      BY <2>3 DEF Working
    <3>2. Working(t) = {w}
      BY <2>1, <3>1 DEF OneBegun, Working, Begun
    <3>3. QED
      BY <3>2, FS_Singleton
  <2>4. QED
    BY <2>2, <2>3
<1>4. QED
  BY <1>1, <1>2, <1>3, PTL DEF Spec

-----------------------------------------------------------------------------
(* Starts: what the variables may hold. *)
Stages ==
  Unlocked \cup {"parent", "create", "permissions", "fill permissions", "require", "scope", "unkey",
                 "copy", "own", "key words", "listed", "reviews", "fill reviews", "fill listed",
                 "key", "fill key", "end", "admin", "read", "write"}
WordPairs == (Accounts \cup {NoOwner}) \X (Legacy \cup Defaults)
DbRows == [tables : SUBSET Tables, columns : SUBSET Columns, blank : SUBSET Columns,
           required : SUBSET Columns, parentKey : BOOLEAN,
           scope : {"none", "shared", "mixed", "owner"}, wordKey : {"none", "word", "owner"},
           words : SUBSET WordPairs, accounts : SUBSET Accounts,
           settings : [Settings -> [Accounts -> {"none", "owner", "saved"}]],
           done : SUBSET Settings]
Pends == [fills : SUBSET Columns, copies : SUBSET Accounts, clear : BOOLEAN]

StartTyped ==
  /\ db \in DbRows /\ first \in DbRows /\ pend \in Pends
  /\ stage \in [Starters -> Stages]
  /\ seen \in [Starters -> DbRows]
  /\ dropped \in SUBSET WordPairs
  /\ changes \in Nat /\ deaths \in Nat

(* A database to which nothing has to be done; what is true of any.         *)
Whole(d) ==
  /\ d.tables = Tables /\ d.columns = Columns /\ d.blank = {} /\ d.required = {"permissions"}
  /\ d.parentKey /\ d.scope = "owner" /\ d.wordKey = "owner"
DbInv(d) ==
  /\ d.blank \subseteq d.columns /\ d.required \subseteq d.columns \cap {"permissions"}
  /\ "permissions" \in d.required => "permissions" \notin d.blank
  /\ \A c \in d.columns : TableOf[c] \in d.tables
  /\ d.scope \in {"none", "owner"} => Shared(d.words) = {}
  /\ "words" \in d.tables <=> d.scope # "none"
  /\ d.done \in {{}, Settings}
  /\ d.done = Settings => Whole(d)

(* What a process that migrates has behind it, by its stage.                *)
Tabling == {"parent", "create"}
Granting == Tabling \cup {"permissions"}
Requiring == Granting \cup {"fill permissions", "require"}
Scoping == Requiring \cup {"scope"}
Moving == Scoping \cup {"unkey", "copy", "own"}
Keying == Moving \cup {"key words"}
Listing == Keying \cup {"listed"}
Reviewing == Listing \cup {"reviews"}
Lining == Reviewing \cup {"fill reviews", "fill listed", "key"}

(* The columns that only their addition fills are being filled.             *)
TornOf(st, d, pd) ==
  /\ "permissions" \in d.columns \ d.required => st \in {"fill permissions", "require"}
  /\ "reviews" \in d.blank =>
       \/ st = "fill reviews"
       \/ st \in {"fill listed", "key", "fill key", "end"} /\ "reviews" \in pd.fills
SchemaOf(st, d, pd) ==
  /\ st # "parent" => ("accounts" \in d.tables => d.parentKey)
  /\ st \notin Tabling => d.tables = Tables
  /\ st \notin Granting => "permissions" \in d.columns
  /\ st \notin Requiring => "permissions" \in d.required
  /\ st = "require" => "permissions" \in pd.fills
  /\ st \notin Scoping => d.scope \in {"mixed", "owner"}
  /\ st \notin Moving => d.scope = "owner"
  /\ st \notin Keying => d.wordKey = "owner"
  /\ st \notin Listing => "listed" \in d.columns
  /\ st \notin Reviewing => "reviews" \in d.columns
  /\ st \notin Lining => "key" \in d.columns
  /\ st \in {"key", "fill key", "end"} => ("listed" \in d.blank => "listed" \in pd.fills)
  /\ st = "end" => ("key" \in d.blank => "key" \in pd.fills)
  /\ st \in {"admin", "read", "write"} => d.blank = {}
PendOf(st, d, pd, sn) ==
  /\ st \notin {"copy", "own"} => pd.copies = {}
  /\ st # "own" => ~pd.clear
  /\ st \in {"parent", "create", "permissions", "admin", "read", "write"} => pd = Nothing
  /\ st = "copy" => first.accounts \subseteq sn.accounts
  /\ st = "own" => Shared(d.words) = {} \/ first.accounts \subseteq pd.copies
  /\ st = "write" => sn.done = d.done
HolderInv(st, d, pd, sn) == TornOf(st, d, pd) /\ SchemaOf(st, d, pd) /\ PendOf(st, d, pd, sn)

OneHolder == \A p, q \in Starters : stage[p] \notin Unlocked /\ stage[q] \notin Unlocked => p = q
HoldersInv ==
  /\ \A p \in Starters : stage[p] \notin Unlocked => HolderInv(stage[p], db, pend, seen[p])
  /\ (\A p \in Starters : stage[p] \in Unlocked) => pend = Nothing /\ ~Torn

(* Before the first start has ended nobody is served; the words of the      *)
(* shared list.                                                             *)
UsersInv ==
  db.done = {} => /\ \A p \in Starters : stage[p] # "ready"
                  /\ dropped = {}
                  /\ \A k \in Settings, u \in Accounts : db.settings[k][u] # "saved"
InLists(words) ==
  first.scope = "shared" =>
    \A w \in Legacy : <<NoOwner, w>> \in words \/ \A u \in first.accounts : <<u, w>> \in words \cup dropped
ListsInv == first.accounts \subseteq db.accounts /\ InLists(db.words)

StartInv ==
  StartTyped /\ DbInv(db) /\ OneHolder /\ HoldersInv /\ UsersInv /\ ListsInv

-----------------------------------------------------------------------------
(* What is pending.                                                         *)
LEMMA SharedIn ==
  ASSUME NEW w1, NEW w2, w1 \subseteq w2
  PROVE  Shared(w1) \subseteq Shared(w2)
  BY DEF Shared

LEMMA AfterFields ==
  ASSUME NEW d \in DbRows, NEW pd \in Pends
  PROVE  /\ After(d, pd) \in DbRows
         /\ After(d, pd).tables = d.tables /\ After(d, pd).columns = d.columns
         /\ After(d, pd).blank = d.blank \ pd.fills /\ After(d, pd).required = d.required
         /\ After(d, pd).parentKey = d.parentKey /\ After(d, pd).scope = d.scope
         /\ After(d, pd).wordKey = d.wordKey /\ After(d, pd).accounts = d.accounts
         /\ After(d, pd).settings = d.settings /\ After(d, pd).done = d.done
         /\ pd.clear => Shared(After(d, pd).words) = {}
         /\ Shared(After(d, pd).words) \subseteq Shared(d.words)
         /\ d.words \ ({NoOwner} \X Legacy) \subseteq After(d, pd).words
         /\ ~pd.clear => d.words \subseteq After(d, pd).words
         /\ \A u \in pd.copies, w \in Shared(d.words) : <<u, w>> \in After(d, pd).words
         /\ After(d, pd).words \ d.words \subseteq Accounts \X Shared(d.words)
<1> DEFINE copied == d.words \cup (pd.copies \X Shared(d.words))
           words == IF pd.clear THEN copied \ ({NoOwner} \X Legacy) ELSE copied
<1>1. After(d, pd) = [d EXCEPT !.blank = d.blank \ pd.fills, !.words = words]
  BY DEF After, DbRows
<1>2. pd.copies \subseteq Accounts /\ d.words \subseteq WordPairs /\ NoOwner \notin Accounts
  BY StartAssumption DEF Pends, DbRows, StartConstants
<1>3. words \in SUBSET WordPairs
  BY <1>2 DEF Shared, WordPairs
<1>4. pd.clear => Shared(words) = {}
  BY DEF Shared
<1>5. Shared(words) \subseteq Shared(d.words)
  BY <1>2 DEF Shared
<1>6. d.words \ ({NoOwner} \X Legacy) \subseteq words /\ (~pd.clear => d.words \subseteq words)
  OBVIOUS
<1>7. \A u \in pd.copies, w \in Shared(d.words) : <<u, w>> \in words
  BY <1>2
<1>8. words \ d.words \subseteq Accounts \X Shared(d.words)
  BY <1>2
<1> HIDE DEF words
<1>9. /\ After(d, pd) \in DbRows /\ After(d, pd).words = words
      /\ After(d, pd).tables = d.tables /\ After(d, pd).columns = d.columns
      /\ After(d, pd).blank = d.blank \ pd.fills /\ After(d, pd).required = d.required
      /\ After(d, pd).parentKey = d.parentKey /\ After(d, pd).scope = d.scope
      /\ After(d, pd).wordKey = d.wordKey /\ After(d, pd).accounts = d.accounts
      /\ After(d, pd).settings = d.settings /\ After(d, pd).done = d.done
  BY <1>1, <1>3 DEF DbRows
<1>10. QED
  BY <1>4, <1>5, <1>6, <1>7, <1>8, <1>9

LEMMA AfterInv ==
  ASSUME NEW d \in DbRows, NEW pd \in Pends, DbInv(d)
  PROVE  DbInv(After(d, pd))
<1>1. d.done = Settings => Whole(After(d, pd))
  BY AfterFields DEF DbInv, Whole
<1>2. d.scope \in {"none", "owner"} => Shared(After(d, pd).words) = {}
  BY AfterFields DEF DbInv
<1>3. QED
  BY <1>1, <1>2, AfterFields DEF DbInv

(* A process that migrates takes a step that serves nobody yet.             *)
LEMMA HolderStep ==
  ASSUME StartInv, NEW p \in Starters, stage[p] \notin Unlocked, NEW to \in Stages,
         to # "ready",
         stage' = [stage EXCEPT ![p] = to],
         db' \in DbRows, pend' \in Pends, seen' \in [Starters -> DbRows], deaths' \in Nat,
         UNCHANGED <<first, dropped, changes>>,
         DbInv(db'),
         to \notin Unlocked => HolderInv(to, db', pend', seen'[p]),
         to \in Unlocked => pend' = Nothing /\ ~Torn',
         db.accounts \subseteq db'.accounts,
         db'.settings = db.settings, db'.done = db.done,
         db'.words \ db.words \subseteq Accounts \X Shared(db.words),
         InLists(db'.words)
  PROVE  StartInv' /\ DecisionsStay
<1>1. \A q \in Starters : stage'[q] = IF q = p THEN to ELSE stage[q]
  BY DEF StartInv, StartTyped
<1>2. \A q \in Starters : q # p => stage'[q] \in Unlocked
  BY <1>1 DEF StartInv, OneHolder
<1>3. StartTyped'
  BY <1>1 DEF StartInv, StartTyped
<1>4. OneHolder'
  BY <1>2 DEF OneHolder
<1>5. HoldersInv'
  <2>1. ASSUME NEW q \in Starters, stage'[q] \notin Unlocked
        PROVE  HolderInv(stage'[q], db', pend', seen'[q])
    BY <1>1, <1>2, <2>1
  <2>2. ASSUME NEW q \in Starters, stage'[q] \notin Unlocked
        PROVE  HolderInv(stage[q], db, pend, seen[q])'
    BY <2>1, <2>2 DEF HolderInv, TornOf, SchemaOf, PendOf, Shared
  <2>3. ASSUME \A q \in Starters : stage'[q] \in Unlocked
        PROVE  pend' = Nothing /\ ~Torn'
    BY <1>1, <2>3
  <2>4. QED
    BY <2>2, <2>3 DEF HoldersInv
<1>6. UsersInv'
  BY <1>1 DEF StartInv, UsersInv
<1>7. ListsInv' /\ DbInv(db)'
  BY DEF StartInv, ListsInv, InLists, DbInv, Whole, Shared
<1>8. DecisionsStay
  <2>1. db.done = {} => dropped = {}
    BY DEF StartInv, UsersInv
  <2>2. db.done # {} => Shared(db.words) = {}
    BY DEF StartInv, DbInv, Whole
  <2>3. (db'.words \ db.words) \cap dropped = {}
    BY <2>1, <2>2
  <2>4. QED
    BY <2>3 DEF DecisionsStay
<1>9. QED
  BY <1>3, <1>4, <1>5, <1>6, <1>7, <1>8 DEF StartInv

LEMMA NothingIs == Nothing \in Pends /\ Nothing.fills = {} /\ Nothing.copies = {} /\ ~Nothing.clear
  BY DEF Nothing, Pends

(* What a step of a process that migrates may use.                          *)
LEMMA HolderHas ==
  ASSUME StartInv, NEW p \in Starters, stage[p] \notin Unlocked
  PROVE  /\ HolderInv(stage[p], db, pend, seen[p])
         /\ db \in DbRows /\ DbInv(db) /\ pend \in Pends /\ seen[p] \in DbRows /\ InLists(db.words)
         /\ seen \in [Starters -> DbRows] /\ stage \in [Starters -> Stages] /\ deaths \in Nat
  BY DEF StartInv, StartTyped, HoldersInv, ListsInv

(* What is pending takes no word from the list of an account.               *)
LEMMA PendingHas ==
  ASSUME StartInv, NEW p \in Starters, stage[p] \notin Unlocked
  PROVE  /\ Pending \in DbRows /\ DbInv(Pending) /\ InLists(Pending.words)
         /\ Pending.tables = db.tables /\ Pending.columns = db.columns
         /\ Pending.blank = db.blank \ pend.fills /\ Pending.required = db.required
         /\ Pending.parentKey = db.parentKey /\ Pending.scope = db.scope
         /\ Pending.wordKey = db.wordKey /\ Pending.accounts = db.accounts
         /\ Pending.settings = db.settings /\ Pending.done = db.done
         /\ Shared(Pending.words) \subseteq Shared(db.words)
         /\ Pending.words \ db.words \subseteq Accounts \X Shared(db.words)
<1>1. db \in DbRows /\ DbInv(db) /\ pend \in Pends /\ InLists(db.words)
  BY HolderHas
<1>2. pend.clear => stage[p] = "own" /\ (Shared(db.words) = {} \/ first.accounts \subseteq pend.copies)
  BY HolderHas DEF HolderInv, PendOf
<1>3. first.accounts \subseteq Accounts /\ NoOwner \notin Accounts
  BY StartAssumption DEF StartInv, StartTyped, DbRows, StartConstants
<1>4. ASSUME NEW w \in Legacy, first.scope = "shared"
      PROVE  <<NoOwner, w>> \in Pending.words \/ \A u \in first.accounts : <<u, w>> \in Pending.words \cup dropped
  <2>1. <<NoOwner, w>> \in db.words \/ \A u \in first.accounts : <<u, w>> \in db.words \cup dropped
    BY <1>1, <1>4 DEF InLists
  <2>2. db.words \ ({NoOwner} \X Legacy) \subseteq Pending.words /\ (~pend.clear => db.words \subseteq Pending.words)
    BY <1>1, AfterFields DEF Pending
  <2>3. \A u \in first.accounts : <<u, w>> \in db.words => <<u, w>> \in Pending.words
    BY <2>2, <1>3
  <2>4. CASE <<NoOwner, w>> \notin db.words
    BY <2>1, <2>3, <2>4
  <2>5. CASE <<NoOwner, w>> \in db.words /\ ~pend.clear
    BY <2>2, <2>5
  <2>6. CASE <<NoOwner, w>> \in db.words /\ pend.clear
    <3>1. w \in Shared(db.words)
      BY <2>6 DEF Shared
    <3>2. first.accounts \subseteq pend.copies
      BY <3>1, <2>6, <1>2
    <3>3. \A u \in pend.copies : <<u, w>> \in Pending.words
      BY <3>1, <1>1, AfterFields DEF Pending
    <3>4. QED
      BY <3>2, <3>3
  <2>7. QED
    BY <2>4, <2>5, <2>6
<1>5. InLists(Pending.words)
  BY <1>4 DEF InLists
<1>6. Pending \in DbRows /\ DbInv(Pending)
  BY <1>1, AfterFields, AfterInv DEF Pending
<1>7. QED
  BY <1>1, <1>5, <1>6, AfterFields DEF Pending

(* It changes the schema, and with it commits.                              *)
LEMMA AlterStep ==
  ASSUME StartInv, NEW p \in Starters, NEW from \in Stages \ Unlocked, NEW to \in Stages \ Unlocked,
         Goes(p, from, to), Alters(db'),
         db' \in DbRows, DbInv(db'), HolderInv(to, db', Nothing, seen[p]),
         db.accounts \subseteq db'.accounts, db'.settings = db.settings, db'.done = db.done,
         db'.words = db.words \/ db'.words = Pending.words
  PROVE  StartInv' /\ DecisionsStay
<1>1. stage[p] \notin Unlocked /\ to # "ready" /\ stage' = [stage EXCEPT ![p] = to]
  BY DEF Goes, Unlocked
<1>2. pend' = Nothing /\ UNCHANGED <<first, seen, dropped, changes, deaths>>
  BY DEF Alters, RestKept
<1>3. InLists(db'.words) /\ db'.words \ db.words \subseteq Accounts \X Shared(db.words)
  BY <1>1, HolderHas, PendingHas
<1>4. seen'[p] = seen[p] /\ deaths' \in Nat /\ seen' \in [Starters -> DbRows]
  BY <1>1, <1>2, HolderHas
<1>5. QED
  BY <1>1, <1>2, <1>3, <1>4, NothingIs, HolderStep

(* It writes, or does nothing.                                              *)
LEMMA WriteStep ==
  ASSUME StartInv, NEW p \in Starters, NEW from \in Stages \ Unlocked, NEW to \in Stages \ Unlocked,
         Goes(p, from, to), UNCHANGED <<db, first, dropped, changes, deaths>>,
         pend' \in Pends, seen' \in [Starters -> DbRows],
         HolderInv(to, db, pend', seen'[p])
  PROVE  StartInv' /\ DecisionsStay
<1>1. stage[p] \notin Unlocked /\ to # "ready" /\ stage' = [stage EXCEPT ![p] = to]
  BY DEF Goes, Unlocked
<1>2. InLists(db'.words) /\ db'.words \ db.words \subseteq Accounts \X Shared(db.words)
  BY <1>1, HolderHas
<1>3. db' \in DbRows /\ DbInv(db') /\ HolderInv(to, db', pend', seen'[p]) /\ deaths' \in Nat
  BY <1>1, HolderHas
<1>4. QED
  BY <1>1, <1>2, <1>3, HolderStep

LEMMA PassStep ==
  ASSUME StartInv, NEW p \in Starters, NEW from \in Stages \ Unlocked, NEW to \in Stages \ Unlocked,
         Goes(p, from, to), Passes, HolderInv(to, db, pend, seen[p])
  PROVE  StartInv' /\ DecisionsStay
<1>1. stage[p] \notin Unlocked
  BY DEF Goes
<1>2. UNCHANGED <<db, pend, seen, first, dropped, changes, deaths>>
  BY DEF Passes, RestKept
<1>3. QED
  BY <1>1, <1>2, HolderHas, WriteStep

LEMMA StmtsStep ==
  ASSUME StartInv, NEW p \in Starters, NEW from \in Stages \ Unlocked, NEW to \in Stages \ Unlocked,
         NEW stmts \in Pends,
         Goes(p, from, to), Writes(stmts), HolderInv(to, db, stmts, seen[p])
  PROVE  StartInv' /\ DecisionsStay
<1>1. stage[p] \notin Unlocked
  BY DEF Goes
<1>2. UNCHANGED <<db, seen, first, dropped, changes, deaths>> /\ pend' = stmts
  BY DEF Writes, RestKept
<1>3. QED
  BY <1>1, <1>2, HolderHas, WriteStep

(* The columns of a missing table come with it, and its keys.               *)
LEMMA CreatedHas ==
  ASSUME StartInv, DbInv(db), NEW t \in Tables \ db.tables
  PROVE  /\ Created(db, t) \in DbRows /\ DbInv(Created(db, t))
         /\ Created(db, t).accounts = db.accounts /\ Created(db, t).settings = db.settings
         /\ Created(db, t).done = db.done /\ Created(db, t).words = db.words
         /\ Created(db, t).blank = db.blank
         /\ Created(db, t).columns \ Created(db, t).required \subseteq
              (db.columns \ db.required) \cup {"reviews", "listed", "key"}
         /\ "accounts" \in db.tables \cup {t} /\ ("accounts" \in db.tables => db.parentKey)
              => Created(db, t).parentKey
<1> DEFINE cs == db.columns \cup {c \in Columns : TableOf[c] = t}
           rq == db.required \cup (IF t = "accounts" THEN {"permissions"} ELSE {})
           pk == (db.parentKey \/ t = "accounts")
           sc == IF t = "words" THEN "owner" ELSE db.scope
           wk == IF t = "words" THEN "owner" ELSE db.wordKey
           ts == db.tables \cup {t}
<1>1. Created(db, t) = [db EXCEPT !.tables = ts, !.columns = cs, !.required = rq, !.parentKey = pk,
                                  !.scope = sc, !.wordKey = wk]
  BY DEF Created, StartInv, StartTyped, DbRows
<1>2. /\ ts \in SUBSET Tables /\ cs \in SUBSET Columns /\ rq \in SUBSET Columns /\ pk \in BOOLEAN
      /\ sc \in {"none", "shared", "mixed", "owner"} /\ wk \in {"none", "word", "owner"}
  BY DEF StartInv, StartTyped, DbRows, Columns, Tables
<1>3. db.done = {} /\ db.done # Settings
  BY DEF DbInv, Whole, Settings
<1>4. rq \subseteq cs \cap {"permissions"} /\ ("permissions" \in rq => "permissions" \notin db.blank)
      /\ db.blank \subseteq cs
  <2>1. TableOf["permissions"] = "accounts" /\ "permissions" \in Columns
    BY DEF TableOf, Columns
  <2>2. t = "accounts" => "permissions" \in cs
    BY <2>1
  <2>3. t = "accounts" => "permissions" \notin db.blank
    BY <2>1 DEF DbInv
  <2>4. QED
    BY <2>2, <2>3 DEF DbInv
<1>5. \A c \in cs : TableOf[c] \in ts
  BY DEF DbInv
<1>6. (sc \in {"none", "owner"} => Shared(db.words) = {}) /\ ("words" \in ts <=> sc # "none")
  BY DEF DbInv
<1>7. cs \ rq \subseteq (db.columns \ db.required) \cup {"reviews", "listed", "key"}
  BY DEF Columns, TableOf, DbInv
<1>8. "accounts" \in db.tables \cup {t} /\ ("accounts" \in db.tables => db.parentKey) => pk
  OBVIOUS
<1> HIDE DEF cs, rq, pk, sc, wk, ts
<1> DEFINE d == Created(db, t)
<1>10. /\ d \in DbRows /\ d.tables = ts /\ d.columns = cs /\ d.required = rq /\ d.parentKey = pk /\ d.scope = sc
       /\ d.wordKey = wk /\ d.blank = db.blank /\ d.words = db.words /\ d.accounts = db.accounts
       /\ d.settings = db.settings /\ d.done = db.done
  <2>1. db \in DbRows
    BY DEF StartInv, StartTyped
  <2>2. d = [db EXCEPT !.tables = ts, !.columns = cs, !.required = rq, !.parentKey = pk,
                      !.scope = sc, !.wordKey = wk]
    BY <1>1
  <2> HIDE DEF d
  <2>3. QED
    BY <1>2, <2>1, <2>2 DEF DbRows
<1> HIDE DEF d
<1>11. DbInv(d)
  BY <1>3, <1>4, <1>5, <1>6, <1>10 DEF DbInv, Settings
<1>12. QED
  BY <1>7, <1>8, <1>10, <1>11 DEF d

LEMMA AddedHas ==
  ASSUME StartInv, NEW d \in DbRows, DbInv(d), d.accounts = db.accounts, d.tables = Tables,
         NEW c \in Columns \ d.columns
  PROVE  /\ Added(d, c) \in DbRows /\ DbInv(Added(d, c))
         /\ Added(d, c).tables = d.tables /\ Added(d, c).columns = d.columns \cup {c}
         /\ Added(d, c).blank \subseteq d.blank \cup {c}
         /\ Added(d, c).required = d.required /\ Added(d, c).parentKey = d.parentKey
         /\ Added(d, c).scope = d.scope /\ Added(d, c).wordKey = d.wordKey
         /\ Added(d, c).words = d.words /\ Added(d, c).accounts = d.accounts
         /\ Added(d, c).settings = d.settings /\ Added(d, c).done = d.done
<1> DEFINE cs == d.columns \cup {c}
           bs == d.blank \cup (IF HasRows(c) THEN {c} ELSE {})
           e == Added(d, c)
<1>1. e = [d EXCEPT !.columns = cs, !.blank = bs]
  BY DEF Added
<1>2. cs \in SUBSET Columns /\ bs \in SUBSET Columns /\ bs \subseteq d.blank \cup {c}
  BY DEF DbRows
<1>3. bs \subseteq cs
  BY DEF DbInv
<1>4. d.done = {} /\ d.done # Settings
  BY DEF DbInv, Whole, Settings
<1> HIDE DEF e, cs, bs
<1>5. /\ e \in DbRows /\ e.tables = d.tables /\ e.columns = cs /\ e.blank = bs /\ e.required = d.required
      /\ e.parentKey = d.parentKey /\ e.scope = d.scope /\ e.wordKey = d.wordKey /\ e.words = d.words
      /\ e.accounts = d.accounts /\ e.settings = d.settings /\ e.done = d.done
  BY <1>1, <1>2 DEF DbRows
<1>6. d.required \subseteq cs \cap {"permissions"} /\ ("permissions" \in d.required => "permissions" \notin bs)
  BY <1>2 DEF DbInv, cs
<1>7. \A x \in cs : TableOf[x] \in e.tables
  BY <1>5 DEF DbInv, cs, Columns, TableOf, Tables
<1>8. DbInv(e)
  BY <1>3, <1>4, <1>5, <1>6, <1>7 DEF DbInv
<1>9. QED
  BY <1>2, <1>5, <1>8 DEF e, cs

-----------------------------------------------------------------------------
(* The steps of a process that migrates, in the order of the code.          *)
LEMMA ParentKeysKeeps ==
  ASSUME StartInv, NEW p \in Starters, ParentKeys(p)
  PROVE  StartInv' /\ DecisionsStay
<1>1. Goes(p, "parent", "create") /\ stage[p] = "parent" /\ stage[p] \notin Unlocked
  BY DEF ParentKeys, Goes, Unlocked
<1>2. HolderInv("parent", db, pend, seen[p]) /\ db \in DbRows /\ DbInv(db)
  BY <1>1, HolderHas
<1>3. CASE "accounts" \in db.tables
  <2>1. Alters(db') /\ db' = [db EXCEPT !.parentKey = TRUE]
    BY <1>3 DEF ParentKeys, Alters
  <2>2. db' \in DbRows /\ DbInv(db')
    BY <1>2, <2>1 DEF DbRows, DbInv, Whole
  <2>3. HolderInv("create", db', Nothing, seen[p])
    BY <1>2, <2>1, NothingIs DEF HolderInv, TornOf, SchemaOf, PendOf, Tabling, Granting, Requiring, Scoping, Moving, Keying,
       Listing, Reviewing, Lining, DbRows
  <2>4. db'.accounts = db.accounts /\ db'.settings = db.settings /\ db'.done = db.done /\ db'.words = db.words
    BY <1>2, <2>1 DEF DbRows
  <2>5. QED
    BY <1>1, <2>1, <2>2, <2>3, <2>4, AlterStep DEF Stages, Unlocked
<1>4. CASE "accounts" \notin db.tables
  <2>1. Passes
    BY <1>4 DEF ParentKeys
  <2>2. HolderInv("create", db, pend, seen[p])
    BY <1>2, <1>4 DEF HolderInv, TornOf, SchemaOf, PendOf, Tabling, Granting, Requiring, Scoping, Moving, Keying,
       Listing, Reviewing, Lining
  <2>3. QED
    BY <1>1, <2>1, <2>2, PassStep DEF Stages, Unlocked
<1>5. QED
  BY <1>3, <1>4

LEMMA CreateTableKeeps ==
  ASSUME StartInv, NEW p \in Starters, CreateTable(p)
  PROVE  StartInv' /\ DecisionsStay
<1>1. PICK t \in Tables \ db.tables : "accounts" \in db.tables \cup {t} /\ Alters(Created(db, t))
  BY DEF CreateTable
<1>2. stage[p] = "create" /\ stage' = [stage EXCEPT ![p] = "create"] /\ stage[p] \notin Unlocked
  BY DEF CreateTable, StartInv, StartTyped, Unlocked
<1>3. Goes(p, "create", "create")
  BY <1>2 DEF Goes
<1>4. HolderInv("create", db, pend, seen[p]) /\ db \in DbRows /\ DbInv(db)
  BY <1>2, HolderHas
<1>5. Alters(db') /\ db' = Created(db, t)
  BY <1>1 DEF Alters
<1>6. /\ db' \in DbRows /\ DbInv(db')
      /\ db'.accounts = db.accounts /\ db'.settings = db.settings /\ db'.done = db.done /\ db'.words = db.words
      /\ db'.blank = db.blank
      /\ db'.columns \ db'.required \subseteq (db.columns \ db.required) \cup {"reviews", "listed", "key"}
      /\ "accounts" \in db.tables \cup {t} /\ ("accounts" \in db.tables => db.parentKey) => db'.parentKey
  BY <1>4, <1>5, CreatedHas
<1>7. HolderInv("create", db', Nothing, seen[p])
  BY <1>1, <1>4, <1>6, NothingIs DEF HolderInv, TornOf, SchemaOf, PendOf, Tabling, Granting, Requiring, Scoping, Moving, Keying,
       Listing, Reviewing, Lining
<1>8. QED
  BY <1>3, <1>5, <1>6, <1>7, AlterStep DEF Stages, Unlocked

LEMMA CreatedAllKeeps ==
  ASSUME StartInv, NEW p \in Starters, CreatedAll(p)
  PROVE  StartInv' /\ DecisionsStay
<1>1. Goes(p, "create", "permissions") /\ stage[p] = "create" /\ stage[p] \notin Unlocked
  BY DEF CreatedAll, Goes, Unlocked
<1>2. HolderInv("create", db, pend, seen[p]) /\ db.tables = Tables
  BY <1>1, HolderHas DEF CreatedAll, DbRows
<1>3. HolderInv("permissions", db, pend, seen[p])
  BY <1>2 DEF HolderInv, TornOf, SchemaOf, PendOf, Tabling, Granting, Requiring, Scoping, Moving, Keying,
       Listing, Reviewing, Lining, Tables
<1>4. QED
  BY <1>1, <1>3, PassStep DEF CreatedAll, Stages, Unlocked

(* A column that is missing is added, with what was pending.                *)
LEMMA AddColumnKeeps ==
  ASSUME StartInv, NEW p \in Starters, NEW c \in {"permissions", "listed", "reviews", "key"},
         NEW next \in Stages \ Unlocked, NEW skip \in Stages \ Unlocked,
         AddColumn(p, c, next, skip), db.tables = Tables,
         c \in db.columns => HolderInv(skip, db, pend, seen[p]),
         \A e \in DbRows :
           /\ c \notin db.columns
           /\ e.tables = Tables /\ e.columns = db.columns \cup {c}
           /\ e.blank \subseteq (db.blank \ pend.fills) \cup {c}
           /\ e.required = db.required /\ e.parentKey = db.parentKey /\ e.scope = db.scope
           /\ e.wordKey = db.wordKey /\ Shared(e.words) \subseteq Shared(db.words) /\ e.done = db.done
           => HolderInv(next, e, Nothing, seen[p])
  PROVE  StartInv' /\ DecisionsStay
<1>1. stage[p] \notin Unlocked /\ c \in Columns /\ c \in Stages \ Unlocked
  BY DEF AddColumn, Goes, Unlocked, Columns, Stages
<1>2. CASE c \in db.columns
  BY <1>1, <1>2, PassStep DEF AddColumn
<1>3. CASE c \notin db.columns
  <2>1. Goes(p, c, next) /\ Alters(db') /\ db' = Added(Pending, c)
    BY <1>3 DEF AddColumn, Alters
  <2>2. c \in Columns \ Pending.columns
    BY <1>1, <1>3, PendingHas
  <2>3. /\ db' \in DbRows /\ DbInv(db')
        /\ db'.tables = Pending.tables /\ db'.columns = Pending.columns \cup {c}
        /\ db'.blank \subseteq Pending.blank \cup {c}
        /\ db'.required = Pending.required /\ db'.parentKey = Pending.parentKey
        /\ db'.scope = Pending.scope /\ db'.wordKey = Pending.wordKey
        /\ db'.words = Pending.words /\ db'.accounts = Pending.accounts
        /\ db'.settings = Pending.settings /\ db'.done = Pending.done
    BY <1>1, <2>1, <2>2, PendingHas, AddedHas
  <2>4. HolderInv(next, db', Nothing, seen[p])
    BY <1>1, <1>3, <2>3, PendingHas
  <2>5. db'.accounts = db.accounts /\ db'.settings = db.settings /\ db'.done = db.done
    BY <1>1, <2>3, PendingHas
  <2>6. QED
    BY <1>1, <2>1, <2>3, <2>4, <2>5, AlterStep
<1>4. QED
  BY <1>2, <1>3

LEMMA PermissionsKeeps ==
  ASSUME StartInv, NEW p \in Starters, Permissions(p)
  PROVE  StartInv' /\ DecisionsStay
<1>1. AddColumn(p, "permissions", "fill permissions", "scope")
  BY DEF Permissions
<1>2. stage[p] = "permissions" /\ stage[p] \notin Unlocked
  BY <1>1 DEF AddColumn, Goes, Unlocked
<1>3. HolderInv("permissions", db, pend, seen[p])
  BY <1>2, HolderHas
<1>4. db.tables = Tables
  BY <1>3 DEF HolderInv, SchemaOf, Tabling
<1>5. "permissions" \in db.columns => HolderInv("scope", db, pend, seen[p])
  BY <1>3 DEF HolderInv, TornOf, SchemaOf, PendOf, Tabling, Granting, Requiring, Scoping, Moving, Keying,
       Listing, Reviewing, Lining
<1>6. ASSUME NEW e \in DbRows, "permissions" \notin db.columns,
             e.tables = Tables, e.columns = db.columns \cup {"permissions"},
             e.blank \subseteq (db.blank \ pend.fills) \cup {"permissions"},
             e.required = db.required, e.parentKey = db.parentKey, e.scope = db.scope,
             e.wordKey = db.wordKey, Shared(e.words) \subseteq Shared(db.words), e.done = db.done
      PROVE  HolderInv("fill permissions", e, Nothing, seen[p])
  BY <1>3, <1>6, NothingIs DEF HolderInv, TornOf, SchemaOf, PendOf, Tabling, Granting, Requiring, Scoping, Moving, Keying,
       Listing, Reviewing, Lining, Tables
<1>7. QED
  BY <1>1, <1>4, <1>5, <1>6, AddColumnKeeps DEF Stages, Unlocked

LEMMA FillPermissionsKeeps ==
  ASSUME StartInv, NEW p \in Starters, FillPermissions(p)
  PROVE  StartInv' /\ DecisionsStay
<1> DEFINE stmts == [pend EXCEPT !.fills = @ \cup {"permissions"}]
<1>1. Goes(p, "fill permissions", "require") /\ Writes(stmts) /\ stage[p] = "fill permissions" /\ stage[p] \notin Unlocked
  BY DEF FillPermissions, Goes, Unlocked
<1>2. HolderInv("fill permissions", db, pend, seen[p]) /\ pend \in Pends
  BY <1>1, HolderHas
<1>3. /\ stmts \in Pends /\ stmts.fills = pend.fills \cup {"permissions"} /\ stmts.copies = pend.copies
      /\ stmts.clear = pend.clear
  BY <1>2 DEF Pends, Columns
<1> HIDE DEF stmts
<1>4. HolderInv("require", db, stmts, seen[p])
  BY <1>2, <1>3 DEF HolderInv, TornOf, SchemaOf, PendOf, Tabling, Granting, Requiring, Scoping, Moving, Keying,
       Listing, Reviewing, Lining
<1>5. QED
  BY <1>1, <1>3, <1>4, StmtsStep DEF Stages, Unlocked

LEMMA RequireKeeps ==
  ASSUME StartInv, NEW p \in Starters, Require(p)
  PROVE  StartInv' /\ DecisionsStay
<1>1. Goes(p, "require", "scope") /\ stage[p] = "require" /\ stage[p] \notin Unlocked
  BY DEF Require, Goes, Unlocked
<1>2. HolderInv("require", db, pend, seen[p])
  BY <1>1, HolderHas
<1>3. Alters(db') /\ db' = [Pending EXCEPT !.required = @ \cup {"permissions"}]
  BY DEF Require, Alters
<1> DEFINE d == Pending
<1>4. /\ d \in DbRows /\ DbInv(d) /\ d.tables = db.tables /\ d.columns = db.columns
      /\ d.blank = db.blank \ pend.fills /\ d.required = db.required
      /\ d.parentKey = db.parentKey /\ d.scope = db.scope /\ d.wordKey = db.wordKey
      /\ d.accounts = db.accounts /\ d.settings = db.settings /\ d.done = db.done
      /\ Shared(d.words) \subseteq Shared(db.words)
  BY <1>1, PendingHas
<1>5. db' = [d EXCEPT !.required = @ \cup {"permissions"}]
  BY <1>3
<1> HIDE DEF d
<1>6. /\ db' \in DbRows /\ db'.tables = d.tables /\ db'.columns = d.columns /\ db'.blank = d.blank
      /\ db'.required = d.required \cup {"permissions"} /\ db'.parentKey = d.parentKey /\ db'.scope = d.scope
      /\ db'.wordKey = d.wordKey /\ db'.words = d.words /\ db'.accounts = d.accounts
      /\ db'.settings = d.settings /\ db'.done = d.done
  BY <1>4, <1>5 DEF DbRows, Columns
<1>7. DbInv(db')
  BY <1>2, <1>4, <1>5, <1>6 DEF DbInv, Whole, Settings, SchemaOf, HolderInv, PendOf, Tabling, Granting, Scoping, Requiring
<1>8. HolderInv("scope", db', Nothing, seen[p])
  BY <1>2, <1>4, <1>6, NothingIs DEF HolderInv, TornOf, SchemaOf, PendOf, Tabling, Granting, Requiring, Scoping, Moving, Keying,
       Listing, Reviewing, Lining, Tables
<1>9. QED
  BY <1>1, <1>3, <1>4, <1>6, <1>7, <1>8, AlterStep DEF d, Stages, Unlocked

LEMMA OwnKeeps ==
  ASSUME StartInv, NEW p \in Starters, Own(p)
  PROVE  StartInv' /\ DecisionsStay
<1>1. Goes(p, "own", "key words") /\ stage[p] = "own" /\ stage[p] \notin Unlocked
  BY DEF Own, Goes, Unlocked
<1>2. HolderInv("own", db, pend, seen[p])
  BY <1>1, HolderHas
<1>3. Alters(db') /\ db' = [Pending EXCEPT !.scope = "owner"]
  BY DEF Own, Alters
<1> DEFINE d == Pending
<1>4. /\ d \in DbRows /\ DbInv(d) /\ d.tables = db.tables /\ d.columns = db.columns
      /\ d.blank = db.blank \ pend.fills /\ d.required = db.required
      /\ d.parentKey = db.parentKey /\ d.scope = db.scope /\ d.wordKey = db.wordKey
      /\ d.accounts = db.accounts /\ d.settings = db.settings /\ d.done = db.done
      /\ Shared(d.words) \subseteq Shared(db.words)
  BY <1>1, PendingHas
<1>5. db' = [d EXCEPT !.scope = "owner"] /\ Shared(d.words) = {}
  BY <1>3 DEF Own
<1> HIDE DEF d
<1>6. /\ db' \in DbRows /\ db'.tables = d.tables /\ db'.columns = d.columns /\ db'.blank = d.blank
      /\ db'.required = d.required /\ db'.parentKey = d.parentKey /\ db'.scope = "owner"
      /\ db'.wordKey = d.wordKey /\ db'.words = d.words /\ db'.accounts = d.accounts
      /\ db'.settings = d.settings /\ db'.done = d.done
  BY <1>4, <1>5 DEF DbRows, Columns
<1>7. DbInv(db')
  BY <1>2, <1>4, <1>5, <1>6 DEF DbInv, Whole, Settings, SchemaOf, HolderInv, PendOf, Tabling, Granting, Scoping, Requiring
<1>8. HolderInv("key words", db', Nothing, seen[p])
  BY <1>2, <1>4, <1>6, NothingIs, <1>5 DEF HolderInv, TornOf, SchemaOf, PendOf, Tabling, Granting, Requiring, Scoping, Moving, Keying,
       Listing, Reviewing, Lining, Tables
<1>9. QED
  BY <1>1, <1>3, <1>4, <1>6, <1>7, <1>8, AlterStep DEF d, Stages, Unlocked

LEMMA EndSchemaKeeps ==
  ASSUME StartInv, NEW p \in Starters, EndSchema(p)
  PROVE  StartInv' /\ DecisionsStay
<1>1. Goes(p, "end", "admin") /\ stage[p] = "end" /\ stage[p] \notin Unlocked
  BY DEF EndSchema, Goes, Unlocked
<1>2. HolderInv("end", db, pend, seen[p])
  BY <1>1, HolderHas
<1>3. Alters(db') /\ db' = Pending
  BY DEF EndSchema, Alters
<1> DEFINE d == Pending
<1>4. /\ d \in DbRows /\ DbInv(d) /\ d.tables = db.tables /\ d.columns = db.columns
      /\ d.blank = db.blank \ pend.fills /\ d.required = db.required
      /\ d.parentKey = db.parentKey /\ d.scope = db.scope /\ d.wordKey = db.wordKey
      /\ d.accounts = db.accounts /\ d.settings = db.settings /\ d.done = db.done
      /\ Shared(d.words) \subseteq Shared(db.words)
  BY <1>1, PendingHas
<1>5. db' = d
  BY <1>3
<1> HIDE DEF d
<1>6. /\ db' \in DbRows /\ db'.tables = d.tables /\ db'.columns = d.columns /\ db'.blank = d.blank
      /\ db'.required = d.required /\ db'.parentKey = d.parentKey /\ db'.scope = d.scope
      /\ db'.wordKey = d.wordKey /\ db'.words = d.words /\ db'.accounts = d.accounts
      /\ db'.settings = d.settings /\ db'.done = d.done
  BY <1>4, <1>5 DEF DbRows, Columns
<1>7. DbInv(db')
  BY <1>2, <1>4, <1>5, <1>6 DEF DbInv, Whole, Settings, SchemaOf, HolderInv, PendOf, Tabling, Granting, Scoping, Requiring
<1>21. db'.blank = {}
  <2>1. "permissions" \notin db'.blank
    BY <1>2, <1>4, <1>6, <1>7 DEF DbInv, HolderInv, SchemaOf, Requiring, Granting, Tabling
  <2>2. \A c \in {"listed", "reviews", "key"} : c \notin db'.blank
    BY <1>2, <1>4, <1>6 DEF HolderInv, SchemaOf, TornOf
  <2>3. QED
    BY <2>1, <2>2, <1>6 DEF DbRows, Columns
<1>8. HolderInv("admin", db', Nothing, seen[p])
  BY <1>2, <1>4, <1>6, NothingIs, <1>21 DEF HolderInv, TornOf, SchemaOf, PendOf, Tabling, Granting, Requiring, Scoping, Moving, Keying,
       Listing, Reviewing, Lining, Tables
<1>9. QED
  BY <1>1, <1>3, <1>4, <1>6, <1>7, <1>8, AlterStep DEF d, Stages, Unlocked

LEMMA ListedKeeps ==
  ASSUME StartInv, NEW p \in Starters, Listed(p)
  PROVE  StartInv' /\ DecisionsStay
<1>1. AddColumn(p, "listed", "reviews", "reviews")
  BY DEF Listed
<1>2. stage[p] = "listed" /\ stage[p] \notin Unlocked
  BY <1>1 DEF AddColumn, Goes, Unlocked
<1>3. HolderInv("listed", db, pend, seen[p])
  BY <1>2, HolderHas
<1>4. db.tables = Tables
  BY <1>3 DEF HolderInv, SchemaOf, Tabling
<1>5. "listed" \in db.columns => HolderInv("reviews", db, pend, seen[p])
  BY <1>3 DEF HolderInv, TornOf, SchemaOf, PendOf, Tabling, Granting, Requiring, Scoping, Moving, Keying,
       Listing, Reviewing, Lining
<1>6. ASSUME NEW e \in DbRows, "listed" \notin db.columns,
             e.tables = Tables, e.columns = db.columns \cup {"listed"},
             e.blank \subseteq (db.blank \ pend.fills) \cup {"listed"},
             e.required = db.required, e.parentKey = db.parentKey, e.scope = db.scope,
             e.wordKey = db.wordKey, Shared(e.words) \subseteq Shared(db.words), e.done = db.done
      PROVE  HolderInv("reviews", e, Nothing, seen[p])
  BY <1>3, <1>6, NothingIs DEF HolderInv, TornOf, SchemaOf, PendOf, Tabling, Granting, Requiring, Scoping, Moving, Keying,
       Listing, Reviewing, Lining, Tables
<1>7. QED
  BY <1>1, <1>4, <1>5, <1>6, AddColumnKeeps DEF Stages, Unlocked

LEMMA ReviewsKeeps ==
  ASSUME StartInv, NEW p \in Starters, Reviews(p)
  PROVE  StartInv' /\ DecisionsStay
<1>1. AddColumn(p, "reviews", "fill reviews", "fill listed")
  BY DEF Reviews
<1>2. stage[p] = "reviews" /\ stage[p] \notin Unlocked
  BY <1>1 DEF AddColumn, Goes, Unlocked
<1>3. HolderInv("reviews", db, pend, seen[p])
  BY <1>2, HolderHas
<1>4. db.tables = Tables
  BY <1>3 DEF HolderInv, SchemaOf, Tabling
<1>5. "reviews" \in db.columns => HolderInv("fill listed", db, pend, seen[p])
  BY <1>3 DEF HolderInv, TornOf, SchemaOf, PendOf, Tabling, Granting, Requiring, Scoping, Moving, Keying,
       Listing, Reviewing, Lining
<1>6. ASSUME NEW e \in DbRows, "reviews" \notin db.columns,
             e.tables = Tables, e.columns = db.columns \cup {"reviews"},
             e.blank \subseteq (db.blank \ pend.fills) \cup {"reviews"},
             e.required = db.required, e.parentKey = db.parentKey, e.scope = db.scope,
             e.wordKey = db.wordKey, Shared(e.words) \subseteq Shared(db.words), e.done = db.done
      PROVE  HolderInv("fill reviews", e, Nothing, seen[p])
  BY <1>3, <1>6, NothingIs DEF HolderInv, TornOf, SchemaOf, PendOf, Tabling, Granting, Requiring, Scoping, Moving, Keying,
       Listing, Reviewing, Lining, Tables
<1>7. QED
  BY <1>1, <1>4, <1>5, <1>6, AddColumnKeeps DEF Stages, Unlocked

LEMMA FillReviewsKeeps ==
  ASSUME StartInv, NEW p \in Starters, FillReviews(p)
  PROVE  StartInv' /\ DecisionsStay
<1> DEFINE stmts == [pend EXCEPT !.fills = @ \cup {"reviews"}]
<1>1. Goes(p, "fill reviews", "fill listed") /\ Writes(stmts) /\ stage[p] = "fill reviews" /\ stage[p] \notin Unlocked
  BY DEF FillReviews, Goes, Unlocked
<1>2. HolderInv("fill reviews", db, pend, seen[p]) /\ pend \in Pends
  BY <1>1, HolderHas
<1>3. /\ stmts \in Pends /\ stmts.fills = pend.fills \cup {"reviews"} /\ stmts.copies = pend.copies
      /\ stmts.clear = pend.clear
  BY <1>2 DEF Pends, Columns
<1> HIDE DEF stmts
<1>4. HolderInv("fill listed", db, stmts, seen[p])
  BY <1>2, <1>3 DEF HolderInv, TornOf, SchemaOf, PendOf, Tabling, Granting, Requiring, Scoping, Moving, Keying,
       Listing, Reviewing, Lining
<1>5. QED
  BY <1>1, <1>3, <1>4, StmtsStep DEF Stages, Unlocked

LEMMA FillListedKeeps ==
  ASSUME StartInv, NEW p \in Starters, FillListed(p)
  PROVE  StartInv' /\ DecisionsStay
<1> DEFINE stmts == [pend EXCEPT !.fills = @ \cup {"listed"}]
<1>1. Goes(p, "fill listed", "key") /\ Writes(stmts) /\ stage[p] = "fill listed" /\ stage[p] \notin Unlocked
  BY DEF FillListed, Goes, Unlocked
<1>2. HolderInv("fill listed", db, pend, seen[p]) /\ pend \in Pends
  BY <1>1, HolderHas
<1>3. /\ stmts \in Pends /\ stmts.fills = pend.fills \cup {"listed"} /\ stmts.copies = pend.copies
      /\ stmts.clear = pend.clear
  BY <1>2 DEF Pends, Columns
<1> HIDE DEF stmts
<1>4. HolderInv("key", db, stmts, seen[p])
  BY <1>2, <1>3 DEF HolderInv, TornOf, SchemaOf, PendOf, Tabling, Granting, Requiring, Scoping, Moving, Keying,
       Listing, Reviewing, Lining
<1>5. QED
  BY <1>1, <1>3, <1>4, StmtsStep DEF Stages, Unlocked

LEMMA KeyKeeps ==
  ASSUME StartInv, NEW p \in Starters, Key(p)
  PROVE  StartInv' /\ DecisionsStay
<1>1. AddColumn(p, "key", "fill key", "fill key")
  BY DEF Key
<1>2. stage[p] = "key" /\ stage[p] \notin Unlocked
  BY <1>1 DEF AddColumn, Goes, Unlocked
<1>3. HolderInv("key", db, pend, seen[p])
  BY <1>2, HolderHas
<1>4. db.tables = Tables
  BY <1>3 DEF HolderInv, SchemaOf, Tabling
<1>5. "key" \in db.columns => HolderInv("fill key", db, pend, seen[p])
  BY <1>3 DEF HolderInv, TornOf, SchemaOf, PendOf, Tabling, Granting, Requiring, Scoping, Moving, Keying,
       Listing, Reviewing, Lining
<1>6. ASSUME NEW e \in DbRows, "key" \notin db.columns,
             e.tables = Tables, e.columns = db.columns \cup {"key"},
             e.blank \subseteq (db.blank \ pend.fills) \cup {"key"},
             e.required = db.required, e.parentKey = db.parentKey, e.scope = db.scope,
             e.wordKey = db.wordKey, Shared(e.words) \subseteq Shared(db.words), e.done = db.done
      PROVE  HolderInv("fill key", e, Nothing, seen[p])
  BY <1>3, <1>6, NothingIs DEF HolderInv, TornOf, SchemaOf, PendOf, Tabling, Granting, Requiring, Scoping, Moving, Keying,
       Listing, Reviewing, Lining, Tables
<1>7. QED
  BY <1>1, <1>4, <1>5, <1>6, AddColumnKeeps DEF Stages, Unlocked

LEMMA FillKeyKeeps ==
  ASSUME StartInv, NEW p \in Starters, FillKey(p)
  PROVE  StartInv' /\ DecisionsStay
<1> DEFINE stmts == [pend EXCEPT !.fills = @ \cup {"key"}]
<1>1. Goes(p, "fill key", "end") /\ Writes(stmts) /\ stage[p] = "fill key" /\ stage[p] \notin Unlocked
  BY DEF FillKey, Goes, Unlocked
<1>2. HolderInv("fill key", db, pend, seen[p]) /\ pend \in Pends
  BY <1>1, HolderHas
<1>3. /\ stmts \in Pends /\ stmts.fills = pend.fills \cup {"key"} /\ stmts.copies = pend.copies
      /\ stmts.clear = pend.clear
  BY <1>2 DEF Pends, Columns
<1> HIDE DEF stmts
<1>4. HolderInv("end", db, stmts, seen[p])
  BY <1>2, <1>3 DEF HolderInv, TornOf, SchemaOf, PendOf, Tabling, Granting, Requiring, Scoping, Moving, Keying,
       Listing, Reviewing, Lining
<1>5. QED
  BY <1>1, <1>3, <1>4, StmtsStep DEF Stages, Unlocked

LEMMA ScopeKeeps ==
  ASSUME StartInv, NEW p \in Starters, Scope(p)
  PROVE  StartInv' /\ DecisionsStay
<1> DEFINE d == Pending
<1>1. Goes(p, "scope", "unkey") /\ stage[p] = "scope" /\ stage[p] \notin Unlocked
  BY DEF Scope, Goes, Unlocked
<1>2. HolderInv("scope", db, pend, seen[p]) /\ db \in DbRows /\ DbInv(db)
  BY <1>1, HolderHas
<1>3. CASE db.scope = "shared"
  <2>1. Alters(db') /\ db' = [d EXCEPT !.scope = "mixed"]
    BY <1>3 DEF Scope, Alters
<2>4. /\ d \in DbRows /\ DbInv(d) /\ d.tables = db.tables /\ d.columns = db.columns
        /\ d.blank = db.blank \ pend.fills /\ d.required = db.required
        /\ d.parentKey = db.parentKey /\ d.scope = db.scope /\ d.wordKey = db.wordKey
        /\ d.accounts = db.accounts /\ d.settings = db.settings /\ d.done = db.done
        /\ Shared(d.words) \subseteq Shared(db.words)
    BY <1>1, PendingHas
  <2> HIDE DEF d
  <2>5. /\ db' \in DbRows
        /\ db'.tables = d.tables /\ db'.columns = d.columns /\ db'.blank = d.blank
        /\ db'.required = d.required /\ db'.parentKey = d.parentKey /\ db'.scope = "mixed"
        /\ db'.wordKey = d.wordKey /\ db'.words = d.words /\ db'.accounts = d.accounts
        /\ db'.settings = d.settings /\ db'.done = d.done
    BY <2>1, <2>4 DEF DbRows
  <2>6. DbInv(db')
    BY <1>2, <1>3, <2>4, <2>5 DEF DbInv, Whole, Settings, HolderInv, SchemaOf, Tabling, Granting, Requiring, Scoping, Moving, Tables
  <2>7. HolderInv("unkey", db', Nothing, seen[p])
    BY <1>2, <2>4, <2>5, NothingIs DEF HolderInv, TornOf, SchemaOf, PendOf, Tabling, Granting, Requiring, Scoping, Moving, Keying,
       Listing, Reviewing, Lining
  <2>8. QED
    BY <1>1, <2>1, <2>4, <2>5, <2>6, <2>7, AlterStep DEF d, Stages, Unlocked
<1>4. CASE ~(db.scope = "shared")
  <2>1. Passes
    BY <1>4 DEF Scope
  <2>2. db.scope # "none"
    BY <1>2 DEF DbInv, HolderInv, SchemaOf, Tabling, Tables
  <2>3. HolderInv("unkey", db, pend, seen[p])
    BY <1>2, <1>4, <2>2 DEF HolderInv, TornOf, SchemaOf, PendOf, Tabling, Granting, Requiring, Scoping, Moving, Keying,
       Listing, Reviewing, Lining, DbRows
  <2>4. QED
    BY <1>1, <2>1, <2>3, PassStep DEF Stages, Unlocked
<1>5. QED
  BY <1>3, <1>4

LEMMA KeyWordsKeeps ==
  ASSUME StartInv, NEW p \in Starters, KeyWords(p)
  PROVE  StartInv' /\ DecisionsStay
<1> DEFINE d == Pending
<1>1. Goes(p, "key words", "listed") /\ stage[p] = "key words" /\ stage[p] \notin Unlocked
  BY DEF KeyWords, Goes, Unlocked
<1>2. HolderInv("key words", db, pend, seen[p]) /\ db \in DbRows /\ DbInv(db)
  BY <1>1, HolderHas
<1>3. CASE db.wordKey # "owner"
  <2>1. Alters(db') /\ db' = [d EXCEPT !.wordKey = "owner"]
    BY <1>3 DEF KeyWords, Alters
<2>4. /\ d \in DbRows /\ DbInv(d) /\ d.tables = db.tables /\ d.columns = db.columns
        /\ d.blank = db.blank \ pend.fills /\ d.required = db.required
        /\ d.parentKey = db.parentKey /\ d.scope = db.scope /\ d.wordKey = db.wordKey
        /\ d.accounts = db.accounts /\ d.settings = db.settings /\ d.done = db.done
        /\ Shared(d.words) \subseteq Shared(db.words)
    BY <1>1, PendingHas
  <2> HIDE DEF d
  <2>5. /\ db' \in DbRows
        /\ db'.tables = d.tables /\ db'.columns = d.columns /\ db'.blank = d.blank
        /\ db'.required = d.required /\ db'.parentKey = d.parentKey /\ db'.scope = d.scope
        /\ db'.wordKey = "owner" /\ db'.words = d.words /\ db'.accounts = d.accounts
        /\ db'.settings = d.settings /\ db'.done = d.done
    BY <2>1, <2>4 DEF DbRows
  <2>6. DbInv(db')
    BY <1>2, <1>3, <2>4, <2>5 DEF DbInv, Whole, Settings, HolderInv, SchemaOf, Tabling, Granting, Requiring, Scoping, Moving, Tables
  <2>7. HolderInv("listed", db', Nothing, seen[p])
    BY <1>2, <2>4, <2>5, NothingIs DEF HolderInv, TornOf, SchemaOf, PendOf, Tabling, Granting, Requiring, Scoping, Moving, Keying,
       Listing, Reviewing, Lining
  <2>8. QED
    BY <1>1, <2>1, <2>4, <2>5, <2>6, <2>7, AlterStep DEF d, Stages, Unlocked
<1>4. CASE ~(db.wordKey # "owner")
  <2>1. Passes
    BY <1>4 DEF KeyWords
  <2>2. db.scope # "none"
    BY <1>2 DEF DbInv, HolderInv, SchemaOf, Tabling, Tables
  <2>3. HolderInv("listed", db, pend, seen[p])
    BY <1>2, <1>4, <2>2 DEF HolderInv, TornOf, SchemaOf, PendOf, Tabling, Granting, Requiring, Scoping, Moving, Keying,
       Listing, Reviewing, Lining, DbRows
  <2>4. QED
    BY <1>1, <2>1, <2>3, PassStep DEF Stages, Unlocked
<1>5. QED
  BY <1>3, <1>4

LEMMA UnkeyKeeps ==
  ASSUME StartInv, NEW p \in Starters, Unkey(p)
  PROVE  StartInv' /\ DecisionsStay
<1> DEFINE d == Pending
<1>1. Goes(p, "unkey", "copy") /\ stage[p] = "unkey" /\ stage[p] \notin Unlocked
      /\ stage' = [stage EXCEPT ![p] = "copy"]
  BY DEF Unkey, Goes, Unlocked
<1>2. /\ HolderInv("unkey", db, pend, seen[p]) /\ db \in DbRows /\ DbInv(db) /\ pend \in Pends
      /\ seen \in [Starters -> DbRows] /\ InLists(db.words) /\ InLists(Pending.words) /\ deaths \in Nat
      /\ Pending.words \ db.words \subseteq Accounts \X Shared(db.words)
      /\ first.accounts \subseteq db.accounts
  BY <1>1, HolderHas, PendingHas DEF StartInv, ListsInv
<1>3. seen' = [seen EXCEPT ![p] = db'] /\ UNCHANGED <<first, dropped, changes, deaths>>
  BY DEF Unkey
<1>4. /\ d \in DbRows /\ DbInv(d) /\ d.tables = db.tables /\ d.columns = db.columns
      /\ d.blank = db.blank \ pend.fills /\ d.required = db.required
      /\ d.parentKey = db.parentKey /\ d.scope = db.scope /\ d.wordKey = db.wordKey
      /\ d.accounts = db.accounts /\ d.settings = db.settings /\ d.done = db.done
      /\ Shared(d.words) \subseteq Shared(db.words)
  BY <1>1, PendingHas
<1>5. CASE db.wordKey = "word"
  <2>1. db' = [d EXCEPT !.wordKey = "none"] /\ pend' = Nothing
    BY <1>5 DEF Unkey
  <2>2. d.words = Pending.words
    OBVIOUS
  <2> HIDE DEF d
  <2>3. /\ db' \in DbRows /\ db'.tables = d.tables /\ db'.columns = d.columns
        /\ db'.blank = d.blank /\ db'.required = d.required /\ db'.parentKey = d.parentKey
        /\ db'.scope = d.scope /\ db'.wordKey = "none" /\ db'.words = d.words
        /\ db'.accounts = d.accounts /\ db'.settings = d.settings /\ db'.done = d.done
    BY <1>4, <2>1 DEF DbRows
  <2>4. DbInv(db')
    BY <1>5, <1>4, <2>3 DEF DbInv, Whole, Settings
  <2>5. seen'[p] = db' /\ seen' \in [Starters -> DbRows]
    BY <1>2, <1>3, <2>3
  <2>6. HolderInv("copy", db', pend', seen'[p])
    BY <1>2, <1>4, <2>1, <2>3, <2>5, NothingIs DEF HolderInv, TornOf, SchemaOf, PendOf, Tabling, Granting, Requiring, Scoping, Moving, Keying,
       Listing, Reviewing, Lining
  <2>7. QED
    BY <1>1, <1>2, <1>3, <1>4, <2>1, <2>2, <2>3, <2>4, <2>5, <2>6, NothingIs, HolderStep DEF Stages, Unlocked
<1>6. CASE db.wordKey # "word"
  <2>1. db' = db /\ pend' = pend
    BY <1>6 DEF Unkey
  <2>2. seen'[p] = db /\ seen' \in [Starters -> DbRows]
    BY <1>2, <1>3, <2>1
  <2>3. HolderInv("copy", db, pend', seen'[p])
    BY <1>2, <2>1, <2>2 DEF HolderInv, TornOf, SchemaOf, PendOf, Tabling, Granting, Requiring, Scoping, Moving, Keying,
       Listing, Reviewing, Lining
  <2>4. QED
    BY <1>1, <1>2, <1>3, <2>1, <2>2, <2>3, WriteStep DEF Stages, Unlocked
<1>7. QED
  BY <1>5, <1>6

LEMMA CopyToKeeps ==
  ASSUME StartInv, NEW p \in Starters, NEW u \in Accounts, CopyTo(p, u)
  PROVE  StartInv' /\ DecisionsStay
<1> DEFINE stmts == [pend EXCEPT !.copies = @ \cup {u}]
<1>1. Goes(p, "copy", "copy") /\ Writes(stmts) /\ stage[p] = "copy" /\ stage[p] \notin Unlocked
  BY DEF CopyTo, Goes, Unlocked, StartInv, StartTyped
<1>2. HolderInv("copy", db, pend, seen[p]) /\ pend \in Pends
  BY <1>1, HolderHas
<1>3. /\ stmts \in Pends /\ stmts.fills = pend.fills /\ stmts.copies = pend.copies \cup {u}
      /\ stmts.clear = pend.clear
  BY <1>2 DEF Pends
<1> HIDE DEF stmts
<1>4. HolderInv("copy", db, stmts, seen[p])
  BY <1>2, <1>3 DEF HolderInv, TornOf, SchemaOf, PendOf, Tabling, Granting, Requiring, Scoping, Moving, Keying,
       Listing, Reviewing, Lining
<1>5. QED
  BY <1>1, <1>3, <1>4, StmtsStep DEF Stages, Unlocked

LEMMA ClearSharedKeeps ==
  ASSUME StartInv, NEW p \in Starters, ClearShared(p)
  PROVE  StartInv' /\ DecisionsStay
<1> DEFINE stmts == [pend EXCEPT !.clear = TRUE]
<1>1. Goes(p, "copy", "own") /\ Writes(stmts) /\ stage[p] = "copy" /\ stage[p] \notin Unlocked
  BY DEF ClearShared, Goes, Unlocked
<1>2. HolderInv("copy", db, pend, seen[p]) /\ pend \in Pends
  BY <1>1, HolderHas
<1>3. /\ stmts \in Pends /\ stmts.fills = pend.fills /\ stmts.copies = pend.copies
      /\ stmts.clear = TRUE
  BY <1>2 DEF Pends
<1>4. Shared(db.words) = {} \/ first.accounts \subseteq pend.copies
  BY <1>2 DEF ClearShared, Copied, HolderInv, PendOf
<1> HIDE DEF stmts
<1>5. HolderInv("own", db, stmts, seen[p])
  BY <1>2, <1>3, <1>4 DEF HolderInv, TornOf, SchemaOf, PendOf, Tabling, Granting, Requiring, Scoping, Moving, Keying,
       Listing, Reviewing, Lining
<1>6. QED
  BY <1>1, <1>3, <1>5, StmtsStep DEF Stages, Unlocked

LEMMA FailKeeps ==
  ASSUME StartInv, NEW p \in Starters, Fail(p)
  PROVE  StartInv' /\ DecisionsStay
<1>1. stage' = [stage EXCEPT ![p] = "dead"] /\ stage[p] = "copy" /\ stage[p] \notin Unlocked
  BY DEF Fail, Goes, Unlocked
<1>2. /\ HolderInv("copy", db, pend, seen[p]) /\ db \in DbRows /\ DbInv(db) /\ InLists(db.words)
      /\ seen \in [Starters -> DbRows] /\ deaths \in Nat
  BY <1>1, HolderHas
<1>3. pend' = Nothing /\ UNCHANGED <<db, first, seen, dropped, changes, deaths>>
  BY DEF Fail
<1>4. ~Torn /\ Torn' = Torn
  BY <1>2, <1>3 DEF HolderInv, TornOf, Torn
<1>5. QED
  BY <1>1, <1>2, <1>3, <1>4, NothingIs, HolderStep DEF Stages, Unlocked

LEMMA EnsureAdminKeeps ==
  ASSUME StartInv, NEW p \in Starters, EnsureAdmin(p)
  PROVE  StartInv' /\ DecisionsStay
<1>1. Goes(p, "admin", "read") /\ stage[p] = "admin" /\ stage[p] \notin Unlocked
  BY DEF EnsureAdmin, Goes, Unlocked
<1>2. HolderInv("admin", db, pend, seen[p]) /\ db \in DbRows /\ DbInv(db)
  BY <1>1, HolderHas
<1>3. Alters(db') /\ db' = [db EXCEPT !.accounts = @ \cup {Root}]
  BY DEF EnsureAdmin, Alters
<1>4. /\ db' \in DbRows /\ db'.tables = db.tables /\ db'.columns = db.columns
      /\ db'.blank = db.blank /\ db'.required = db.required /\ db'.parentKey = db.parentKey
      /\ db'.scope = db.scope /\ db'.wordKey = db.wordKey /\ db'.words = db.words
      /\ db'.accounts = db.accounts \cup {Root} /\ db'.settings = db.settings /\ db'.done = db.done
  BY <1>2, <1>3, StartAssumption DEF DbRows, StartConstants
<1>5. DbInv(db')
  BY <1>2, <1>4 DEF DbInv, Whole
<1>6. HolderInv("read", db', Nothing, seen[p])
  BY <1>2, <1>4, NothingIs DEF HolderInv, TornOf, SchemaOf, PendOf, Tabling, Granting, Requiring, Scoping, Moving, Keying,
       Listing, Reviewing, Lining
<1>7. QED
  BY <1>1, <1>3, <1>4, <1>5, <1>6, AlterStep DEF Stages, Unlocked

LEMMA ReadKeeps ==
  ASSUME StartInv, NEW p \in Starters, Read(p)
  PROVE  StartInv' /\ DecisionsStay
<1>1. Goes(p, "read", "write") /\ stage[p] = "read" /\ stage[p] \notin Unlocked
  BY DEF Read, Goes, Unlocked
<1>2. /\ HolderInv("read", db, pend, seen[p]) /\ db \in DbRows /\ pend \in Pends
      /\ seen \in [Starters -> DbRows]
  BY <1>1, HolderHas
<1>3. seen' = [seen EXCEPT ![p] = db] /\ UNCHANGED <<db, first, pend, dropped, changes, deaths>>
  BY DEF Read
<1>4. seen'[p] = db /\ seen' \in [Starters -> DbRows]
  BY <1>2, <1>3
<1>5. HolderInv("write", db, pend', seen'[p])
  BY <1>2, <1>3, <1>4 DEF HolderInv, TornOf, SchemaOf, PendOf, Tabling, Granting, Requiring, Scoping, Moving, Keying,
       Listing, Reviewing, Lining
<1>6. QED
  BY <1>1, <1>2, <1>3, <1>4, <1>5, WriteStep DEF Stages, Unlocked

LEMMA WriteFailsKeeps ==
  ASSUME StartInv, NEW p \in Starters, WriteFails(p)
  PROVE  StartInv' /\ DecisionsStay
<1>1. stage' = [stage EXCEPT ![p] = "dead"] /\ stage[p] = "write" /\ stage[p] \notin Unlocked
  BY DEF WriteFails, Goes, Unlocked
<1>2. /\ HolderInv("write", db, pend, seen[p]) /\ db \in DbRows /\ DbInv(db) /\ InLists(db.words)
      /\ seen \in [Starters -> DbRows] /\ deaths \in Nat
  BY <1>1, HolderHas
<1>3. UNCHANGED <<db, pend, first, seen, dropped, changes, deaths>>
  BY DEF WriteFails, Passes, RestKept
<1>4. pend' = Nothing /\ ~Torn /\ Torn' = Torn
  BY <1>2, <1>3 DEF HolderInv, TornOf, PendOf, Torn
<1>5. QED
  BY <1>1, <1>2, <1>3, <1>4, NothingIs, HolderStep DEF Stages, Unlocked

(* The last transaction.                                                    *)
LEMMA MigratedHas ==
  ASSUME NEW d \in DbRows, NEW k \in Settings, NEW u \in Accounts
  PROVE  /\ Migrated(d)[k][u] \in {"none", "owner", "saved"}
         /\ d.done = Settings => Migrated(d)[k][u] = d.settings[k][u]
<1>1. k = "time" \/ k = "sales"
  BY DEF Settings
<1>2. d.settings[k][u] \in {"none", "owner", "saved"}
  BY DEF DbRows
<1>3. CASE k = "time"
  <2>1. Migrated(d)[k][u] = IF "time" \notin d.done /\ u \in d.accounts THEN "owner" ELSE d.settings[k][u]
    BY <1>3 DEF Migrated
  <2>2. QED
    BY <1>2, <2>1 DEF Settings
<1>4. CASE k = "sales"
  <2>1. Migrated(d)[k][u] = IF "sales" \notin d.done /\ u \in d.accounts /\ d.settings[k][u] = "none" THEN "owner"
                            ELSE d.settings[k][u]
    BY <1>4 DEF Migrated
  <2>2. QED
    BY <1>2, <2>1 DEF Settings
<1>5. QED
  BY <1>1, <1>3, <1>4

LEMMA WriteScopesKeeps ==
  ASSUME StartInv, NEW p \in Starters, WriteScopes(p)
  PROVE  StartInv' /\ DecisionsStay
<1> DEFINE d == seen[p]
           scopes == [k \in Settings |-> [u \in Accounts |->
                     IF Migrated(d)[k][u] = d.settings[k][u] THEN db.settings[k][u]
                     ELSE Migrated(d)[k][u]]]
           added == Seeded(d)
<1>1. stage' = [stage EXCEPT ![p] = "ready"] /\ stage[p] = "write" /\ stage[p] \notin Unlocked
  BY DEF WriteScopes, Goes, Unlocked
<1>2. /\ HolderInv("write", db, pend, d) /\ db \in DbRows /\ DbInv(db) /\ InLists(db.words)
      /\ d \in DbRows /\ seen \in [Starters -> DbRows] /\ stage \in [Starters -> Stages] /\ deaths \in Nat
  BY <1>1, HolderHas
<1>3. db' = [db EXCEPT !.settings = scopes, !.done = Settings, !.words = db.words \cup added]
      /\ pend' = Nothing /\ UNCHANGED <<first, seen, dropped, changes, deaths>>
  BY <1>2 DEF WriteScopes, Alters, RestKept, DbRows
<1>4. scopes \in [Settings -> [Accounts -> {"none", "owner", "saved"}]]
  <2>1. \A k \in Settings, u \in Accounts : db.settings[k][u] \in {"none", "owner", "saved"}
    BY <1>2 DEF DbRows
  <2>2. \A k \in Settings, u \in Accounts :
          (IF Migrated(d)[k][u] = d.settings[k][u] THEN db.settings[k][u] ELSE Migrated(d)[k][u])
            \in {"none", "owner", "saved"}
    BY <1>2, <2>1, MigratedHas
  <2>3. QED
    BY <2>2
<1>5. added \subseteq Accounts \X Defaults /\ added \subseteq WordPairs
  BY <1>2 DEF Seeded, DbRows, WordPairs
<1>6. ASSUME d.done = Settings, NEW k \in Settings, NEW u \in Accounts
      PROVE  scopes[k][u] = db.settings[k][u]
  BY <1>2, <1>6, MigratedHas
<1>7. d.done = db.done
  BY <1>2 DEF HolderInv, PendOf
<1> HIDE DEF scopes, added, d
<1>8. /\ db' \in DbRows /\ db'.tables = db.tables /\ db'.columns = db.columns
      /\ db'.blank = db.blank /\ db'.required = db.required /\ db'.parentKey = db.parentKey
      /\ db'.scope = db.scope /\ db'.wordKey = db.wordKey /\ db'.words = db.words \cup added
      /\ db'.accounts = db.accounts /\ db'.settings = scopes /\ db'.done = Settings
  BY <1>2, <1>3, <1>4, <1>5 DEF DbRows
<1>9. Whole(db) /\ Shared(db'.words) = {}
  <2>1. /\ db.tables = Tables /\ db.parentKey /\ db.scope = "owner" /\ db.wordKey = "owner" /\ db.blank = {}
        /\ "permissions" \in db.required /\ "permissions" \in db.columns /\ "listed" \in db.columns
        /\ "reviews" \in db.columns /\ "key" \in db.columns
    BY <1>2 DEF HolderInv, TornOf, SchemaOf, PendOf, Tabling, Granting, Requiring, Scoping, Moving, Keying,
       Listing, Reviewing, Lining, Tables
  <2>2. db.columns = Columns /\ db.required = {"permissions"}
    BY <1>2, <2>1 DEF DbRows, Columns, DbInv
  <2>3. Shared(db.words) = {}
    BY <1>2, <2>1 DEF DbInv
  <2>4. NoOwner \notin Accounts
    BY StartAssumption DEF StartConstants
  <2>5. \A w \in Legacy : <<NoOwner, w>> \notin db'.words
    BY <1>5, <1>8, <2>3, <2>4 DEF Shared
  <2>6. QED
    BY <2>1, <2>2, <2>5 DEF Whole, Shared
<1>10. DbInv(db')
  BY <1>2, <1>8, <1>9 DEF DbInv, Whole
<1>11. \A q \in Starters : stage'[q] = IF q = p THEN "ready" ELSE stage[q]
  BY <1>1, <1>2
<1>12. \A q \in Starters : stage'[q] \in Unlocked
  BY <1>1, <1>11 DEF StartInv, OneHolder, Unlocked
<1>13. StartTyped'
  <2>1. stage' \in [Starters -> Stages]
    BY <1>1, <1>2 DEF Stages, Unlocked
  <2>2. QED
    BY <1>2, <1>3, <1>8, <2>1, NothingIs DEF StartInv, StartTyped
<1>14. OneHolder'
  BY <1>12 DEF OneHolder
<1>15. HoldersInv'
  BY <1>3, <1>8, <1>9, <1>12 DEF HoldersInv, Torn, Whole
<1>16. UsersInv'
  BY <1>8 DEF UsersInv, Settings
<1>17. DbInv(db)' /\ ListsInv'
  BY <1>2, <1>3, <1>8, <1>10 DEF StartInv, ListsInv, InLists, DbInv, Whole, Shared
<1>18. DecisionsStay
  <2>1. CASE db.done = {}
    BY <2>1 DEF StartInv, UsersInv, DecisionsStay
  <2>2. CASE db.done = Settings
    <3>1. \A k \in Settings, u \in Accounts : db'.settings[k][u] = db.settings[k][u]
      BY <1>6, <1>7, <1>8, <2>2
    <3>2. db'.words \ db.words \subseteq Accounts \X Defaults
      BY <1>5, <1>8
    <3>3. QED
      BY <3>1, <3>2 DEF DecisionsStay
  <2>3. QED
    BY <1>2, <2>1, <2>2 DEF DbInv
<1>19. QED
  BY <1>13, <1>14, <1>15, <1>16, <1>17, <1>18 DEF StartInv

-----------------------------------------------------------------------------
(* A process that does not hold the lock, or no longer does.                *)
LEMMA HolderNext ==
  ASSUME NEW q \in Starters, first' = first, HolderInv(stage'[q], db', pend', seen'[q])
  PROVE  HolderInv(stage[q], db, pend, seen[q])'
  BY DEF HolderInv, TornOf, SchemaOf, PendOf, Shared

LEMMA OtherStep ==
  ASSUME StartInv, NEW p \in Starters, NEW to \in Unlocked \ {"ready"},
         stage' = [stage EXCEPT ![p] = to],
         UNCHANGED <<db, first, seen, dropped, changes>>, deaths' \in Nat,
         pend' = IF stage[p] \in Unlocked THEN pend ELSE Nothing,
         stage[p] \in Unlocked \/ ~Torn
  PROVE  StartInv' /\ DecisionsStay
<1>1. \A q \in Starters : stage'[q] = IF q = p THEN to ELSE stage[q]
  BY DEF StartInv, StartTyped
<1>2. StartTyped'
  BY <1>1, NothingIs DEF StartInv, StartTyped, Stages
<1>3. OneHolder'
  BY <1>1 DEF StartInv, OneHolder
<1>4. HoldersInv'
  <2>1. Torn' = Torn
    BY DEF Torn
  <2>2. CASE stage[p] \in Unlocked
    <3>1. pend' = pend
      BY <2>2
    <3>2. ASSUME NEW q \in Starters, stage'[q] \notin Unlocked
          PROVE  HolderInv(stage[q], db, pend, seen[q])'
      <4>1. stage'[q] = stage[q] /\ HolderInv(stage[q], db, pend, seen[q])
        BY <1>1, <3>2 DEF StartInv, HoldersInv
      <4>2. HolderInv(stage'[q], db', pend', seen'[q])
        BY <3>1, <4>1
      <4>3. QED
        BY <4>2, HolderNext
    <3>3. ASSUME \A q \in Starters : stage'[q] \in Unlocked
          PROVE  pend = Nothing /\ ~Torn
      <4>1. \A q \in Starters : stage[q] \in Unlocked
        BY <1>1, <2>2, <3>3
      <4>2. QED
        BY <4>1 DEF StartInv, HoldersInv
    <3>4. QED
      BY <2>1, <3>1, <3>2, <3>3 DEF HoldersInv
  <2>3. CASE stage[p] \notin Unlocked
    <3>1. \A q \in Starters : stage'[q] \in Unlocked
      BY <1>1, <2>3 DEF StartInv, OneHolder
    <3>2. pend' = Nothing /\ ~Torn'
      BY <2>1, <2>3
    <3>3. QED
      BY <3>1, <3>2 DEF HoldersInv
  <2>4. QED
    BY <2>2, <2>3
<1>5. UsersInv'
  BY <1>1 DEF StartInv, UsersInv
<1>6. DbInv(db)' /\ ListsInv'
  BY DEF StartInv, ListsInv, InLists, DbInv, Whole, Shared
<1>7. DecisionsStay
  BY DEF DecisionsStay
<1>8. QED
  BY <1>2, <1>3, <1>4, <1>5, <1>6, <1>7 DEF StartInv

LEMMA LockKeeps ==
  ASSUME StartInv, NEW p \in Starters, Lock(p)
  PROVE  StartInv' /\ DecisionsStay
<1>1. \A q \in Starters : stage[q] \in Unlocked
  BY DEF Lock, Holders
<1>2. stage' = [stage EXCEPT ![p] = "parent"] /\ UNCHANGED <<db, pend, first, seen, dropped, changes, deaths>>
  BY DEF Lock, Goes, Passes, RestKept
<1>3. \A q \in Starters : stage'[q] = IF q = p THEN "parent" ELSE stage[q]
  BY <1>2 DEF StartInv, StartTyped
<1>4. pend = Nothing /\ ~Torn
  BY <1>1 DEF StartInv, HoldersInv
<1>5. HolderInv("parent", db, pend, seen[p])
  BY <1>4, NothingIs DEF Torn, HolderInv, TornOf, SchemaOf, PendOf, Tabling, Granting, Requiring, Scoping, Moving, Keying,
       Listing, Reviewing, Lining
<1>6. ASSUME NEW q \in Starters, stage'[q] \notin Unlocked
      PROVE  HolderInv(stage[q], db, pend, seen[q])'
  <2>1. q = p /\ stage'[q] = "parent"
    BY <1>1, <1>3, <1>6
  <2>2. QED
    BY <1>2, <1>5, <2>1 DEF HolderInv, TornOf, SchemaOf, PendOf, Shared
<1>7. ~(\A q \in Starters : stage'[q] \in Unlocked)
  BY <1>3 DEF Unlocked
<1>8. HoldersInv'
  BY <1>6, <1>7 DEF HoldersInv
<1>9. StartTyped'
  BY <1>2, <1>3 DEF StartInv, StartTyped, Stages
<1>10. OneHolder'
  BY <1>1, <1>3 DEF OneHolder
<1>11. UsersInv'
  BY <1>2, <1>3 DEF StartInv, UsersInv
<1>12. DbInv(db)' /\ ListsInv' /\ DecisionsStay
  BY <1>2 DEF StartInv, ListsInv, InLists, DbInv, Whole, Shared, DecisionsStay
<1>13. QED
  BY <1>8, <1>9, <1>10, <1>11, <1>12 DEF StartInv

LEMMA WaitersKeep ==
  ASSUME StartInv, NEW p \in Starters, StartProcess(p) \/ TimeOut(p) \/ Restart(p)
  PROVE  StartInv' /\ DecisionsStay
<1>1. CASE StartProcess(p)
  BY <1>1, OtherStep DEF StartProcess, Goes, Passes, RestKept, Unlocked, StartInv, StartTyped
<1>2. CASE TimeOut(p)
  <2>1. /\ stage' = [stage EXCEPT ![p] = "dead"] /\ stage[p] \in Unlocked /\ deaths' \in Nat
        /\ UNCHANGED <<db, first, pend, seen, dropped, changes>>
    BY <1>2 DEF TimeOut, Goes, Unlocked, StartInv, StartTyped
  <2>2. QED
    BY <2>1, OtherStep DEF Unlocked
<1>3. CASE Restart(p)
  BY <1>3, OtherStep DEF Restart, Goes, Passes, RestKept, Unlocked, StartInv, StartTyped
<1>4. QED
  BY <1>1, <1>2, <1>3

LEMMA DieKeeps ==
  ASSUME StartInv, ~TornColumns, NEW p \in Starters, DieStarting(p)
  PROVE  StartInv' /\ DecisionsStay
<1>1. p \in Holders <=> stage[p] \notin Unlocked
  BY DEF Holders
<1>2. /\ stage' = [stage EXCEPT ![p] = "dead"] /\ deaths' \in Nat
      /\ UNCHANGED <<db, first, seen, dropped, changes>>
      /\ pend' = IF stage[p] \in Unlocked THEN pend ELSE Nothing
      /\ stage[p] \in Unlocked \/ ~Torn
  BY <1>1 DEF DieStarting, StartInv, StartTyped
<1>3. QED
  BY <1>2, OtherStep DEF Unlocked

-----------------------------------------------------------------------------
(* What users do; they are served only once a start has ended.              *)
LEMMA SchemaSame ==
  ASSUME NEW st, NEW d, NEW e, NEW pd, SchemaOf(st, d, pd),
         e.tables = d.tables, e.columns = d.columns, e.blank = d.blank, e.required = d.required,
         e.parentKey = d.parentKey, e.scope = d.scope, e.wordKey = d.wordKey
  PROVE  SchemaOf(st, e, pd)
<1>1. st # "parent" => ("accounts" \in e.tables => e.parentKey)
  BY DEF SchemaOf
<1>2. /\ st \notin Tabling => e.tables = Tables
      /\ st \notin Granting => "permissions" \in e.columns
      /\ st \notin Requiring => "permissions" \in e.required
      /\ st = "require" => "permissions" \in pd.fills
  BY DEF SchemaOf
<1>3. /\ st \notin Scoping => e.scope \in {"mixed", "owner"}
      /\ st \notin Moving => e.scope = "owner"
      /\ st \notin Keying => e.wordKey = "owner"
  BY DEF SchemaOf
<1>4. /\ st \notin Listing => "listed" \in e.columns
      /\ st \notin Reviewing => "reviews" \in e.columns
      /\ st \notin Lining => "key" \in e.columns
  BY DEF SchemaOf
<1>5. /\ st \in {"key", "fill key", "end"} => ("listed" \in e.blank => "listed" \in pd.fills)
      /\ st = "end" => ("key" \in e.blank => "key" \in pd.fills)
      /\ st \in {"admin", "read", "write"} => e.blank = {}
  BY DEF SchemaOf
<1>6. QED
  BY <1>1, <1>2, <1>3, <1>4, <1>5 DEF SchemaOf

LEMMA ActStep ==
  ASSUME StartInv, NEW d \in DbRows, Act(d), dropped' \in SUBSET WordPairs,
         d.tables = db.tables, d.columns = db.columns, d.blank = db.blank, d.required = db.required,
         d.parentKey = db.parentKey, d.scope = db.scope, d.wordKey = db.wordKey, d.done = db.done,
         db.accounts \subseteq d.accounts,
         Shared(d.words) \subseteq Shared(db.words),
         \A u \in Accounts, w \in Legacy :
           <<u, w>> \in db.words \cup dropped => <<u, w>> \in d.words \cup dropped'
  PROVE  StartInv' /\ DecisionsStay
<1>1. /\ db' = d /\ changes' = changes + 1 /\ changes' # changes
      /\ UNCHANGED <<first, pend, stage, seen, deaths>>
  BY DEF Act, StartInv, StartTyped
<1>2. db.done = Settings /\ Whole(db) /\ Shared(db.words) = {}
  BY DEF Act, Serving, StartInv, UsersInv, DbInv, Whole
<1>3. DbInv(d)
  BY <1>2 DEF StartInv, DbInv, Whole
<1>4. StartTyped'
  BY <1>1 DEF StartInv, StartTyped
<1>5. OneHolder'
  BY <1>1 DEF StartInv, OneHolder
<1>6. HoldersInv'
  <2>1. Torn' = Torn
    BY <1>1 DEF Torn
  <2>2. ASSUME NEW q \in Starters, stage'[q] \notin Unlocked
        PROVE  HolderInv(stage[q], db, pend, seen[q])'
    <3>1. HolderInv(stage[q], db, pend, seen[q])
      BY <1>1, <2>2 DEF StartInv, HoldersInv
    <3>2. Shared(d.words) = {}
      BY <1>2
    <3>3. TornOf(stage[q], d, pend)
      BY <3>1 DEF HolderInv, TornOf
    <3>4. SchemaOf(stage[q], d, pend)
      BY <3>1, SchemaSame DEF HolderInv
    <3>5. PendOf(stage[q], d, pend, seen[q])
      BY <3>1, <3>2 DEF HolderInv, PendOf
    <3>6. HolderInv(stage'[q], db', pend', seen'[q])
      BY <1>1, <3>3, <3>4, <3>5 DEF HolderInv
    <3>7. QED
      BY <1>1, <3>6, HolderNext
  <2>3. QED
    BY <1>1, <2>1, <2>2 DEF StartInv, HoldersInv
<1>7. UsersInv'
  BY <1>1, <1>2 DEF UsersInv, Settings
<1>8. InLists(d.words)'
  <2>1. ASSUME first.scope = "shared", NEW w \in Legacy, NEW u \in first.accounts
        PROVE  <<u, w>> \in d.words \cup dropped'
    <3>1. <<NoOwner, w>> \notin db.words
      BY <1>2 DEF Shared
    <3>2. u \in Accounts
      BY DEF StartInv, StartTyped, DbRows
    <3>3. QED
      BY <2>1, <3>1, <3>2 DEF StartInv, ListsInv, InLists
  <2>2. QED
    BY <1>1, <2>1 DEF InLists
<1>9. DbInv(db)' /\ ListsInv'
  BY <1>1, <1>3, <1>8 DEF StartInv, ListsInv, InLists, DbInv, Whole, Shared
<1>10. DecisionsStay
  BY <1>1 DEF DecisionsStay
<1>11. QED
  BY <1>4, <1>5, <1>6, <1>7, <1>9, <1>10 DEF StartInv

LEMMA UsersKeep ==
  ASSUME StartInv, UserActs
  PROVE  StartInv' /\ DecisionsStay
<1>1. db \in DbRows /\ dropped \in SUBSET WordPairs /\ NoOwner \notin Accounts
  BY StartAssumption DEF StartInv, StartTyped, StartConstants
<1>2. PICK u \in Accounts :
        \/ CreateUser(u)
        \/ \E k \in Settings : SaveSetting(u, k)
        \/ \E w \in Legacy \cup Defaults : CreateWord(u, w) \/ DeleteWord(u, w)
  BY DEF UserActs
<1>3. CASE CreateUser(u)
  <2> DEFINE d == [db EXCEPT !.accounts = @ \cup {u}, !.words = @ \cup ({u} \X Defaults)]
  <2>1. {u} \X Defaults \subseteq WordPairs
    BY DEF WordPairs
  <2>2. /\ d \in DbRows /\ d.tables = db.tables /\ d.columns = db.columns /\ d.blank = db.blank
        /\ d.required = db.required /\ d.parentKey = db.parentKey /\ d.scope = db.scope
        /\ d.wordKey = db.wordKey /\ d.done = db.done /\ d.accounts = db.accounts \cup {u}
        /\ d.words = db.words \cup ({u} \X Defaults)
    BY <1>1, <2>1 DEF DbRows
  <2>3. Act(d) /\ dropped' = dropped
    BY <1>3 DEF CreateUser
  <2> HIDE DEF d
  <2>4. Shared(d.words) \subseteq Shared(db.words)
    BY <1>1, <2>2 DEF Shared
  <2>5. QED
    BY <1>1, <2>2, <2>3, <2>4, ActStep
<1>4. CASE \E k \in Settings : SaveSetting(u, k)
  <2>1. PICK k \in Settings : SaveSetting(u, k)
    BY <1>4
  <2> DEFINE s == [db.settings EXCEPT ![k][u] = "saved"]
             d == [db EXCEPT !.settings = s]
  <2>2. s \in [Settings -> [Accounts -> {"none", "owner", "saved"}]]
    BY <1>1 DEF DbRows
  <2>3. Act(d) /\ dropped' = dropped
    <3>1. [db EXCEPT !.settings[k][u] = "saved"] = d
      BY <1>1 DEF DbRows
    <3>2. QED
      BY <2>1, <3>1 DEF SaveSetting
  <2> HIDE DEF s
  <2>4. /\ d \in DbRows /\ d.tables = db.tables /\ d.columns = db.columns /\ d.blank = db.blank
        /\ d.required = db.required /\ d.parentKey = db.parentKey /\ d.scope = db.scope
        /\ d.wordKey = db.wordKey /\ d.done = db.done /\ d.accounts = db.accounts
        /\ d.words = db.words
    BY <1>1, <2>2 DEF DbRows
  <2> HIDE DEF d
  <2>5. QED
    BY <1>1, <2>3, <2>4, ActStep
<1>5. CASE \E w \in Legacy \cup Defaults : CreateWord(u, w)
  <2>1. PICK w \in Legacy \cup Defaults : CreateWord(u, w)
    BY <1>5
  <2> DEFINE d == [db EXCEPT !.words = @ \cup {<<u, w>>}]
  <2>2. <<u, w>> \in WordPairs
    BY DEF WordPairs
  <2>3. Act(d) /\ dropped' = dropped \ {<<u, w>>}
    BY <2>1 DEF CreateWord
  <2>4. /\ d \in DbRows /\ d.tables = db.tables /\ d.columns = db.columns /\ d.blank = db.blank
        /\ d.required = db.required /\ d.parentKey = db.parentKey /\ d.scope = db.scope
        /\ d.wordKey = db.wordKey /\ d.done = db.done /\ d.accounts = db.accounts
        /\ d.words = db.words \cup {<<u, w>>}
    BY <1>1, <2>2 DEF DbRows
  <2> HIDE DEF d
  <2>5. Shared(d.words) \subseteq Shared(db.words)
    BY <1>1, <2>4 DEF Shared
  <2>6. QED
    BY <1>1, <2>3, <2>4, <2>5, ActStep
<1>6. CASE \E w \in Legacy \cup Defaults : DeleteWord(u, w)
  <2>1. PICK w \in Legacy \cup Defaults : DeleteWord(u, w)
    BY <1>6
  <2> DEFINE d == [db EXCEPT !.words = @ \ {<<u, w>>}]
  <2>2. <<u, w>> \in WordPairs
    BY DEF WordPairs
  <2>3. Act(d) /\ dropped' = dropped \cup {<<u, w>>}
    BY <2>1 DEF DeleteWord
  <2>4. /\ d \in DbRows /\ d.tables = db.tables /\ d.columns = db.columns /\ d.blank = db.blank
        /\ d.required = db.required /\ d.parentKey = db.parentKey /\ d.scope = db.scope
        /\ d.wordKey = db.wordKey /\ d.done = db.done /\ d.accounts = db.accounts
        /\ d.words = db.words \ {<<u, w>>}
    BY <1>1 DEF DbRows
  <2> HIDE DEF d
  <2>5. Shared(d.words) \subseteq Shared(db.words)
    BY <2>4 DEF Shared
  <2>6. QED
    BY <1>1, <2>2, <2>3, <2>4, <2>5, ActStep
<1>7. QED
  BY <1>2, <1>3, <1>4, <1>5, <1>6

-----------------------------------------------------------------------------
LEMMA StartingKeeps ==
  ASSUME StartInv, NEW p \in Starters, Starting(p)
  PROVE  StartInv' /\ DecisionsStay
<1>1. CASE PrepareTables(p)
  BY <1>1, WaitersKeep, LockKeeps, ParentKeysKeeps, CreateTableKeeps, CreatedAllKeeps DEF PrepareTables
<1>2. CASE Complete(p)
  BY <1>2, PermissionsKeeps, FillPermissionsKeeps, RequireKeeps, ListedKeeps, ReviewsKeeps, FillReviewsKeeps,
     FillListedKeeps, KeyKeeps, FillKeyKeeps, EndSchemaKeeps DEF Complete
<1>3. CASE MoveWords(p)
  BY <1>3, ScopeKeeps, UnkeyKeeps, FailKeeps, ClearSharedKeeps, OwnKeeps, KeyWordsKeeps, CopyToKeeps DEF MoveWords
<1>4. CASE Fill(p)
  BY <1>4, EnsureAdminKeeps, ReadKeeps, WriteScopesKeeps, WriteFailsKeeps DEF Fill
<1>5. QED
  BY <1>1, <1>2, <1>3, <1>4 DEF Starting

LEMMA StartStep ==
  ASSUME StartInv, ~TornColumns, [StartNext]_startVars
  PROVE  StartInv' /\ [DecisionsStay]_startVars
<1>1. CASE UserActs
  BY <1>1, UsersKeep
<1>2. ASSUME NEW p \in Starters, Starting(p) \/ DieStarting(p) \/ Restart(p)
      PROVE  StartInv' /\ DecisionsStay
  BY <1>2, StartingKeeps, DieKeeps, WaitersKeep
<1>3. CASE UNCHANGED startVars
  <2>1. UNCHANGED <<db, first, pend, stage, seen, dropped, changes, deaths>>
    BY <1>3 DEF startVars
  <2>2. HoldersInv'
    <3>1. ASSUME NEW q \in Starters, stage'[q] \notin Unlocked
          PROVE  HolderInv(stage[q], db, pend, seen[q])'
      <4>1. HolderInv(stage'[q], db', pend', seen'[q])
        BY <2>1, <3>1 DEF StartInv, HoldersInv
      <4>2. QED
        BY <2>1, <4>1, HolderNext
    <3>2. QED
      BY <2>1, <3>1 DEF StartInv, HoldersInv, Torn
  <2>3. StartTyped' /\ OneHolder' /\ UsersInv'
    BY <2>1 DEF StartInv, StartTyped, OneHolder, UsersInv
  <2>4. DbInv(db)' /\ ListsInv'
    BY <2>1 DEF StartInv, DbInv, Whole, ListsInv, InLists, Shared
  <2>5. QED
    BY <1>3, <2>2, <2>3, <2>4 DEF StartInv
<1>4. QED
  BY <1>1, <1>2, <1>3 DEF StartNext

StartDb(tables, columns, scope, accounts) ==
  db = [tables |-> tables, columns |-> columns, blank |-> {},
        required |-> columns \cap {"permissions"}, parentKey |-> FALSE,
        scope |-> scope,
        wordKey |-> CASE scope = "shared" -> "word" [] scope = "owner" -> "owner" [] OTHER -> "none",
        words |-> IF scope = "shared" THEN {NoOwner} \X Legacy ELSE {},
        accounts |-> accounts,
        settings |-> [k \in Settings |-> [u \in Accounts |-> "none"]],
        done |-> {}]

LEMMA StartBegins ==
  ASSUME StartInit
  PROVE  StartInv
<1>1. PICK tables \in SUBSET Tables, columns \in SUBSET Columns, scope \in {"none", "shared", "owner"},
           accounts \in SUBSET Accounts :
        /\ \A c \in columns : TableOf[c] \in tables
        /\ "words" \in tables <=> scope # "none"
        /\ StartDb(tables, columns, scope, accounts)
  <2>1. PICK tables \in OldTables : \E columns \in OldColumns(tables) :
             \E scope \in IF "words" \in tables THEN {"shared", "owner"} ELSE {"none"} :
             \E accounts \in IF "accounts" \in tables THEN {{}, Accounts \ {Root}, Accounts} ELSE {{}} :
               StartDb(tables, columns, scope, accounts)
    BY DEF StartInit, StartDb
  <2>2. PICK columns \in OldColumns(tables),
             scope \in IF "words" \in tables THEN {"shared", "owner"} ELSE {"none"},
             accounts \in IF "accounts" \in tables THEN {{}, Accounts \ {Root}, Accounts} ELSE {{}} :
               StartDb(tables, columns, scope, accounts)
    BY <2>1
  <2>3. tables \subseteq Tables /\ columns \subseteq Columns /\ (\A c \in columns : TableOf[c] \in tables)
    BY DEF OldTables, OldColumns, Tables
  <2>4. accounts \subseteq Accounts /\ scope \in {"none", "shared", "owner"} /\ ("words" \in tables <=> scope # "none")
    OBVIOUS
  <2>5. QED
    BY <2>2, <2>3, <2>4
<1>2. /\ first = db /\ pend = Nothing /\ stage = [p \in Starters |-> "start"]
      /\ seen = [p \in Starters |-> db] /\ dropped = {} /\ changes = 0 /\ deaths = 0
  BY DEF StartInit
<1>3. /\ \A c \in columns : TableOf[c] \in tables
      /\ "words" \in tables <=> scope # "none"
  BY <1>1
<1>4. {NoOwner} \X Legacy \subseteq WordPairs
  BY DEF WordPairs
<1>5. /\ db.tables = tables /\ db.columns = columns /\ db.blank = {} /\ db.required = columns \cap {"permissions"}
      /\ db.scope = scope /\ db.accounts = accounts /\ db.done = {}
      /\ db.words = IF scope = "shared" THEN {NoOwner} \X Legacy ELSE {}
      /\ db.settings = [k \in Settings |-> [u \in Accounts |-> "none"]]
  BY <1>1 DEF StartDb
<1>6. db \in DbRows
  <2>1. (CASE scope = "shared" -> "word" [] scope = "owner" -> "owner" [] OTHER -> "none") \in {"none", "word", "owner"}
    BY <1>3
  <2>2. (IF scope = "shared" THEN {NoOwner} \X Legacy ELSE {}) \in SUBSET WordPairs
    BY <1>4
  <2>3. [k \in Settings |-> [u \in Accounts |-> "none"]] \in [Settings -> [Accounts -> {"none", "owner", "saved"}]]
    OBVIOUS
  <2>4. QED
    BY <1>1, <1>3, <2>1, <2>2, <2>3 DEF DbRows, StartDb
<1>7. DbInv(db)
  <2>1. scope \in {"none", "owner"} => Shared(db.words) = {}
    BY <1>5 DEF Shared
  <2>2. QED
    BY <1>3, <1>5, <2>1 DEF DbInv, Settings
<1>8. \A p \in Starters : stage[p] = "start" /\ stage[p] \in Unlocked
  BY <1>2 DEF Unlocked
<1>9. StartTyped
  BY <1>2, <1>6, NothingIs DEF StartTyped, Stages, Unlocked
<1>10. OneHolder
  BY <1>8 DEF OneHolder
<1>11. HoldersInv
  BY <1>2, <1>5, <1>8 DEF HoldersInv, Torn
<1>12. UsersInv
  BY <1>2, <1>5, <1>8 DEF UsersInv
<1>13. ListsInv
  BY <1>2, <1>3, <1>5 DEF ListsInv, InLists
<1>14. QED
  BY <1>7, <1>9, <1>10, <1>11, <1>12, <1>13 DEF StartInv

LEMMA StartGives ==
  ASSUME StartInv
  PROVE  ReadyIsComplete /\ WordsKept /\ StartTypeOK
<1>1. ReadyIsComplete
  BY DEF StartInv, UsersInv, DbInv, Whole, ReadyIsComplete, Serving
<1>2. WordsKept
  BY DEF StartInv, ListsInv, InLists, DbInv, WordsKept
<1>3. Cardinality(Holders) <= 1
  <2>1. CASE Holders = {}
    BY <2>1, FS_EmptySet
  <2>2. CASE Holders # {}
    <3>1. PICK p : p \in Holders
      BY <2>2
    <3>2. Holders = {p}
      BY <3>1 DEF Holders, StartInv, OneHolder
    <3>3. Cardinality(Holders) = 1
      BY <3>2, FS_Singleton
    <3>4. QED
      BY <3>3
  <2>3. QED
    BY <2>1, <2>2
<1>4. pend = Nothing \/ Holders # {}
  BY DEF StartInv, HoldersInv, Holders
<1>5. StartTypeOK
  BY <1>3, <1>4 DEF StartInv, StartTyped, DbRows, DbInv, WordPairs, StartTypeOK
<1>6. QED
  BY <1>1, <1>2, <1>5

(* Every variable of a start holds values of its kind, and one process at   *)
(* most holds the lock of the schema.                                       *)
THEOREM StartsTyped ==
  ASSUME ~TornColumns
  PROVE  StartSpec => []StartTypeOK
<1>1. StartInit => StartInv
  BY StartBegins
<1>2. StartInv /\ [StartNext]_startVars => StartInv'
  BY StartStep
<1>3. StartInv => StartTypeOK
  BY StartGives
<1>4. QED
  BY <1>1, <1>2, <1>3, PTL DEF StartSpec

(* init_database: if no process dies between the addition of a column and   *)
(* the statement that fills it, where only the addition leads to it, a      *)
(* process that is ready has the whole schema before it, and no sensitive   *)
(* word is lost, whatever version the database had and wherever else        *)
(* earlier starts have ended.                                               *)
THEOREM StartsComplete ==
  ASSUME ~TornColumns
  PROVE  StartSpec => [](ReadyIsComplete /\ WordsKept)
<1>1. StartInit => StartInv
  BY StartBegins
<1>2. StartInv /\ [StartNext]_startVars => StartInv'
  BY StartStep
<1>3. StartInv => ReadyIsComplete /\ WordsKept
  BY StartGives
<1>4. QED
  BY <1>1, <1>2, <1>3, PTL DEF StartSpec

(* migrate_user_settings_to_owner_scope, seed_default_sensitive_words: on   *)
(* the same condition a start undoes no decision of a user: settings he has *)
(* saved stay, words he has deleted do not come back.                       *)
THEOREM StartsKeepDecisions ==
  ASSUME ~TornColumns
  PROVE  StartSpec => StartKeeps
<1>1. StartInit => StartInv
  BY StartBegins
<1>2. StartInv /\ [StartNext]_startVars => StartInv' /\ [DecisionsStay]_startVars
  BY StartStep
<1>3. QED
  BY <1>1, <1>2, PTL DEF StartSpec, StartKeeps

-----------------------------------------------------------------------------
(* A set of numbers with a bound has a greatest one. *)
LEMMA GreatestNumber ==
  ASSUME NEW n \in Nat, NEW S \in SUBSET (0..n), S # {}
  PROVE  \E k \in S : \A j \in S : j <= k
<1> DEFINE Less == {ss \in Nat \X Nat : ss[1] < ss[2]}
           T == {n - k : k \in S}
<1>1. IsWellFoundedOn(Less, Nat)
  BY NatLessThanWellFounded DEF OpToRel
<1>2. T \subseteq Nat /\ T # {}
  <2>1. \A k \in S : k \in Nat /\ k <= n /\ n - k \in Nat
    OBVIOUS
  <2>2. QED
    BY <2>1
<1>3. PICK a \in T : \A b \in T : ~(<<b, a>> \in Less)
  <2> HIDE DEF Less, T
  <2>1. QED
    BY <1>1, <1>2, WFMin
<1>4. PICK k \in S : a = n - k
  OBVIOUS
<1>5. ASSUME NEW j \in S
      PROVE  j <= k
  <2>1. n - j \in T /\ n - j \in Nat /\ a \in Nat
    BY <1>2
  <2>2. ~(n - j < a)
    BY <1>3, <2>1
  <2>3. QED
    BY <1>4, <2>2
<1>6. QED
  BY <1>5

-----------------------------------------------------------------------------
OpenForms == [post : Posts, version : 0..MaxEdits, images : SUBSET Images]
PostTyped ==
  /\ post \in [Posts -> Row \cup {NoRow}]
  /\ reads \in SUBSET (Posts \X Readers)
  /\ files \in SUBSET Images /\ fresh \in SUBSET Images /\ files \cap fresh = {}
  /\ form \in [Editors -> OpenForms \cup {NoForm}]
  /\ doomed \in [Editors -> SUBSET Images] /\ gone \in [Editors -> SUBSET Images]
  /\ view \in [Readers -> [Posts -> 0..MaxEdits]]

LEMMA RowParts ==
  ASSUME PostTyped
  PROVE  /\ \A x \in Posts : /\ post[x].version \in 0..MaxEdits /\ post[x].images \in SUBSET Images
                             /\ post[x].published \in BOOLEAN
                             /\ post[x].version = 0 => post[x].images = {} /\ ~post[x].published
         /\ \A e \in Editors : /\ form[e].version \in 0..MaxEdits /\ form[e].images \in SUBSET Images
                               /\ form[e] # NoForm => form[e].post \in Posts
                               /\ form[e] = NoForm => form[e].images = {}
         /\ MaxEdits \in Nat /\ Manual \in Posts
<1>1. MaxEdits \in Nat /\ Manual \in Posts
  BY PostAssumption DEF PostConstants
<1>2. ASSUME NEW x \in Posts
      PROVE  /\ post[x].version \in 0..MaxEdits /\ post[x].images \in SUBSET Images
             /\ post[x].published \in BOOLEAN
             /\ post[x].version = 0 => post[x].images = {} /\ ~post[x].published
  <2>1. post[x] \in Row \/ post[x] = NoRow
    BY DEF PostTyped
  <2>2. CASE post[x] \in Row
    BY <1>1, <2>2 DEF Row
  <2>3. CASE post[x] = NoRow
    BY <1>1, <2>3 DEF NoRow
  <2>4. QED
    BY <2>1, <2>2, <2>3
<1>3. ASSUME NEW e \in Editors
      PROVE  /\ form[e].version \in 0..MaxEdits /\ form[e].images \in SUBSET Images
             /\ form[e] # NoForm => form[e].post \in Posts
             /\ form[e] = NoForm => form[e].images = {}
  <2>1. form[e] \in OpenForms \/ form[e] = NoForm
    BY DEF PostTyped
  <2>2. CASE form[e] \in OpenForms
    BY <1>1, <2>2 DEF OpenForms, NoForm
  <2>3. CASE form[e] = NoForm
    BY <1>1, <2>3 DEF NoForm
  <2>4. QED
    BY <2>1, <2>2, <2>3
<1>4. QED
  BY <1>1, <1>2, <1>3

(* The next version is one that no row, form or list has had. *)
LEMMA NewestVersion ==
  ASSUME PostTyped
  PROVE  /\ Newest \in Nat
         /\ \A x \in Posts : post[x].version <= Newest
         /\ \A e \in Editors : form[e].version <= Newest
<1>1. Versions \in SUBSET (0..MaxEdits)
  BY RowParts DEF PostTyped, Versions
<1>2. Versions # {}
  <2>1. post[Manual].version \in Versions
    BY RowParts DEF Versions
  <2>2. QED
    BY <2>1
<1>3. MaxEdits \in Nat
  BY RowParts
<1>4. \E n \in Versions : \A k \in Versions : k <= n
  <2> HIDE DEF Versions
  <2>1. QED
    BY <1>1, <1>2, <1>3, GreatestNumber
<1>5. Newest \in Versions /\ \A k \in Versions : k <= Newest
  BY <1>4 DEF Newest
<1>6. QED
  BY <1>1, <1>3, <1>5 DEF Versions

-----------------------------------------------------------------------------
LEMMA InitPosts ==
  ASSUME PostInit
  PROVE  PostTyped
  BY PostAssumption DEF PostConstants, PostInit, PostTyped, Row, NoRow, OpenForms, NoForm

LEMMA PostTyping ==
  ASSUME PostTyped, [PostNext]_postVars
  PROVE  PostTyped'
<1>0. USE RowParts
<1>1. ASSUME NEW e \in Editors, NEW x \in Posts, Open(e, x)
      PROVE  PostTyped'
  BY <1>1 DEF Open, PostTyped, OpenForms
<1>2. ASSUME NEW e \in Editors, SaveImage(e)
      PROVE  PostTyped'
  <2>1. PICK i \in fresh : /\ fresh' = fresh \ {i} /\ files' = files \cup {i}
                           /\ form' = [form EXCEPT ![e].images = @ \cup {i}]
    BY <1>2 DEF SaveImage
  <2>2. form[e] \in OpenForms /\ i \in Images
    BY <1>2, <2>1 DEF SaveImage, PostTyped
  <2>3. form' = [form EXCEPT ![e] = [form[e] EXCEPT !.images = @ \cup {i}]]
        /\ [form[e] EXCEPT !.images = @ \cup {i}] \in OpenForms
    BY <2>1, <2>2 DEF OpenForms
  <2>4. form' \in [Editors -> OpenForms \cup {NoForm}]
    BY <2>3 DEF PostTyped
  <2>5. files' \in SUBSET Images /\ fresh' \in SUBSET Images /\ files' \cap fresh' = {}
    BY <2>1, <2>2 DEF PostTyped
  <2>6. QED
    BY <1>2, <2>4, <2>5 DEF SaveImage, PostTyped
<1>3. ASSUME NEW e \in Editors, NEW i \in Images, TakeOff(e, i)
      PROVE  PostTyped'
  <2>1. form[e] \in OpenForms
    BY <1>3 DEF TakeOff, PostTyped, NoForm
  <2>2. form' = [form EXCEPT ![e] = [form[e] EXCEPT !.images = @ \ {i}]]
        /\ [form[e] EXCEPT !.images = @ \ {i}] \in OpenForms
    BY <1>3, <2>1 DEF OpenForms, TakeOff
  <2>3. QED
    BY <1>3, <2>2 DEF TakeOff, PostTyped
<1>4. ASSUME NEW e \in Editors, CancelForm(e)
      PROVE  PostTyped'
  BY <1>4 DEF CancelForm, PostTyped
<1>5. ASSUME NEW e \in Editors, NEW published \in BOOLEAN, SavePost(e, published)
      PROVE  PostTyped'
  <2>1. form[e].post \in Posts /\ Newest + 1 \in 1..MaxEdits
    BY <1>5, NewestVersion DEF SavePost
  <2>2. [version |-> Newest + 1, images |-> form[e].images, published |-> published] \in Row
    BY <2>1 DEF Row
  <2>3. reads' \in SUBSET (Posts \X Readers)
    BY <1>5 DEF SavePost, ReadsOfOthers, PostTyped
  <2>4. doomed' \in [Editors -> SUBSET Images]
    BY <1>5, <2>1 DEF SavePost, PostTyped
  <2>5. QED
    BY <1>5, <2>1, <2>2, <2>3, <2>4 DEF SavePost, PostTyped
<1>6. ASSUME NEW e \in Editors, NEW x \in Posts, DeletePost(e, x)
      PROVE  PostTyped'
  BY <1>6 DEF DeletePost, PostTyped
<1>7. ASSUME NEW e \in Editors, NEW i \in Images, Check(e, i) \/ DeleteImage(e, i)
      PROVE  PostTyped'
  <2>1. CASE Check(e, i)
    <3>1. doomed' \in [Editors -> SUBSET Images]
      BY <2>1 DEF Check, PostTyped
    <3>2. gone' \in [Editors -> SUBSET Images]
      BY <2>1 DEF Check, PostTyped
    <3>3. QED
      BY <2>1, <3>1, <3>2 DEF Check, PostTyped
  <2>2. CASE DeleteImage(e, i)
    <3>1. gone' \in [Editors -> SUBSET Images]
      BY <2>2 DEF DeleteImage, PostTyped
    <3>2. files' \in SUBSET Images /\ files' \cap fresh' = {}
      BY <2>2 DEF DeleteImage, PostTyped
    <3>3. QED
      BY <2>2, <3>1, <3>2 DEF DeleteImage, PostTyped
  <2>3. QED
    BY <1>7, <2>1, <2>2
<1>8. CASE EnsureManual
  <2>1. Newest + 1 \in 1..MaxEdits
    BY <1>8, NewestVersion DEF EnsureManual
  <2>2. [post[Manual] EXCEPT !.version = Newest + 1, !.published = TRUE] \in Row
    <3>1. post[Manual] \in Row \/ post[Manual] = NoRow
      BY RowParts DEF PostTyped
    <3>2. QED
      BY <2>1, <3>1 DEF Row, NoRow
  <2>3. reads' \in SUBSET (Posts \X Readers)
    BY <1>8 DEF EnsureManual, ReadsOfOthers, PostTyped
  <2>4. QED
    BY <1>8, <2>2, <2>3 DEF EnsureManual, PostTyped
<1>9. ASSUME NEW u \in Readers, Show(u) \/ MarkRead(u)
      PROVE  PostTyped'
  <2>1. CASE Show(u)
    <3>1. [x \in Posts |-> IF post[x].published THEN post[x].version ELSE 0] \in [Posts -> 0..MaxEdits]
      BY RowParts
    <3>2. view' \in [Readers -> [Posts -> 0..MaxEdits]]
      BY <2>1, <3>1 DEF Show, PostTyped
    <3>3. QED
      BY <2>1, <3>2 DEF Show, PostTyped
  <2>2. CASE MarkRead(u)
    <3>1. reads' \in SUBSET (Posts \X Readers)
      BY <2>2 DEF MarkRead, PostTyped
    <3>2. QED
      BY <2>2, <3>1 DEF MarkRead, PostTyped
  <2>3. QED
    BY <1>9, <2>1, <2>2
<1>10. CASE UNCHANGED postVars
  BY <1>10 DEF postVars, PostTyped
<1>11. QED
  BY <1>1, <1>2, <1>3, <1>4, <1>5, <1>6, <1>7, <1>8, <1>9, <1>10 DEF PostNext

-----------------------------------------------------------------------------
(* Images.  A form may be saved if its announcement has not changed since   *)
(* it was opened; a new one may be, as long as there is no announcement.     *)
Hopeful(e) == form[e] # NoForm /\ form[e].version \in {0, post[form[e].post].version}
Doomed(i) == \E e \in Editors : i \in doomed[e] \cup gone[e]

(* An image belongs to one announcement; those to be deleted to none.  The  *)
(* images of a form that may still be saved are there, and are those of its *)
(* announcement or its own.                                                 *)
PostImages ==
  \A i \in Images :
    /\ \A x \in Posts : i \in post[x].images => i \in files /\ ~Doomed(i)
    /\ \A x, y \in Posts : i \in post[x].images /\ i \in post[y].images => x = y
    /\ i \in fresh => /\ ~Doomed(i)
                      /\ \A x \in Posts : i \notin post[x].images
                      /\ \A e \in Editors : i \notin form[e].images
FormImages ==
  \A e \in Editors : \A i \in form[e].images :
    /\ \A y \in Posts : i \in post[y].images => y = form[e].post /\ form[e].version # 0
    /\ Hopeful(e) => i \in files /\ ~Doomed(i)
    /\ Hopeful(e) /\ i \notin post[form[e].post].images =>
         \A f \in Editors \ {e} : i \notin form[f].images
ImagesInv == PostTyped /\ PostImages /\ FormImages

LEMMA OpenImages ==
  ASSUME ImagesInv, NEW e \in Editors, NEW x \in Posts, Open(e, x)
  PROVE  PostImages' /\ FormImages'
<1>0. /\ UNCHANGED <<post, files, fresh, doomed, gone>>
      /\ form'[e] = [post |-> x, version |-> post[x].version, images |-> post[x].images]
      /\ \A f \in Editors \ {e} : form'[f] = form[f]
  BY DEF Open, ImagesInv, PostTyped
<1>1. \A i : Doomed(i)' <=> Doomed(i)
  BY <1>0 DEF Doomed
<1>2. \A f \in Editors \ {e} : Hopeful(f)' <=> Hopeful(f)
  BY <1>0 DEF Hopeful
<1>3. PostImages'
  <2>1. \A i \in Images : i \in fresh => \A f \in Editors : i \notin form'[f].images
    BY <1>0 DEF ImagesInv, PostImages
  <2>2. QED
    BY <1>0, <1>1, <2>1 DEF ImagesInv, PostImages
<1>4. ASSUME NEW f \in Editors, NEW i \in form'[f].images
      PROVE  /\ \A y \in Posts : i \in post'[y].images => y = form'[f].post /\ form'[f].version # 0
             /\ Hopeful(f)' => i \in files' /\ ~Doomed(i)'
             /\ Hopeful(f)' /\ i \notin post'[form'[f].post].images =>
                  \A g \in Editors \ {f} : i \notin form'[g].images
  <2>0. i \in Images
    BY <1>0, <1>4, RowParts DEF ImagesInv
  <2>1. CASE f = e
    BY <1>0, <1>1, <1>4, <2>0, <2>1, RowParts DEF ImagesInv, PostImages
  <2>2. CASE f # e
    <3>1. i \in form[f].images /\ form'[f] = form[f]
      BY <1>0, <1>4, <2>2
    <3>2. Hopeful(f) /\ i \notin post[form[f].post].images => i \notin post[x].images
      BY <3>1 DEF ImagesInv, FormImages
    <3>3. /\ \A y \in Posts : i \in post[y].images => y = form[f].post /\ form[f].version # 0
          /\ Hopeful(f) => i \in files /\ ~Doomed(i)
          /\ Hopeful(f) /\ i \notin post[form[f].post].images =>
               \A g \in Editors \ {f} : i \notin form[g].images
      BY <3>1 DEF ImagesInv, FormImages
    <3>4. i \notin post[x].images => i \notin form'[e].images
      BY <1>0
    <3>5. Hopeful(f) /\ i \notin post[form[f].post].images =>
            \A g \in Editors \ {f} : i \notin form'[g].images
      BY <1>0, <3>2, <3>3, <3>4
    <3>6. QED
      BY <1>0, <1>1, <1>2, <2>2, <3>1, <3>3, <3>5
  <2>3. QED
    BY <2>1, <2>2
<1>5. QED
  BY <1>3, <1>4 DEF FormImages

LEMMA UploadImages ==
  ASSUME ImagesInv, NEW e \in Editors, SaveImage(e)
  PROVE  PostImages' /\ FormImages'
<1>0. PICK i \in fresh : /\ fresh' = fresh \ {i} /\ files' = files \cup {i}
                         /\ form' = [form EXCEPT ![e].images = @ \cup {i}]
  BY DEF SaveImage
<1>1. /\ UNCHANGED <<post, doomed, gone>> /\ form[e] # NoForm
      /\ form'[e] = [form[e] EXCEPT !.images = @ \cup {i}]
      /\ \A f \in Editors \ {e} : form'[f] = form[f]
  BY <1>0 DEF SaveImage, ImagesInv, PostTyped
<1>2. /\ form'[e].post = form[e].post /\ form'[e].version = form[e].version
      /\ form'[e].images = form[e].images \cup {i} /\ form'[e] # NoForm
  <2>1. form[e] \in OpenForms
    BY <1>1 DEF ImagesInv, PostTyped
  <2>2. QED
    BY <1>1, <2>1 DEF OpenForms, NoForm
<1>3. \A j : Doomed(j)' <=> Doomed(j)
  BY <1>1 DEF Doomed
<1>4. \A f \in Editors : Hopeful(f)' <=> Hopeful(f)
  BY <1>1, <1>2 DEF Hopeful
<1>5. /\ i \in Images /\ ~Doomed(i)
      /\ \A x \in Posts : i \notin post[x].images
      /\ \A f \in Editors : i \notin form[f].images
  BY DEF ImagesInv, PostImages, PostTyped
<1>6. PostImages'
  <2>1. ASSUME NEW j \in Images, j \in fresh'
        PROVE  \A f \in Editors : j \notin form'[f].images
    BY <1>0, <1>1, <1>2, <2>1 DEF ImagesInv, PostImages
  <2>2. QED
    BY <1>0, <1>1, <1>3, <2>1 DEF ImagesInv, PostImages
<1>7. ASSUME NEW f \in Editors, NEW j \in form'[f].images
      PROVE  /\ \A y \in Posts : j \in post'[y].images => y = form'[f].post /\ form'[f].version # 0
             /\ Hopeful(f)' => j \in files' /\ ~Doomed(j)'
             /\ Hopeful(f)' /\ j \notin post'[form'[f].post].images =>
                  \A g \in Editors \ {f} : j \notin form'[g].images
  <2>1. CASE j = i
    <3>1. f = e
      BY <1>1, <1>5, <1>7, <2>1
    <3>2. QED
      BY <1>0, <1>1, <1>3, <1>5, <2>1, <3>1
  <2>2. CASE j # i
    <3>1. j \in form[f].images /\ form'[f].post = form[f].post /\ form'[f].version = form[f].version
      BY <1>1, <1>2, <1>7, <2>2
    <3>2. \A g \in Editors : j \in form'[g].images => j \in form[g].images
      BY <1>1, <1>2, <2>2
    <3>3. QED
      BY <1>0, <1>1, <1>3, <1>4, <3>1, <3>2 DEF ImagesInv, FormImages
  <2>3. QED
    BY <2>1, <2>2
<1>8. QED
  BY <1>6, <1>7 DEF FormImages

(* An image is taken off a form, or the form is given up. *)
LEMMA TakeOffImages ==
  ASSUME ImagesInv, NEW e \in Editors, NEW i \in Images, TakeOff(e, i)
  PROVE  PostImages' /\ FormImages'
<1>1. /\ UNCHANGED <<post, files, fresh, gone>> /\ i \in form[e].images
      /\ form'[e] = [form[e] EXCEPT !.images = @ \ {i}]
      /\ \A f \in Editors \ {e} : form'[f] = form[f]
      /\ doomed' = [doomed EXCEPT ![e] = IF i \in post[form[e].post].images THEN {} ELSE {i}]
      /\ doomed[e] = {}
  BY DEF TakeOff, ImagesInv, PostTyped, Finished
<1>2. /\ form'[e].post = form[e].post /\ form'[e].version = form[e].version
      /\ form'[e].images = form[e].images \ {i} /\ form[e] # NoForm /\ form'[e] # NoForm
  <2>1. form[e] \in OpenForms
    BY <1>1 DEF ImagesInv, PostTyped, NoForm
  <2>2. QED
    BY PostAssumption, <1>1, <2>1 DEF OpenForms, NoForm, ImagesInv, PostConstants
<1>3. \A j : Doomed(j)' => Doomed(j) \/ (j = i /\ i \notin post[form[e].post].images)
  BY <1>1 DEF Doomed, ImagesInv, PostTyped
<1>4. \A f \in Editors : Hopeful(f)' => Hopeful(f)
  BY <1>1, <1>2 DEF Hopeful
<1>5. i \notin post[form[e].post].images =>
        /\ \A x \in Posts : i \notin post[x].images
        /\ \A f \in Editors \ {e} : Hopeful(f) => i \notin form[f].images
        /\ i \notin fresh
  <2>1. SUFFICES ASSUME i \notin post[form[e].post].images
                 PROVE  /\ \A x \in Posts : i \notin post[x].images
                        /\ \A f \in Editors \ {e} : Hopeful(f) => i \notin form[f].images
                        /\ i \notin fresh
    OBVIOUS
  <2>2. \A x \in Posts : i \notin post[x].images
    BY <1>1, <2>1 DEF ImagesInv, FormImages
  <2>3. ASSUME NEW f \in Editors \ {e}, Hopeful(f), i \in form[f].images
        PROVE  FALSE
    <3>1. i \notin post[form[f].post].images
      BY <2>2, <2>3, RowParts DEF ImagesInv, Hopeful
    <3>2. QED
      BY <1>1, <2>3, <3>1 DEF ImagesInv, FormImages
  <2>4. i \notin fresh
    BY <1>1 DEF ImagesInv, PostImages
  <2>5. QED
    BY <2>2, <2>3, <2>4
<1>6. PostImages'
  <2>1. ASSUME NEW j \in Images, j \in fresh'
        PROVE  \A f \in Editors : j \notin form'[f].images
    BY <1>1, <1>2, <2>1 DEF ImagesInv, PostImages
  <2>2. QED
    BY <1>1, <1>3, <1>5, <2>1 DEF ImagesInv, PostImages
<1>7. ASSUME NEW f \in Editors, NEW j \in form'[f].images
      PROVE  /\ \A y \in Posts : j \in post'[y].images => y = form'[f].post /\ form'[f].version # 0
             /\ Hopeful(f)' => j \in files' /\ ~Doomed(j)'
             /\ Hopeful(f)' /\ j \notin post'[form'[f].post].images =>
                  \A g \in Editors \ {f} : j \notin form'[g].images
  <2>1. j \in form[f].images /\ form'[f].post = form[f].post /\ form'[f].version = form[f].version
        /\ (f = e => j # i)
    BY <1>1, <1>2, <1>7
  <2>2. \A g \in Editors : j \in form'[g].images => j \in form[g].images
    BY <1>1, <1>2
  <2>3. Hopeful(f)' => ~Doomed(j)'
    BY <1>3, <1>4, <1>5, <2>1 DEF ImagesInv, FormImages
  <2>4. QED
    BY <1>1, <1>4, <2>1, <2>2, <2>3 DEF ImagesInv, FormImages
<1>8. QED
  BY <1>6, <1>7 DEF FormImages

LEMMA CancelImages ==
  ASSUME ImagesInv, NEW e \in Editors, CancelForm(e)
  PROVE  PostImages' /\ FormImages'
<1>1. /\ UNCHANGED <<post, files, fresh, doomed, gone>>
      /\ form'[e] = NoForm
      /\ \A f \in Editors \ {e} : form'[f] = form[f]
  BY DEF CancelForm, ImagesInv, PostTyped
<1>2. \A f \in Editors : Hopeful(f)' => Hopeful(f)
  BY <1>1 DEF Hopeful
<1>0. ASSUME NEW f \in Editors, NEW j, j \in form'[f].images
      PROVE  j \in form[f].images /\ form'[f] = form[f]
  <2>1. NoForm.images = {}
    BY DEF NoForm
  <2>2. QED
    BY <1>0, <1>1, <2>1
<1>3. \A j : Doomed(j)' <=> Doomed(j)
  BY <1>1 DEF Doomed
<1>4. PostImages'
  <2>1. ASSUME NEW i \in Images, i \in fresh
        PROVE  \A f \in Editors : i \notin form'[f].images
    BY <1>0, <2>1 DEF ImagesInv, PostImages
  <2>2. QED
    BY <1>1, <1>3, <2>1 DEF ImagesInv, PostImages
<1>5. ASSUME NEW f \in Editors, NEW i \in form'[f].images
      PROVE  /\ \A y \in Posts : i \in post'[y].images => y = form'[f].post /\ form'[f].version # 0
             /\ Hopeful(f)' => i \in files' /\ ~Doomed(i)'
             /\ Hopeful(f)' /\ i \notin post'[form'[f].post].images =>
                  \A g \in Editors \ {f} : i \notin form'[g].images
  <2>1. i \in form[f].images /\ form'[f] = form[f]
    BY <1>0, <1>5
  <2>2. \A g \in Editors : i \in form'[g].images => i \in form[g].images
    BY <1>0
  <2>3. QED
    BY <1>1, <1>2, <1>3, <2>1, <2>2 DEF ImagesInv, FormImages
<1>6. QED
  BY <1>4, <1>5 DEF FormImages

(* What is looked at, and deleted, after an announcement has been written.  *)
LEMMA CheckImages ==
  ASSUME ImagesInv, NEW e \in Editors, NEW i \in Images,
         Check(e, i) \/ DeleteImage(e, i)
  PROVE  PostImages' /\ FormImages'
<1>1. UNCHANGED <<post, fresh, form>>
  BY DEF Check, DeleteImage
<1>2. \A j : Doomed(j)' => Doomed(j)
  BY DEF Doomed, Check, DeleteImage, ImagesInv, PostTyped
<1>3. \A j \in files : ~Doomed(j) => j \in files'
  BY DEF Doomed, Check, DeleteImage
<1>4. \A f \in Editors : Hopeful(f)' <=> Hopeful(f)
  BY <1>1 DEF Hopeful
<1>5. PostImages'
  BY <1>1, <1>2, <1>3 DEF ImagesInv, PostImages
<1>6. FormImages'
  BY <1>1, <1>2, <1>3, <1>4 DEF ImagesInv, FormImages
<1>7. QED
  BY <1>5, <1>6

(* The version of an announcement changes, and its images perhaps: a form   *)
(* opened before cannot be saved any more.                                  *)
LEMMA ManualImages ==
  ASSUME ImagesInv, EnsureManual
  PROVE  PostImages' /\ FormImages'
<1>1. /\ UNCHANGED <<files, fresh, form, doomed, gone>>
      /\ \A x \in Posts : post'[x].images = post[x].images
      /\ \A x \in Posts : post'[x].version \in {post[x].version, Newest + 1}
  <2>1. post[Manual] \in Row \cup {NoRow}
    BY RowParts DEF ImagesInv, PostTyped
  <2>2. QED
    BY <2>1 DEF EnsureManual, ImagesInv, PostTyped, Row, NoRow
<1>2. \A f \in Editors : Hopeful(f)' => Hopeful(f)
  BY <1>1, NewestVersion, RowParts DEF Hopeful, ImagesInv
<1>3. \A j : Doomed(j)' <=> Doomed(j)
  BY <1>1 DEF Doomed
<1>4. PostImages'
  BY <1>1, <1>3 DEF ImagesInv, PostImages
<1>5. \A f \in Editors : Hopeful(f) => form[f].post \in Posts
  BY RowParts DEF Hopeful, ImagesInv
<1>6. FormImages'
  BY <1>1, <1>2, <1>3, <1>5 DEF ImagesInv, FormImages
<1>7. QED
  BY <1>4, <1>6

LEMMA DeleteImages ==
  ASSUME ImagesInv, NEW e \in Editors, NEW x \in Posts, DeletePost(e, x)
  PROVE  PostImages' /\ FormImages'
<1>1. /\ UNCHANGED <<files, fresh, form, gone>>
      /\ post'[x] = NoRow /\ post[x].version # 0
      /\ \A y \in Posts \ {x} : post'[y] = post[y]
      /\ \A j : Doomed(j)' => Doomed(j) \/ j \in post[x].images
  BY DEF DeletePost, Exists, Doomed, ImagesInv, PostTyped
<1>2. \A y \in Posts : \A j \in post'[y].images : j \in post[y].images /\ y # x
  BY <1>1 DEF NoRow
<1>3. \A f \in Editors : Hopeful(f)' =>
        /\ Hopeful(f) /\ form[f].post \in Posts
        /\ form[f].post = x => form[f].version = 0
  <2>1. \A f \in Editors : form[f] # NoForm => form[f].post \in Posts
    BY RowParts DEF ImagesInv
  <2>2. QED
    BY <1>1, <2>1 DEF Hopeful, NoRow
<1>4. ASSUME NEW f \in Editors, Hopeful(f)', NEW i \in form[f].images
      PROVE  i \notin post[x].images /\ ~Doomed(i)'
             /\ (i \in post[form[f].post].images => i \in post'[form[f].post].images)
  <2>1. i \notin post[x].images
    BY <1>3, <1>4 DEF ImagesInv, FormImages
  <2>2. ~Doomed(i)
    BY <1>3, <1>4 DEF ImagesInv, FormImages
  <2>3. QED
    BY <1>1, <1>3, <1>4, <2>1, <2>2
<1>5. PostImages'
  BY <1>1, <1>2 DEF ImagesInv, PostImages
<1>6. FormImages'
  BY <1>1, <1>2, <1>3, <1>4 DEF ImagesInv, FormImages
<1>7. QED
  BY <1>5, <1>6

LEMMA SaveImages ==
  ASSUME FreshForms = TRUE, ImagesInv,
         NEW e \in Editors, NEW published \in BOOLEAN, SavePost(e, published)
  PROVE  PostImages' /\ FormImages'
<1>1. PICK x \in Posts : x = form[e].post
  BY RowParts DEF SavePost, ImagesInv
<1>2. /\ UNCHANGED <<files, fresh, gone>>
      /\ form[e] # NoForm /\ form[e].version = post[x].version
      /\ form'[e] = NoForm /\ \A f \in Editors \ {e} : form'[f] = form[f]
      /\ post'[x].images = form[e].images /\ post'[x].version = Newest + 1
      /\ \A y \in Posts \ {x} : post'[y] = post[y]
      /\ \A j : Doomed(j)' => Doomed(j) \/ (j \in post[x].images /\ j \notin form[e].images)
  BY <1>1 DEF SavePost, Doomed, ImagesInv, PostTyped
<1>3. Hopeful(e)
  BY <1>1, <1>2 DEF Hopeful
<1>4. \A i \in form[e].images :
        /\ i \in Images /\ i \in files /\ ~Doomed(i) /\ i \notin fresh
        /\ \A y \in Posts : i \in post[y].images => y = x
        /\ i \notin post[x].images => \A f \in Editors \ {e} : i \notin form[f].images
  <2>1. \A i \in form[e].images : i \in Images
    BY RowParts DEF ImagesInv
  <2>2. QED
    BY <1>1, <1>3, <2>1 DEF ImagesInv, FormImages, PostImages
<1>5. PostImages'
  <2>1. ASSUME NEW i \in Images, NEW y \in Posts, i \in post'[y].images
        PROVE  i \in files' /\ ~Doomed(i)'
    <3>1. CASE y = x
      BY <1>2, <1>4, <2>1, <3>1
    <3>2. CASE y # x
      <4>1. i \in post[y].images
        BY <1>2, <2>1, <3>2
      <4>2. i \notin post[x].images
        BY <3>2, <4>1 DEF ImagesInv, PostImages
      <4>3. QED
        BY <1>2, <4>1, <4>2 DEF ImagesInv, PostImages
    <3>3. QED
      BY <3>1, <3>2
  <2>2. ASSUME NEW i \in Images, NEW y \in Posts, NEW z \in Posts,
               i \in post'[y].images, i \in post'[z].images
        PROVE  y = z
    BY <1>2, <1>4, <2>2 DEF ImagesInv, PostImages
  <2>3. ASSUME NEW i \in Images, i \in fresh'
        PROVE  /\ ~Doomed(i)'
               /\ \A y \in Posts : i \notin post'[y].images
               /\ \A f \in Editors : i \notin form'[f].images
    <3>1. /\ ~Doomed(i)
          /\ \A y \in Posts : i \notin post[y].images
          /\ \A f \in Editors : i \notin form[f].images
      BY <1>2, <2>3 DEF ImagesInv, PostImages
    <3>2. QED
      BY <1>2, <3>1 DEF NoForm
  <2>4. QED
    BY <2>1, <2>2, <2>3 DEF PostImages
<1>6. ASSUME NEW f \in Editors, NEW i \in form'[f].images
      PROVE  /\ f # e /\ form'[f] = form[f] /\ i \in form[f].images /\ i \in Images
             /\ \A y \in Posts : i \in post'[y].images => i \in post[y].images
  <2>1. f # e /\ form'[f] = form[f] /\ i \in form[f].images
    BY <1>2, <1>6 DEF NoForm
  <2>2. i \in Images
    BY <2>1, RowParts DEF ImagesInv
  <2>3. QED
    BY <1>2, <1>4, <2>1, <2>2
<1>7. ASSUME NEW f \in Editors, Hopeful(f)'
      PROVE  /\ f # e /\ Hopeful(f) /\ form'[f] = form[f] /\ form[f].post \in Posts
             /\ form[f].post = x => form[f].version = 0
  <2>1. f # e /\ form'[f] = form[f] /\ form[f] # NoForm
    BY <1>2, <1>7 DEF Hopeful
  <2>2. form[f].post \in Posts /\ form[f].version <= Newest /\ form[f].version \in Nat /\ Newest \in Nat
    BY <2>1, NewestVersion, RowParts DEF ImagesInv
  <2>3. QED
    BY <1>2, <1>7, <2>1, <2>2 DEF Hopeful
<1>8. ASSUME NEW f \in Editors, Hopeful(f)', NEW i \in form'[f].images
      PROVE  /\ i \notin post[x].images /\ i \in files' /\ ~Doomed(i)'
             /\ i \in post[form[f].post].images => i \in post'[form[f].post].images
  <2>1. i \notin post[x].images
    BY <1>6, <1>7, <1>8 DEF ImagesInv, FormImages
  <2>2. i \in files /\ ~Doomed(i)
    BY <1>6, <1>7, <1>8 DEF ImagesInv, FormImages
  <2>3. QED
    BY <1>2, <1>7, <1>8, <2>1, <2>2
<1>9. FormImages'
  BY <1>2, <1>6, <1>7, <1>8 DEF ImagesInv, FormImages
<1>10. QED
  BY <1>5, <1>9

LEMMA ImagesHold ==
  ASSUME FreshForms = TRUE
  PROVE  PostSpec => []ImagesInv
<1>1. PostInit => ImagesInv
  <2> SUFFICES ASSUME PostInit
               PROVE  ImagesInv
    OBVIOUS
  <2>1. PostTyped
    BY InitPosts
  <2>2. PostImages /\ FormImages
    BY DEF PostInit, PostImages, FormImages, Doomed, NoForm, NoRow
  <2>3. QED
    BY <2>1, <2>2 DEF ImagesInv
<1>2. ImagesInv /\ [PostNext]_postVars => ImagesInv'
  <2> SUFFICES ASSUME ImagesInv, [PostNext]_postVars
               PROVE  ImagesInv'
    OBVIOUS
  <2>1. PostTyped'
    BY PostTyping DEF ImagesInv
  <2>2. CASE \/ UNCHANGED postVars
             \/ \E u \in Readers : Show(u) \/ MarkRead(u)
    <3>1. UNCHANGED <<post, files, fresh, form, doomed, gone>>
      BY <2>2 DEF postVars, Show, MarkRead
    <3>2. PostImages' /\ FormImages'
      BY <3>1 DEF ImagesInv, PostImages, FormImages, Doomed, Hopeful
    <3>3. QED
      BY <2>1, <3>2 DEF ImagesInv
  <2>3. CASE EnsureManual
    BY <2>1, <2>3, ManualImages DEF ImagesInv
  <2>4. ASSUME NEW e \in Editors,
               \/ SaveImage(e) \/ CancelForm(e)
               \/ \E published \in BOOLEAN : SavePost(e, published)
               \/ \E x \in Posts : Open(e, x) \/ DeletePost(e, x)
               \/ \E i \in Images : TakeOff(e, i) \/ Check(e, i) \/ DeleteImage(e, i)
        PROVE  ImagesInv'
    <3>1. PostImages' /\ FormImages'
      BY <2>4, UploadImages, CancelImages, SaveImages, OpenImages, DeleteImages, TakeOffImages, CheckImages
    <3>2. QED
      BY <2>1, <3>1 DEF ImagesInv
  <2>5. QED
    BY <2>2, <2>3, <2>4 DEF PostNext
<1>3. QED
  BY <1>1, <1>2, PTL DEF PostSpec

(* delete_unreferenced_announcement_image: if a form is saved only while    *)
(* its announcement is as it was when the form was opened, the images of    *)
(* every announcement are there, over drafts given up, edits of several     *)
(* administrators and deletions that come late.                             *)
THEOREM ImagesStay ==
  ASSUME FreshForms = TRUE
  PROVE  PostSpec => []ImagesThere
<1>1. ImagesInv => ImagesThere
  <2>1. ASSUME ImagesInv, NEW x \in Posts, NEW i \in post[x].images
        PROVE  i \in files
    <3>1. i \in Images
      BY <2>1, RowParts DEF ImagesInv
    <3>2. QED
      BY <2>1, <3>1 DEF ImagesInv, PostImages
  <2>2. QED
    BY <2>1 DEF ImagesThere
<1>2. QED
  BY <1>1, ImagesHold, PTL

-----------------------------------------------------------------------------
(* What is marked as read is published, and is what was shown. *)
ReadInv ==
  \A r \in reads : /\ post[r[1]].version # 0 /\ post[r[1]].published
                   /\ view[r[2]][r[1]] = post[r[1]].version

(* update_announcement, mark_announcements_read: if a list is marked as     *)
(* read only while it is as it was shown, what a user has read is the       *)
(* present text of an announcement: every change makes it unread again.     *)
THEOREM ReadIsShown ==
  ASSUME PromptReads = TRUE
  PROVE  PostSpec => []ReadMeansShown
<1>1. PostInit => PostTyped /\ ReadInv
  BY InitPosts DEF PostInit, ReadInv
<1>2. PostTyped /\ ReadInv /\ [PostNext]_postVars => (PostTyped /\ ReadInv)'
  <2> SUFFICES ASSUME PostTyped, ReadInv, [PostNext]_postVars
               PROVE  (PostTyped /\ ReadInv)'
    OBVIOUS
  <2>1. PostTyped'
    BY PostTyping
  <2>2. ASSUME NEW x \in Posts, UNCHANGED view, reads' \in SUBSET ReadsOfOthers(x),
               \A y \in Posts \ {x} : post'[y] = post[y]
        PROVE  ReadInv'
    <3>1. \A r \in reads : r[1] \in Posts
      BY DEF PostTyped
    <3>2. QED
      BY <2>2, <3>1 DEF ReadInv, ReadsOfOthers
  <2>3. CASE EnsureManual
    <3>1. \A y \in Posts \ {Manual} : post'[y] = post[y]
      BY <2>3 DEF EnsureManual, PostTyped
    <3>2. QED
      BY <2>1, <2>2, <2>3, <3>1, RowParts DEF EnsureManual
  <2>4. ASSUME NEW e \in Editors, NEW published \in BOOLEAN, SavePost(e, published)
        PROVE  ReadInv'
    <3>1. form[e].post \in Posts
      BY <2>4, RowParts DEF SavePost
    <3>2. \A y \in Posts \ {form[e].post} : post'[y] = post[y]
      BY <2>4 DEF SavePost, PostTyped
    <3>3. QED
      BY <2>2, <2>4, <3>1, <3>2 DEF SavePost
  <2>5. ASSUME NEW e \in Editors, NEW x \in Posts, DeletePost(e, x)
        PROVE  ReadInv'
    <3>1. \A y \in Posts \ {x} : post'[y] = post[y]
      BY <2>5 DEF DeletePost, PostTyped
    <3>2. reads' = ReadsOfOthers(x)
      BY <2>5 DEF DeletePost, ReadsOfOthers
    <3>3. QED
      BY <2>2, <2>5, <3>1, <3>2 DEF DeletePost
  <2>6. ASSUME NEW u \in Readers, Show(u)
        PROVE  ReadInv'
    <3>1. \A r \in reads : r[1] \in Posts /\ r[2] \in Readers
      BY DEF PostTyped
    <3>2. QED
      BY <2>6, <3>1 DEF Show, ReadInv, PostTyped
  <2>7. ASSUME NEW u \in Readers, MarkRead(u)
        PROVE  ReadInv'
    <3> DEFINE marked == {x \in Posts : view[u][x] # 0 /\ post[x].published}
    <3>1. reads' = reads \cup (marked \X {u}) /\ UNCHANGED <<post, view>>
          /\ \A x \in marked : view[u][x] = post[x].version
      BY <2>7 DEF MarkRead
    <3>2. ASSUME NEW r \in marked \X {u}
          PROVE  /\ post[r[1]].version # 0 /\ post[r[1]].published
                 /\ view[r[2]][r[1]] = post[r[1]].version
      BY <3>1, <3>2
    <3> HIDE DEF marked
    <3>3. QED
      BY <3>1, <3>2 DEF ReadInv
  <2>8. CASE UNCHANGED <<post, reads, view>>
    BY <2>1, <2>8 DEF ReadInv
  <2>9. QED
    BY <2>1, <2>3, <2>4, <2>5, <2>6, <2>7, <2>8
      DEF PostNext, postVars, SaveImage, CancelForm, Open, TakeOff, Check, DeleteImage
<1>3. ReadInv => ReadMeansShown
  BY DEF ReadInv, ReadMeansShown, Exists
<1>4. QED
  BY <1>1, <1>2, <1>3, PTL DEF PostSpec

(* Every variable of the announcements holds values of its kind.            *)
THEOREM PostsTyped == PostSpec => []PostTypeOK
<1>1. PostInit => PostTyped
  BY InitPosts
<1>2. PostTyped /\ [PostNext]_postVars => PostTyped'
  BY PostTyping
<1>3. PostTyped => PostTypeOK
  <2> SUFFICES ASSUME PostTyped PROVE PostTypeOK
    OBVIOUS
  <2>1. \A e \in Editors : form[e].images \cup doomed[e] \cup gone[e] \subseteq Images
    BY RowParts DEF PostTyped
  <2>2. QED
    BY <2>1 DEF PostTyped, PostTypeOK
<1>4. QED
  BY <1>1, <1>2, <1>3, PTL DEF PostSpec

-----------------------------------------------------------------------------
(* Upkeep: what the rows may hold. *)
JobNames == {"sync", "create", "record", "unlisted", "clean", "save", "save own", "view",
             "view own", "unlisted now", "clean now"}
TimesRows == [there : BOOLEAN, choice : [Jobs -> {"on", "off"}], next : [Jobs -> 0..MaxClock + 1]]
OwnRows == [there : BOOLEAN, choice : {"on", "off"}, next : 0..MaxClock + 1]
RecRows == {r \in [state : {"absent", "pending", "queued", "failed"}, task : CleanTasks \cup {NoTask}] :
              r.state = "queued" => r.task \in CleanTasks}
TaskRows == {t \in [state : {"none", "queued", "running", "ended"}, recs : SUBSET Records,
                    have : SUBSET Records] : t.have \subseteq t.recs}
DataRows == [times : TimesRows, own : OwnRows, rec : [Records -> RecRows], task : [CleanTasks -> TaskRows]]
Transactions == [job : JobNames, at : 0..MaxClock, d : DataRows]

UpkeepTyped ==
  /\ data \in DataRows
  /\ clock \in 0..MaxClock /\ since \in 0..MaxClock /\ looked \in 0..MaxClock
  /\ tx \in [UpkeepProcs -> {NoTx} \cup Transactions]
  /\ saved \in [Jobs -> {"on", "off"}]
  /\ served \in [Jobs -> [1..MaxClock -> Nat]]
  /\ retried \in SUBSET Records

LEMMA LoadedTyped ==
  ASSUME NEW own \in OwnRows, NEW at \in 0..MaxClock
  PROVE  /\ Loaded(own, at) \in OwnRows /\ Loaded(own, at).there
         /\ Loaded(own, at).choice = own.choice
         /\ Loaded(own, at).next = IF own.next = 0 THEN at + 1 ELSE own.next
<1>1. MaxClock \in Nat /\ at + 1 \in 0..MaxClock + 1
  BY UpkeepAssumption DEF UpkeepConstants
<1>2. QED
  BY <1>1 DEF OwnRows, Loaded

LEMMA TimesTyped ==
  ASSUME NEW d \in DataRows, NEW at \in 0..MaxClock
  PROVE  /\ Times(d, at) \in TimesRows /\ Times(d, at).there
         /\ Loaded(d.own, at) \in OwnRows
         /\ d.times.there => Times(d, at) = d.times
         /\ ~d.times.there => \A j \in Jobs : Times(d, at).choice[j] = IF j = "images" THEN d.own.choice ELSE "on"
         /\ ~d.times.there => \A j \in Jobs : Times(d, at).next[j] =
              IF j = "images" /\ d.own.there THEN Loaded(d.own, at).next ELSE at + 1
<1>1. MaxClock \in Nat /\ at + 1 \in 0..MaxClock + 1
  BY UpkeepAssumption DEF UpkeepConstants
<1>2. Loaded(d.own, at) \in OwnRows
  BY <1>1 DEF DataRows, OwnRows, Loaded
<1>3. CASE d.times.there
  BY <1>2, <1>3 DEF Times, DataRows
<1>4. CASE ~d.times.there
  <2> DEFINE choice == [NoTimes.choice EXCEPT !["images"] = d.own.choice]
             next == [[j \in Jobs |-> at + 1] EXCEPT
                        !["images"] = IF d.own.there THEN Loaded(d.own, at).next ELSE @]
  <2>1. NoTimes.choice = [j \in Jobs |-> "on"]
    BY DEF NoTimes
  <2>2. choice \in [Jobs -> {"on", "off"}]
        /\ \A j \in Jobs : choice[j] = IF j = "images" THEN d.own.choice ELSE "on"
    BY <2>1 DEF DataRows, OwnRows
  <2>3. next \in [Jobs -> 0..MaxClock + 1]
        /\ \A j \in Jobs : next[j] =
             IF j = "images" /\ d.own.there THEN Loaded(d.own, at).next ELSE at + 1
    BY <1>1, <1>2 DEF OwnRows
  <2>4. Times(d, at) = [there |-> TRUE, choice |-> choice, next |-> next]
    BY <1>4 DEF Times
  <2> HIDE DEF choice, next
  <2>5. QED
    BY <1>2, <1>4, <2>2, <2>3, <2>4 DEF TimesRows
<1>5. d.times.there \in BOOLEAN
  BY DEF DataRows, TimesRows
<1>6. QED
  BY <1>3, <1>4, <1>5

(* What each transaction makes of the rows it has read. *)
LEMMA SavedTyped ==
  ASSUME NEW d \in DataRows, NEW at \in 0..MaxClock, NEW choice \in [Jobs -> Choices],
         NEW c \in Choices
  PROVE  SavedTimes(d, choice, at) \in DataRows /\ SavedOwn(d, c, at) \in DataRows
<1>1. /\ MaxClock \in Nat /\ at + 1 \in 0..MaxClock + 1
      /\ choice \in [Jobs -> {"on", "off"}] /\ choice["images"] \in {"on", "off"} /\ c \in {"on", "off"}
  <2>1. MaxClock \in Nat /\ at + 1 \in 0..MaxClock + 1 /\ c \in {"on", "off"} /\ "images" \in Jobs
    BY UpkeepAssumption DEF UpkeepConstants, Jobs
  <2>2. \A j \in Jobs : choice[j] \in {"on", "off"}
    BY UpkeepAssumption DEF UpkeepConstants
  <2>3. QED
    BY <2>1, <2>2
<1>2. Times(d, at) \in TimesRows
  BY TimesTyped
<1>3. SavedTimes(d, choice, at) \in DataRows
  <2>1. [j \in Jobs |-> IF j = "unlisted" THEN Times(d, at).next[j] ELSE at + 1]
          \in [Jobs -> 0..MaxClock + 1]
    BY <1>1, <1>2 DEF TimesRows
  <2>2. [there |-> TRUE, choice |-> choice,
         next |-> [j \in Jobs |-> IF j = "unlisted" THEN Times(d, at).next[j] ELSE at + 1]]
          \in TimesRows
    BY <1>1, <2>1 DEF TimesRows
  <2>3. [there |-> TRUE, choice |-> choice["images"], next |-> at + 1] \in OwnRows
    BY <1>1 DEF OwnRows
  <2>4. QED
    BY <2>2, <2>3 DEF SavedTimes, DataRows
<1>4. SavedOwn(d, c, at) \in DataRows
  <2>1. [Times(d, at) EXCEPT !.choice["images"] = c, !.next["images"] = at + 1] \in TimesRows
    BY <1>1, <1>2 DEF TimesRows, Jobs
  <2>2. [there |-> TRUE, choice |-> c, next |-> at + 1] \in OwnRows
    BY <1>1 DEF OwnRows
  <2>3. QED
    BY <2>1, <2>2 DEF SavedOwn, DataRows
<1>5. QED
  BY <1>3, <1>4

LEMMA ViewedTyped ==
  ASSUME NEW d \in DataRows, NEW at \in 0..MaxClock, NEW j \in Jobs
  PROVE  /\ Viewed(d, at) \in DataRows /\ ViewedOwn(d, at) \in DataRows
         /\ Served(d, j, at) \in DataRows /\ NotDue(d) \in DataRows
<1>1. MaxClock \in Nat /\ at + 1 \in 0..MaxClock + 1
  BY UpkeepAssumption DEF UpkeepConstants
<1>2. Times(d, at) \in TimesRows
  BY TimesTyped
<1>3. Viewed(d, at) \in DataRows
  BY <1>2 DEF Viewed, DataRows
<1>4. ViewedOwn(d, at) \in DataRows
  BY <1>1 DEF ViewedOwn, DataRows, Loaded, NoOwn, OwnRows
<1>5. Served(d, j, at) \in DataRows
  <2>1. Advanced(Times(d, at), j, at) \in TimesRows
    BY <1>1, <1>2 DEF Advanced, TimesRows
  <2>2. QED
    BY <2>1 DEF Served, DataRows
<1>6. NotDue(d) \in DataRows
  BY DEF NotDue, DataRows, OwnRows
<1>7. QED
  BY <1>3, <1>4, <1>5, <1>6

LEMMA CleanedTyped ==
  ASSUME NEW d \in DataRows, NEW at \in 0..MaxClock, NEW t \in CleanTasks
  PROVE  Cleaned(d, t, at) \in DataRows
<1>1. MaxClock \in Nat /\ at + 1 \in 0..MaxClock + 1
  BY UpkeepAssumption DEF UpkeepConstants
<1>2. [Loaded(d.own, at) EXCEPT !.next = at + 1] \in OwnRows
  BY <1>1, TimesTyped DEF OwnRows
<1>3. Takeable(d) \in SUBSET Records
  BY DEF Takeable
<1>4. NewTask(Takeable(d)) \in TaskRows
  BY <1>3 DEF NewTask, TaskRows
<1>5. \A r \in Records : [d.rec[r] EXCEPT !.state = "queued", !.task = t] \in RecRows
  BY DEF DataRows, RecRows
<1>6. QED
  BY <1>2, <1>3, <1>4, <1>5 DEF Cleaned, DataRows

LEMMA CommitTyped ==
  ASSUME UpkeepTyped, NEW p \in UpkeepProcs, tx[p] \in Transactions, NEW new \in DataRows, Commit(p, new)
  PROVE  data' \in DataRows /\ tx' \in [UpkeepProcs -> {NoTx} \cup Transactions]
<1>1. tx[p].d \in DataRows
  BY DEF Transactions
<1>2. Merge(tx[p].d, new) \in DataRows
  <2>1. /\ Put(new.times, tx[p].d.times, data.times) \in TimesRows
        /\ Put(new.own, tx[p].d.own, data.own) \in OwnRows
        /\ \A r \in Records : Put(new.rec[r], tx[p].d.rec[r], data.rec[r]) \in RecRows
        /\ \A t \in CleanTasks : Put(new.task[t], tx[p].d.task[t], data.task[t]) \in TaskRows
    BY DEF UpkeepTyped, DataRows, Put
  <2>2. QED
    BY <2>1 DEF Merge, DataRows
<1>3. QED
  BY <1>2 DEF Commit, UpkeepTyped

LEMMA InTransaction ==
  ASSUME UpkeepTyped, NEW p \in UpkeepProcs, tx[p].job # "none"
  PROVE  tx[p] \in Transactions /\ tx[p].d \in DataRows /\ tx[p].at \in 0..MaxClock
  BY DEF UpkeepTyped, NoTx, Transactions

LEMMA CountTyped ==
  ASSUME UpkeepTyped, NEW j \in Jobs, NEW n, Count(j, n)
  PROVE  served' \in [Jobs -> [1..MaxClock -> Nat]]
<1>1. [served[j] EXCEPT ![n] = @ + 1] \in [1..MaxClock -> Nat]
  <2>1. PICK f \in [1..MaxClock -> Nat] : f = served[j]
    BY DEF UpkeepTyped
  <2>2. [f EXCEPT ![n] = f[n] + 1] \in [1..MaxClock -> Nat]
    <3>1. CASE n \in 1..MaxClock
      BY <3>1
    <3>2. CASE n \notin 1..MaxClock
      BY <3>2
    <3>3. QED
      BY <3>1, <3>2
  <2>3. QED
    BY <2>1, <2>2
<1>2. served' = [served EXCEPT ![j] = [served[j] EXCEPT ![n] = @ + 1]]
  BY DEF Count
<1>3. QED
  BY <1>1, <1>2 DEF UpkeepTyped

LEMMA UpkeepInitTyped == UpkeepInit => UpkeepTyped
<1>1. SUFFICES ASSUME UpkeepInit PROVE UpkeepTyped
  OBVIOUS
<1>2. MaxClock \in Nat /\ 1 \in 0..MaxClock + 1 /\ 0 \in 0..MaxClock /\ 0 \in 0..MaxClock + 1
  BY UpkeepAssumption DEF UpkeepConstants
<1>3. NoTimes \in TimesRows /\ [NoTimes EXCEPT !.there = TRUE, !.next = [j \in Jobs |-> 1]] \in TimesRows
  BY <1>2 DEF NoTimes, TimesRows
<1>4. NoOwn \in OwnRows /\ Loaded(NoOwn, 0) \in OwnRows
  <2>1. NoOwn \in OwnRows
    BY <1>2 DEF NoOwn, OwnRows
  <2>2. QED
    BY <1>2, <2>1, LoadedTyped
<1>5. data \in DataRows
  <2>1. [r \in Records |-> [state |-> "absent", task |-> NoTask]] \in [Records -> RecRows]
    BY DEF RecRows
  <2>2. [t \in CleanTasks |-> [state |-> "none", recs |-> {}, have |-> {}]] \in [CleanTasks -> TaskRows]
    BY DEF TaskRows
  <2>3. PICK times \in {NoTimes, [NoTimes EXCEPT !.there = TRUE, !.next = [j \in Jobs |-> 1]]} :
          data = [times |-> times,
                  own |-> IF RowFirst THEN Loaded(NoOwn, 0) ELSE NoOwn,
                  rec |-> [r \in Records |-> [state |-> "absent", task |-> NoTask]],
                  task |-> [t \in CleanTasks |-> [state |-> "none", recs |-> {}, have |-> {}]]]
    BY <1>1 DEF UpkeepInit
  <2>4. times \in TimesRows /\ (IF RowFirst THEN Loaded(NoOwn, 0) ELSE NoOwn) \in OwnRows
    BY <1>3, <1>4, <2>3
  <2>5. QED
    BY <2>1, <2>2, <2>3, <2>4 DEF DataRows
<1>6. NoTimes.choice \in [Jobs -> {"on", "off"}]
  BY DEF NoTimes
<1>7. /\ clock = 0 /\ since = 0 /\ looked = 0 /\ retried = {} /\ saved = NoTimes.choice
      /\ tx = [p \in UpkeepProcs |-> NoTx]
      /\ served = [j \in Jobs |-> [n \in 1..MaxClock |-> 0]]
  BY <1>1 DEF UpkeepInit
<1>8. QED
  BY <1>2, <1>5, <1>6, <1>7 DEF UpkeepTyped

LEMMA UpkeepTyping ==
  ASSUME UpkeepTyped, [UpkeepNext]_upkeepVars
  PROVE  UpkeepTyped'
<1>0. MaxClock \in Nat
  BY UpkeepAssumption DEF UpkeepConstants
<1>1. ASSUME NEW p \in UpkeepProcs, NEW job \in JobNames, BeginTx(p, job)
      PROVE  UpkeepTyped'
  <2>1. [job |-> job, at |-> clock, d |-> data] \in Transactions
    BY <1>1 DEF UpkeepTyped, Transactions
  <2>2. QED
    BY <1>1, <2>1 DEF BeginTx, UpkeepTyped
<1>2. ASSUME NEW p \in UpkeepProcs, NEW choice \in [Jobs -> Choices], SaveTimes(p, choice)
      PROVE  UpkeepTyped'
  <2>1. tx[p] \in Transactions /\ tx[p].d \in DataRows /\ tx[p].at \in 0..MaxClock
    BY <1>2, InTransaction DEF SaveTimes, At
  <2>2. SavedTimes(tx[p].d, choice, tx[p].at) \in DataRows
    BY <2>1, SavedTyped DEF Jobs
  <2>3. choice \in [Jobs -> {"on", "off"}]
    <3>1. \A j \in Jobs : choice[j] \in {"on", "off"}
      BY UpkeepAssumption DEF UpkeepConstants
    <3>2. QED
      BY <3>1
  <2>4. QED
    BY <1>2, <2>1, <2>2, <2>3, CommitTyped DEF SaveTimes, UpkeepTyped
<1>3. ASSUME NEW p \in UpkeepProcs, NEW c \in Choices, SaveOwn(p, c)
      PROVE  UpkeepTyped'
  <2>1. tx[p] \in Transactions /\ tx[p].d \in DataRows /\ tx[p].at \in 0..MaxClock
    BY <1>3, InTransaction DEF SaveOwn, At
  <2>2. SavedOwn(tx[p].d, c, tx[p].at) \in DataRows
    <3>1. [j \in Jobs |-> c] \in [Jobs -> Choices]
      OBVIOUS
    <3>2. QED
      BY <2>1, <3>1, SavedTyped
  <2>3. c \in {"on", "off"}
    BY UpkeepAssumption DEF UpkeepConstants
  <2>4. QED
    BY <1>3, <2>1, <2>2, <2>3, CommitTyped DEF SaveOwn, UpkeepTyped
<1>4. ASSUME NEW p \in UpkeepProcs, View(p) \/ ViewOwn(p) \/ UnlistedNow(p) \/ Unlisted(p) \/ CleanNotDue(p)
      PROVE  UpkeepTyped'
  <2>1. tx[p] \in Transactions /\ tx[p].d \in DataRows /\ tx[p].at \in 0..MaxClock
    BY <1>4, InTransaction DEF View, ViewOwn, UnlistedNow, Unlisted, CleanNotDue, At
  <2>2. /\ Viewed(tx[p].d, tx[p].at) \in DataRows /\ ViewedOwn(tx[p].d, tx[p].at) \in DataRows
        /\ Served(tx[p].d, "unlisted", tx[p].at) \in DataRows /\ NotDue(tx[p].d) \in DataRows
    BY <2>1, ViewedTyped DEF Jobs
  <2>3. data' \in DataRows /\ tx' \in [UpkeepProcs -> {NoTx} \cup Transactions]
    BY <1>4, <2>1, <2>2, CommitTyped DEF View, ViewOwn, UnlistedNow, Unlisted, CleanNotDue
  <2>4. served' \in [Jobs -> [1..MaxClock -> Nat]]
    BY <1>4, CountTyped DEF View, ViewOwn, UnlistedNow, Unlisted, CleanNotDue, UpkeepTyped, Jobs
  <2>5. QED
    BY <1>4, <2>1, <2>3, <2>4 DEF View, ViewOwn, UnlistedNow, Unlisted, CleanNotDue, UpkeepTyped
<1>5. ASSUME NEW p \in UpkeepProcs, SyncDue(p)
      PROVE  UpkeepTyped'
  <2>1. tx[p] \in Transactions /\ tx[p].d \in DataRows /\ tx[p].at \in 0..MaxClock
    BY <1>5, InTransaction DEF SyncDue, At
  <2> DEFINE new == IF TimeDue(tx[p].d, "sync", tx[p].at) THEN Served(tx[p].d, "sync", tx[p].at)
                    ELSE Viewed(tx[p].d, tx[p].at)
  <2>2. new \in DataRows
    BY <2>1, ViewedTyped DEF Jobs
  <2>3. [job |-> "create", at |-> tx[p].at, d |-> tx[p].d] \in Transactions
    BY <2>1 DEF Transactions, JobNames
  <2>4. data' = Merge(tx[p].d, new) /\ tx' \in [UpkeepProcs -> {NoTx} \cup Transactions]
    BY <1>5, <2>3 DEF SyncDue, UpkeepTyped
  <2> HIDE DEF new
  <2>5. Merge(tx[p].d, new) \in DataRows
    <3>1. /\ Put(new.times, tx[p].d.times, data.times) \in TimesRows
          /\ Put(new.own, tx[p].d.own, data.own) \in OwnRows
          /\ \A r \in Records : Put(new.rec[r], tx[p].d.rec[r], data.rec[r]) \in RecRows
          /\ \A t \in CleanTasks : Put(new.task[t], tx[p].d.task[t], data.task[t]) \in TaskRows
      BY <2>1, <2>2 DEF UpkeepTyped, DataRows, Put
    <3>2. QED
      BY <3>1 DEF Merge, DataRows
  <2>6. QED
    BY <1>5, <2>4, <2>5 DEF SyncDue, UpkeepTyped
<1>6. ASSUME NEW p \in UpkeepProcs, CreateSyncs(p) \/ Recorded(p)
      PROVE  UpkeepTyped'
  <2>1. tx[p] \in Transactions /\ tx[p].d \in DataRows
    BY <1>6, InTransaction DEF CreateSyncs, Recorded, At
  <2>2. data' \in DataRows
    BY <1>6, <2>1 DEF CreateSyncs, Recorded, UpkeepTyped, DataRows
  <2>3. tx' \in [UpkeepProcs -> {NoTx} \cup Transactions]
    <3>1. [[tx[p] EXCEPT !.job = "record"] EXCEPT !.d = ReadAgain(p)] \in Transactions
      BY <2>1 DEF Transactions, ReadAgain, UpkeepTyped, JobNames
    <3>2. CASE CreateSyncs(p)
      BY <3>1, <3>2 DEF CreateSyncs, UpkeepTyped
    <3>3. CASE Recorded(p)
      BY <3>3 DEF Recorded, UpkeepTyped
    <3>4. QED
      BY <1>6, <3>2, <3>3
  <2>4. served' \in [Jobs -> [1..MaxClock -> Nat]]
    BY <1>6, CountTyped DEF CreateSyncs, Recorded, UpkeepTyped, Jobs
  <2>5. QED
    BY <1>6, <2>2, <2>3, <2>4 DEF CreateSyncs, Recorded, UpkeepTyped
<1>7. ASSUME NEW p \in UpkeepProcs, NEW t \in CleanTasks, Clean(p, t)
      PROVE  UpkeepTyped'
  <2>1. tx[p] \in Transactions /\ tx[p].d \in DataRows /\ tx[p].at \in 0..MaxClock
    BY <1>7, InTransaction DEF Clean
  <2>2. Cleaned(tx[p].d, t, tx[p].at) \in DataRows
    BY <2>1, CleanedTyped
  <2>3. served' \in [Jobs -> [1..MaxClock -> Nat]]
    BY <1>7, CountTyped DEF Clean, UpkeepTyped, Jobs
  <2>4. QED
    BY <1>7, <2>1, <2>2, <2>3, CommitTyped DEF Clean, UpkeepTyped
<1>8. ASSUME NEW p \in UpkeepProcs, Fails(p)
      PROVE  UpkeepTyped'
  BY <1>8 DEF Fails, UpkeepTyped
<1>9. CASE Tick
  BY <1>0, <1>9 DEF Tick, UpkeepTyped
<1>10. ASSUME NEW r \in Records, QueueRecord(r)
       PROVE  UpkeepTyped'
  <2>1. [state |-> "pending", task |-> NoTask] \in RecRows
    BY DEF RecRows
  <2>2. data' \in DataRows
    BY <1>10, <2>1 DEF QueueRecord, UpkeepTyped, DataRows
  <2>3. QED
    BY <1>10, <2>2 DEF QueueRecord, OthersKept, UpkeepTyped
<1>11. ASSUME NEW t \in CleanTasks, StartTask(t) \/ LoseTask(t) \/ RetryTask(t) \/ DeleteTask(t)
       PROVE  UpkeepTyped'
  <2>1. data.task[t] \in TaskRows
    BY DEF UpkeepTyped, DataRows
  <2>2. PICK k \in TaskRows : data' = [data EXCEPT !.task[t] = k]
    <3>1. CASE StartTask(t)
      <4> DEFINE k == [data.task[t] EXCEPT !.state = "running",
                                            !.have = {r \in data.task[t].recs : data.rec[r].state # "absent"}]
      <4>1. k \in TaskRows
        BY <2>1 DEF TaskRows
      <4>2. data' = [data EXCEPT !.task[t] = k]
        BY <3>1, <2>1 DEF StartTask, UpkeepTyped, DataRows, TaskRows
      <4>3. QED
        BY <4>1, <4>2
    <3>2. CASE LoseTask(t)
      <4> DEFINE k == [data.task[t] EXCEPT !.state = "ended", !.have = {}]
      <4>1. k \in TaskRows
        BY <2>1 DEF TaskRows
      <4>2. data' = [data EXCEPT !.task[t] = k]
        BY <3>2, <2>1 DEF LoseTask, UpkeepTyped, DataRows, TaskRows
      <4>3. QED
        BY <4>1, <4>2
    <3>3. CASE RetryTask(t)
      <4> DEFINE k == [data.task[t] EXCEPT !.state = "queued"]
      <4>1. k \in TaskRows
        BY <2>1 DEF TaskRows
      <4>2. data' = [data EXCEPT !.task[t] = k]
        BY <3>3, <2>1 DEF RetryTask, UpkeepTyped, DataRows, TaskRows
      <4>3. QED
        BY <4>1, <4>2
    <3>4. CASE DeleteTask(t)
      <4>1. [state |-> "none", recs |-> {}, have |-> {}] \in TaskRows
        BY DEF TaskRows
      <4>2. QED
        BY <3>4, <4>1 DEF DeleteTask
    <3>5. QED
      BY <1>11, <3>1, <3>2, <3>3, <3>4
  <2>3. retried' \in SUBSET Records
    BY <1>11, <2>1 DEF StartTask, LoseTask, RetryTask, DeleteTask, OthersKept, UpkeepTyped, TaskRows
  <2>4. data' \in DataRows
    BY <2>2 DEF UpkeepTyped, DataRows
  <2>5. QED
    BY <1>11, <2>3, <2>4 DEF StartTask, LoseTask, RetryTask, DeleteTask, OthersKept, UpkeepTyped
<1>12. ASSUME NEW t \in CleanTasks, NEW done \in SUBSET Records, NEW left \in SUBSET Records,
              EndTask(t, done, left)
       PROVE  UpkeepTyped'
  <2>1. data.task[t] \in TaskRows
    BY DEF UpkeepTyped, DataRows
  <2>2. Performed(t, done, left) \in [Records -> RecRows]
    BY DEF Performed, UpkeepTyped, DataRows, RecRows
  <2>3. [state |-> "ended", recs |-> data.task[t].recs \ done, have |-> {}] \in TaskRows
    BY <2>1 DEF TaskRows
  <2>4. data' \in DataRows
    BY <1>12, <2>2, <2>3 DEF EndTask, UpkeepTyped, DataRows
  <2>5. QED
    BY <1>12, <2>4 DEF EndTask, OthersKept, UpkeepTyped
<1>13. CASE UNCHANGED upkeepVars
  BY <1>13 DEF upkeepVars, UpkeepTyped
<1>14. \A p \in Runners \cup Requests : p \in UpkeepProcs
  BY DEF UpkeepProcs
<1>15. ASSUME NEW p \in Runners, Round(p)
       PROVE  UpkeepTyped'
  BY <1>1, <1>4, <1>5, <1>6, <1>14, <1>15 DEF Round, JobNames
<1>16. ASSUME NEW p \in Requests, Request(p)
       PROVE  UpkeepTyped'
  BY <1>1, <1>2, <1>3, <1>4, <1>14, <1>16 DEF Request, JobNames
<1>17. QED
  BY <1>7, <1>8, <1>9, <1>10, <1>11, <1>12, <1>13, <1>15, <1>16 DEF UpkeepNext

-----------------------------------------------------------------------------
(* The settings of an owner.  With SerialRows one process at a time is in a *)
(* transaction, and what it has read of the settings is still so.           *)
DueSync(p) == Times(tx[p].d, tx[p].at).next["sync"]
OneInside == \A p, q \in UpkeepProcs : ~Closed(p) /\ ~Closed(q) => p = q
SnapshotInv ==
  \A p \in UpkeepProcs : ~Closed(p) =>
    /\ tx[p].d.times = data.times /\ tx[p].d.own = data.own
    /\ tx[p].job # "record" => tx[p].at = clock

(* The row of all jobs, if there is one, and that of the image cleanup hold *)
(* what was saved last; a due time lies one period ahead at most.           *)
ChoiceInv ==
  /\ data.own.there /\ data.own.choice = saved["images"] /\ data.own.next = since + 1
  /\ data.times.there => /\ data.times.choice = saved
                         /\ \A j \in Jobs : data.times.next[j] \in 1..clock + 1
  /\ ~data.times.there => saved["sync"] = "on" /\ saved["unlisted"] = "on"
LookInv ==
  /\ since <= clock /\ looked <= clock
  /\ data.own.choice = "on" => looked <= since

(* A due time that was served lies before the present one; one whose tasks  *)
(* are being created is not yet counted.                                    *)
ServedInv ==
  \A n \in 1..MaxClock :
    /\ \A j \in Jobs : served[j][n] <= 1
    /\ served["images"][n] > 0 => n < data.own.next
    /\ \A j \in {"sync", "unlisted"} :
         served[j][n] > 0 => data.times.there /\ n < data.times.next[j]
CreateInv ==
  \A p \in UpkeepProcs : tx[p].job = "create" =>
    /\ data.times.there /\ DueSync(p) < data.times.next["sync"]
    /\ \A n \in 1..MaxClock : n = DueSync(p) => served["sync"][n] = 0
    /\ \A q \in UpkeepProcs \ {p} : tx[q].job = "create" => DueSync(q) # DueSync(p)

SettingsInv == OneInside /\ SnapshotInv /\ ChoiceInv /\ LookInv /\ ServedInv /\ CreateInv

(* A transaction that ends leaves everybody outside one. *)
LEMMA EndsAlone ==
  ASSUME UpkeepTyped, OneInside, NEW p \in UpkeepProcs, ~Closed(p), tx' = [tx EXCEPT ![p] = NoTx]
  PROVE  /\ OneInside' /\ SnapshotInv'
         /\ \A q \in UpkeepProcs : tx'[q].job = "create" => q # p /\ tx[q].job = "create" /\ tx'[q] = tx[q]
<1>1. \A q \in UpkeepProcs : tx'[q] = IF q = p THEN NoTx ELSE tx[q]
  BY DEF UpkeepTyped
<1>2. NoTx.job = "none"
  BY DEF NoTx
<1>3. \A q \in UpkeepProcs : Closed(q)'
  BY <1>1, <1>2 DEF OneInside, Closed
<1>4. QED
  BY <1>1, <1>2, <1>3 DEF OneInside, SnapshotInv

(* What a transaction has changed of the settings is what they become.      *)
LEMMA CommitRows ==
  ASSUME SnapshotInv, NEW p \in UpkeepProcs, ~Closed(p), NEW new, Commit(p, new)
  PROVE  /\ data'.times = new.times /\ data'.own = new.own
         /\ tx' = [tx EXCEPT ![p] = NoTx]
<1>1. Merge(tx[p].d, new).times = new.times /\ Merge(tx[p].d, new).own = new.own
  BY DEF Merge, Put, SnapshotInv
<1>2. QED
  BY <1>1 DEF Commit

(* Who is about to create tasks keeps its due time, as long as that of the  *)
(* job is not moved back.                                                   *)
LEMMA CreatesKept ==
  ASSUME UpkeepTyped, CreateInv,
         \A q \in UpkeepProcs : tx'[q].job = "create" => tx[q].job = "create" /\ tx'[q] = tx[q],
         data'.times.there,
         data.times.there => data'.times.next["sync"] >= data.times.next["sync"],
         data'.times.next["sync"] \in Nat, data.times.next["sync"] \in Nat,
         served'["sync"] = served["sync"]
  PROVE  CreateInv'
<1>1. ASSUME NEW q \in UpkeepProcs, tx'[q].job = "create"
      PROVE  /\ tx[q].job = "create" /\ DueSync(q)' = DueSync(q) /\ DueSync(q) \in Nat
             /\ DueSync(q) < data'.times.next["sync"]
  <2>1. tx[q].job = "create" /\ tx'[q] = tx[q]
    BY <1>1
  <2>2. tx[q].d \in DataRows /\ tx[q].at \in 0..MaxClock
    BY <2>1, InTransaction
  <2>3. DueSync(q) \in 0..MaxClock + 1 /\ MaxClock \in Nat
    BY <2>2, TimesTyped, UpkeepAssumption DEF DueSync, TimesRows, Jobs, UpkeepConstants
  <2>4. DueSync(q)' = DueSync(q)
    BY <2>1 DEF DueSync, Times, Loaded
  <2>5. QED
    BY <2>1, <2>3, <2>4 DEF CreateInv
<1>2. QED
  BY <1>1 DEF CreateInv

LEMMA SnapshotTimes ==
  ASSUME UpkeepTyped, SettingsInv, NEW p \in UpkeepProcs, ~Closed(p), tx[p].job # "record"
  PROVE  /\ tx[p].d \in DataRows /\ tx[p].at = clock /\ clock \in 0..MaxClock /\ clock \in Nat
         /\ Times(tx[p].d, clock) \in TimesRows /\ Times(tx[p].d, clock).there
         /\ Times(tx[p].d, clock).choice = saved
         /\ \A j \in Jobs : Times(tx[p].d, clock).next[j] \in 1..clock + 1
         /\ data.times.there => Times(tx[p].d, clock) = data.times
         /\ ~data.times.there => \A j \in Jobs \ {"images"} : Times(tx[p].d, clock).next[j] = clock + 1
         /\ Loaded(tx[p].d.own, clock) = data.own
         /\ tx[p].d.own = data.own /\ tx[p].d.times = data.times
<1>1. /\ tx[p].d \in DataRows /\ tx[p].at = clock /\ clock \in 0..MaxClock /\ clock \in Nat
      /\ tx[p].d.own = data.own /\ tx[p].d.times = data.times
  BY InTransaction, UpkeepAssumption DEF UpkeepTyped, SettingsInv, SnapshotInv, Closed, UpkeepConstants
<1>2. since \in Nat /\ since <= clock /\ data.own \in OwnRows /\ data.times \in TimesRows
      /\ saved \in [Jobs -> {"on", "off"}]
  BY UpkeepAssumption DEF UpkeepTyped, SettingsInv, LookInv, DataRows, UpkeepConstants
<1>3. Loaded(data.own, clock) = data.own
  <2>1. data.own.there = TRUE /\ data.own.next # 0
    BY <1>2 DEF SettingsInv, ChoiceInv, OwnRows
  <2>2. PICK own \in OwnRows : own = Loaded(data.own, clock)
    BY <1>1, <1>2, LoadedTyped
  <2>3. own.there = TRUE /\ own.choice = data.own.choice /\ own.next = data.own.next
    BY <1>1, <1>2, <2>1, <2>2, LoadedTyped DEF OwnRows
  <2>4. own = data.own
    BY <1>2, <2>1, <2>3 DEF OwnRows
  <2>5. QED
    BY <2>2, <2>4
<1>4. Times(tx[p].d, clock) \in TimesRows /\ Times(tx[p].d, clock).there
  BY <1>1, TimesTyped
<1>5. CASE data.times.there
  BY <1>1, <1>3, <1>4, <1>5, TimesTyped DEF SettingsInv, ChoiceInv
<1>6. CASE ~data.times.there
  <2>1. \A j \in Jobs : Times(tx[p].d, clock).choice[j] = saved[j]
    BY <1>1, <1>2, <1>6, TimesTyped DEF SettingsInv, ChoiceInv, Jobs
  <2>2. Times(tx[p].d, clock).choice = saved
    BY <1>2, <1>4, <2>1 DEF TimesRows
  <2>3. \A j \in Jobs : Times(tx[p].d, clock).next[j] = IF j = "images" THEN since + 1 ELSE clock + 1
    BY <1>1, <1>3, <1>6, TimesTyped DEF SettingsInv, ChoiceInv
  <2>4. QED
    BY <1>1, <1>2, <1>3, <1>4, <1>6, <2>2, <2>3
<1>7. QED
  BY <1>1, <1>4, <1>5, <1>6

LEMMA StillBefore ==
  ASSUME NEW a \in Nat, NEW b \in Nat, NEW n \in Nat, a <= b
  PROVE  n < a + 1 => n < b + 1
  OBVIOUS

LEMMA ServedNumbers ==
  ASSUME NEW counts \in [Jobs -> [1..MaxClock -> Nat]], NEW j \in Jobs, NEW n \in 1..MaxClock
  PROVE  counts[j][n] \in Nat
  OBVIOUS

(* A transaction ends: what it must make of the rows.                       *)
LEMMA RowsKept ==
  ASSUME UpkeepTyped, UpkeepTyped', SettingsInv, NEW p \in UpkeepProcs, ~Closed(p),
         tx' = [tx EXCEPT ![p] = NoTx], clock' = clock,
         ChoiceInv', LookInv',
         since <= since',
         data.times.there => data'.times.there,
         \A j \in {"sync", "unlisted"} :
           data.times.there => data'.times.next[j] >= data.times.next[j],
         served'["sync"] = served["sync"],
         \A n \in 1..MaxClock :
           \/ served'["unlisted"][n] = served["unlisted"][n]
           \/ served'["unlisted"][n] = 1 /\ data'.times.there /\ n < data'.times.next["unlisted"],
         \A n \in 1..MaxClock :
           \/ served'["images"][n] = served["images"][n]
           \/ served'["images"][n] = 1 /\ n < data'.own.next
  PROVE  SettingsInv'
<1>1. /\ MaxClock \in Nat /\ since \in Nat /\ since' \in Nat
      /\ \A j \in Jobs : data.times.next[j] \in Nat /\ data'.times.next[j] \in Nat
      /\ \A j \in Jobs, n \in 1..MaxClock : served[j][n] \in Nat /\ served'[j][n] \in Nat
      /\ data.own.next = since + 1 /\ data'.own.next = since' + 1
  <2>1. MaxClock \in Nat /\ since \in Nat /\ since' \in Nat
    BY UpkeepAssumption DEF UpkeepTyped, UpkeepConstants
  <2>2. data.times.next \in [Jobs -> 0..MaxClock + 1] /\ data'.times.next \in [Jobs -> 0..MaxClock + 1]
    BY DEF UpkeepTyped, DataRows, TimesRows
  <2>3. \A j \in Jobs : data.times.next[j] \in Nat /\ data'.times.next[j] \in Nat
    <3>1. 0..MaxClock + 1 \subseteq Nat
      BY <2>1
    <3>2. \A j \in Jobs : /\ data.times.next[j] \in 0..MaxClock + 1
                          /\ data'.times.next[j] \in 0..MaxClock + 1
      BY <2>2
    <3>3. QED
      BY <3>1, <3>2
  <2>4. \A j \in Jobs, n \in 1..MaxClock : served[j][n] \in Nat /\ served'[j][n] \in Nat
    <3>1. served \in [Jobs -> [1..MaxClock -> Nat]] /\ served' \in [Jobs -> [1..MaxClock -> Nat]]
      BY DEF UpkeepTyped
    <3>2. QED
      BY <3>1, ServedNumbers
  <2>5. QED
    BY <2>1, <2>2, <2>3, <2>4 DEF SettingsInv, ChoiceInv
<1>2. OneInside' /\ SnapshotInv'
  BY EndsAlone DEF SettingsInv
<1>3. ServedInv'
  <2> SUFFICES ASSUME NEW n \in 1..MaxClock
               PROVE  /\ \A j \in Jobs : served'[j][n] <= 1
                      /\ served'["images"][n] > 0 => n < data'.own.next
                      /\ \A j \in {"sync", "unlisted"} :
                           served'[j][n] > 0 => data'.times.there /\ n < data'.times.next[j]
    BY DEF ServedInv
  <2>1. /\ \A j \in Jobs : served[j][n] <= 1
        /\ served["images"][n] > 0 => n < data.own.next
        /\ \A j \in {"sync", "unlisted"} :
             served[j][n] > 0 => data.times.there /\ n < data.times.next[j]
    BY DEF ServedInv, SettingsInv
  <2>2. served'["images"][n] <= 1 /\ (served'["images"][n] > 0 => n < data'.own.next)
    <3>1. served["images"][n] <= 1 /\ served["images"][n] \in Nat
      BY <1>1, <2>1 DEF Jobs
    <3>2. served["images"][n] > 0 => n < since' + 1
      <4>1. PICK a \in Nat, b \in Nat : a = since /\ b = since'
        BY <1>1
      <4>2. a <= b
        BY <4>1
      <4>3. n \in Nat
        OBVIOUS
      <4>4. served["images"][n] > 0 => n < a + 1
        BY <1>1, <2>1, <4>1
      <4>5. n < a + 1 => n < b + 1
        BY <4>2, <4>3, StillBefore
      <4>6. QED
        BY <4>1, <4>4, <4>5
    <3>3. CASE served'["images"][n] = served["images"][n]
      BY <1>1, <3>1, <3>2, <3>3
    <3>4. CASE served'["images"][n] = 1 /\ n < data'.own.next
      BY <3>4
    <3>5. QED
      BY <3>3, <3>4
  <2>3. served'["sync"][n] <= 1
        /\ (served'["sync"][n] > 0 => data'.times.there /\ n < data'.times.next["sync"])
    BY <1>1, <2>1 DEF Jobs
  <2>4. served'["unlisted"][n] <= 1
        /\ (served'["unlisted"][n] > 0 => data'.times.there /\ n < data'.times.next["unlisted"])
    BY <1>1, <2>1 DEF Jobs
  <2>5. QED
    BY <2>2, <2>3, <2>4 DEF Jobs
<1>4. CreateInv'
  <2>1. \A q \in UpkeepProcs : tx'[q].job = "create" => tx[q].job = "create" /\ tx'[q] = tx[q]
    BY EndsAlone DEF SettingsInv
  <2>2. CASE data.times.there
    BY <1>1, <2>1, <2>2, CreatesKept DEF SettingsInv, Jobs
  <2>3. CASE ~data.times.there
    BY <2>1, <2>3 DEF SettingsInv, CreateInv
  <2>4. QED
    BY <2>2, <2>3
<1>5. QED
  BY <1>2, <1>3, <1>4 DEF SettingsInv

(* A transaction that leaves the settings as they are.                      *)
LEMMA SameRows ==
  ASSUME UpkeepTyped, SettingsInv,
         tx' = tx \/ \E p \in UpkeepProcs : tx' = [tx EXCEPT ![p] = NoTx],
         data'.times = data.times, data'.own = data.own,
         UNCHANGED <<clock, saved, served, since, looked>>
  PROVE  SettingsInv'
<1>1. \A q \in UpkeepProcs : tx'[q] = tx[q] \/ tx'[q] = NoTx
  BY DEF UpkeepTyped
<1>2. NoTx.job = "none"
  BY DEF NoTx
<1>3. \A q \in UpkeepProcs : ~Closed(q)' => ~Closed(q) /\ tx'[q] = tx[q]
  BY <1>1, <1>2 DEF Closed
<1>4. \A q \in UpkeepProcs : tx'[q].job = "create" =>
        tx[q].job = "create" /\ tx'[q] = tx[q] /\ DueSync(q)' = DueSync(q)
  BY <1>1, <1>2 DEF DueSync, Times, Loaded
<1>5. OneInside' /\ SnapshotInv'
  BY <1>3 DEF SettingsInv, OneInside, SnapshotInv
<1>6. ChoiceInv' /\ LookInv' /\ ServedInv'
  BY DEF SettingsInv, ChoiceInv, LookInv, ServedInv
<1>7. CreateInv'
  BY <1>4 DEF SettingsInv, CreateInv
<1>8. QED
  BY <1>5, <1>6, <1>7 DEF SettingsInv

LEMMA CountOne ==
  ASSUME UpkeepTyped, NEW j \in Jobs, NEW n \in 1..MaxClock, Count(j, n)
  PROVE  /\ served'[j][n] = served[j][n] + 1
         /\ \A k \in Jobs, m \in 1..MaxClock : k # j \/ m # n => served'[k][m] = served[k][m]
<1>1. /\ served' = [served EXCEPT ![j] = [served[j] EXCEPT ![n] = served[j][n] + 1]]
      /\ served[j] \in [1..MaxClock -> Nat]
  BY DEF Count, UpkeepTyped
<1>2. served'[j] = [served[j] EXCEPT ![n] = served[j][n] + 1]
  BY <1>1 DEF UpkeepTyped
<1>3. \A k \in Jobs : k # j => served'[k] = served[k]
  BY <1>1 DEF UpkeepTyped
<1>4. QED
  BY <1>1, <1>2, <1>3

LEMMA SaveKeepsSettings ==
  ASSUME UpkeepTyped, UpkeepTyped', SettingsInv, NEW p \in UpkeepProcs, NEW choice \in [Jobs -> Choices],
         SaveTimes(p, choice)
  PROVE  SettingsInv'
<1> DEFINE T == Times(tx[p].d, clock)
<1>1. tx[p].job = "save" /\ ~Closed(p)
  BY DEF SaveTimes, At, Closed
<1>2. /\ tx[p].d \in DataRows /\ tx[p].at = clock /\ clock \in 0..MaxClock /\ clock \in Nat
      /\ \A j \in Jobs : T.next[j] \in 1..clock + 1
      /\ data.times.there => T = data.times
      /\ ~data.times.there => T.next["sync"] = clock + 1 /\ T.next["unlisted"] = clock + 1
  BY <1>1, SnapshotTimes DEF Jobs
<1>3. /\ data'.times = [there |-> TRUE, choice |-> choice,
                        next |-> [j \in Jobs |-> IF j = "unlisted" THEN T.next[j] ELSE clock + 1]]
      /\ data'.own = [there |-> TRUE, choice |-> choice["images"], next |-> clock + 1]
      /\ tx' = [tx EXCEPT ![p] = NoTx]
  <2>1. SavedTimes(tx[p].d, choice, clock).times =
          [there |-> TRUE, choice |-> choice,
           next |-> [j \in Jobs |-> IF j = "unlisted" THEN T.next[j] ELSE clock + 1]]
        /\ SavedTimes(tx[p].d, choice, clock).own = [there |-> TRUE, choice |-> choice["images"], next |-> clock + 1]
    BY <1>2 DEF SavedTimes, DataRows
  <2>2. QED
    BY <1>1, <1>2, <2>1, CommitRows DEF SaveTimes, SettingsInv
<1>4. UNCHANGED <<clock, served, looked>> /\ saved' = choice /\ since' = clock
  BY <1>2 DEF SaveTimes
<1> HIDE DEF T
<1>5. ChoiceInv' /\ LookInv'
  BY <1>2, <1>3, <1>4 DEF ChoiceInv, LookInv, SettingsInv
<1>6. /\ data'.times.there /\ data'.times.next["sync"] = clock + 1
      /\ data'.times.next["unlisted"] = T.next["unlisted"]
  BY <1>3 DEF Jobs
<1>7. \A j \in {"sync", "unlisted"} :
        data.times.there => data'.times.next[j] >= data.times.next[j]
  BY <1>2, <1>6 DEF Jobs
<1>8. since <= since'
  BY <1>4 DEF SettingsInv, LookInv
<1>9. QED
  BY <1>1, <1>3, <1>4, <1>5, <1>6, <1>7, <1>8, RowsKept

LEMMA SaveOwnKeepsSettings ==
  ASSUME UpkeepTyped, UpkeepTyped', SettingsInv, NEW p \in UpkeepProcs, NEW c \in Choices, SaveOwn(p, c)
  PROVE  SettingsInv'
<1> DEFINE T == Times(tx[p].d, clock)
<1>1. tx[p].job = "save own" /\ ~Closed(p)
  BY DEF SaveOwn, At, Closed
<1>2. /\ tx[p].d \in DataRows /\ tx[p].at = clock /\ clock \in 0..MaxClock /\ clock \in Nat
      /\ T \in TimesRows /\ T.there /\ T.choice = saved
      /\ \A j \in Jobs : T.next[j] \in 1..clock + 1
      /\ data.times.there => T = data.times
      /\ ~data.times.there => T.next["sync"] = clock + 1 /\ T.next["unlisted"] = clock + 1
  BY <1>1, SnapshotTimes DEF Jobs
<1>3. /\ data'.times = [T EXCEPT !.choice["images"] = c, !.next["images"] = clock + 1]
      /\ data'.own = [there |-> TRUE, choice |-> c, next |-> clock + 1]
      /\ tx' = [tx EXCEPT ![p] = NoTx]
  <2>1. SavedOwn(tx[p].d, c, clock).times = [T EXCEPT !.choice["images"] = c, !.next["images"] = clock + 1]
        /\ SavedOwn(tx[p].d, c, clock).own = [there |-> TRUE, choice |-> c, next |-> clock + 1]
    BY <1>2 DEF SavedOwn, DataRows
  <2>2. Commit(p, SavedOwn(tx[p].d, c, clock))
    BY <1>2 DEF SaveOwn
  <2>3. QED
    BY <1>1, <2>1, <2>2, CommitRows DEF SettingsInv
<1>4. UNCHANGED <<clock, served, looked>> /\ saved' = [saved EXCEPT !["images"] = c] /\ since' = clock
  BY <1>2 DEF SaveOwn
<1> HIDE DEF T
<1>5. /\ data'.times.there = T.there /\ data'.times.choice = [saved EXCEPT !["images"] = c]
      /\ data'.times.next = [T.next EXCEPT !["images"] = clock + 1]
  BY <1>2, <1>3 DEF TimesRows
<1>6. /\ data'.times.next["sync"] = T.next["sync"] /\ data'.times.next["unlisted"] = T.next["unlisted"]
      /\ data'.times.next["images"] = clock + 1
  BY <1>2, <1>5 DEF TimesRows, Jobs
<1>7. ChoiceInv'
  <2>1. saved'["images"] = c
    BY <1>4 DEF UpkeepTyped, Jobs
  <2>2. \A j \in Jobs : data'.times.next[j] \in 1..clock + 1
    BY <1>2, <1>6 DEF Jobs
  <2>3. QED
    BY <1>2, <1>3, <1>4, <1>5, <2>1, <2>2 DEF ChoiceInv
<1>8. LookInv'
  BY <1>2, <1>3, <1>4 DEF LookInv, SettingsInv
<1>9. \A j \in {"sync", "unlisted"} :
        data.times.there => data'.times.next[j] >= data.times.next[j]
  BY <1>2, <1>6 DEF Jobs
<1>10. since <= since'
  BY <1>4 DEF SettingsInv, LookInv
<1>11. QED
  BY <1>1, <1>2, <1>3, <1>4, <1>5, <1>7, <1>8, <1>9, <1>10, RowsKept

(* Views, and rounds of the jobs of the first row.                          *)
LEMMA ViewKeepsSettings ==
  ASSUME UpkeepTyped, UpkeepTyped', SettingsInv, NEW p \in UpkeepProcs,
         View(p) \/ Unlisted(p) \/ UnlistedNow(p)
  PROVE  SettingsInv'
<1> DEFINE T == Times(tx[p].d, clock)
           N == [T.next EXCEPT !["unlisted"] = clock + 1]
<1>1. tx[p].job \in {"view", "unlisted", "unlisted now"} /\ ~Closed(p)
  BY DEF View, Unlisted, UnlistedNow, At, Closed
<1>2. /\ tx[p].d \in DataRows /\ tx[p].at = clock /\ clock \in 0..MaxClock /\ clock \in Nat
      /\ T \in TimesRows /\ T.there /\ T.choice = saved
      /\ \A j \in Jobs : T.next[j] \in 1..clock + 1
      /\ data.times.there => T = data.times
      /\ ~data.times.there => T.next["sync"] = clock + 1 /\ T.next["unlisted"] = clock + 1
      /\ tx[p].d.own = data.own
  BY <1>1, SnapshotTimes DEF Jobs
<1>3. /\ Viewed(tx[p].d, clock).times = T /\ Viewed(tx[p].d, clock).own = data.own
      /\ Served(tx[p].d, "unlisted", clock).times = [T EXCEPT !.next = N]
      /\ Served(tx[p].d, "unlisted", clock).own = data.own
  BY <1>2 DEF Viewed, Served, Advanced, DataRows, TimesRows
<1>4. /\ data'.times = T \/ data'.times = [T EXCEPT !.next = N]
      /\ data'.own = data.own
      /\ tx' = [tx EXCEPT ![p] = NoTx]
  BY <1>1, <1>2, <1>3, CommitRows DEF View, Unlisted, UnlistedNow, SettingsInv
<1>5. UNCHANGED <<clock, saved, since, looked>>
  BY DEF View, Unlisted, UnlistedNow
<1>6. \/ served' = served
      \/ /\ Count("unlisted", T.next["unlisted"]) /\ T.next["unlisted"] <= clock
         /\ data'.times = [T EXCEPT !.next = N]
  <2>1. CASE View(p) \/ UnlistedNow(p)
    BY <2>1 DEF View, UnlistedNow
  <2>2. CASE Unlisted(p)
    <3>1. CASE TimeDue(tx[p].d, "unlisted", tx[p].at)
      <4>1. /\ Commit(p, Served(tx[p].d, "unlisted", tx[p].at))
            /\ Count("unlisted", Times(tx[p].d, tx[p].at).next["unlisted"])
        BY <2>2, <3>1 DEF Unlisted
      <4>2. Served(tx[p].d, "unlisted", tx[p].at) = Served(tx[p].d, "unlisted", clock)
            /\ Times(tx[p].d, tx[p].at) = T
        BY <1>2
      <4>3. data'.times = [T EXCEPT !.next = N]
        BY <1>1, <1>3, <4>1, <4>2, CommitRows DEF SettingsInv
      <4>4. T.next["unlisted"] <= clock
        BY <1>2, <3>1, <4>2 DEF TimeDue
      <4>5. QED
        BY <4>1, <4>2, <4>3, <4>4
    <3>2. CASE ~TimeDue(tx[p].d, "unlisted", tx[p].at)
      BY <2>2, <3>2 DEF Unlisted
    <3>3. QED
      BY <3>1, <3>2
  <2>3. QED
    BY <2>1, <2>2
<1> HIDE DEF T
<1>7. /\ N \in [Jobs -> 0..MaxClock + 1] /\ N["sync"] = T.next["sync"] /\ N["images"] = T.next["images"]
      /\ N["unlisted"] = clock + 1
  BY <1>2, UpkeepAssumption DEF TimesRows, Jobs, UpkeepConstants
<1> HIDE DEF N
<1>8. /\ data'.times.there = TRUE /\ data'.times.choice = saved
      /\ data'.times.next = T.next \/ data'.times.next = N
      /\ data'.times = [T EXCEPT !.next = N] => data'.times.next = N
  BY <1>2, <1>4 DEF TimesRows
<1>9. ChoiceInv' /\ LookInv'
  BY <1>2, <1>4, <1>5, <1>7, <1>8 DEF ChoiceInv, LookInv, SettingsInv, Jobs
<1>10. \A j \in {"sync", "unlisted"} :
         data.times.there => data'.times.next[j] >= data.times.next[j]
  BY <1>2, <1>7, <1>8 DEF Jobs
<1>11. since <= since'
  BY <1>5, UpkeepAssumption DEF UpkeepTyped, UpkeepConstants
<1>12. served'["sync"] = served["sync"] /\ served'["images"] = served["images"]
  BY <1>6 DEF Count, UpkeepTyped, Jobs
<1>13. ASSUME NEW n \in 1..MaxClock
       PROVE  \/ served'["unlisted"][n] = served["unlisted"][n]
              \/ served'["unlisted"][n] = 1 /\ data'.times.there /\ n < data'.times.next["unlisted"]
  <2>1. CASE served' = served
    BY <2>1
  <2>2. CASE served' # served /\ n # T.next["unlisted"]
    BY <1>6, <2>2 DEF Count, UpkeepTyped, Jobs
  <2>3. CASE served' # served /\ n = T.next["unlisted"]
    <3>1. Count("unlisted", n) /\ n <= clock /\ data'.times.next = N
      BY <1>6, <1>8, <2>3
    <3>2. served["unlisted"][n] = 0
      <4>1. data.times.there /\ n = data.times.next["unlisted"] /\ n \in Nat
        BY <1>2, <2>3, <3>1
      <4>2. served["unlisted"][n] \in Nat
        BY DEF UpkeepTyped, Jobs
      <4>3. QED
        BY <4>1, <4>2 DEF SettingsInv, ServedInv
    <3>3. served'["unlisted"][n] = 1
      BY <3>1, <3>2, CountOne DEF Jobs
    <3>4. QED
      BY <1>2, <1>7, <1>8, <3>1, <3>3
  <2>4. QED
    BY <2>1, <2>2, <2>3
<1>14. QED
  BY <1>1, <1>4, <1>5, <1>8, <1>9, <1>10, <1>11, <1>12, <1>13, RowsKept

(* The cleanup of images.                                                   *)
LEMMA CleanKeepsSettings ==
  ASSUME UpkeepTyped, UpkeepTyped', SettingsInv, NEW p \in UpkeepProcs,
         ViewOwn(p) \/ CleanNotDue(p) \/ \E t \in CleanTasks : Clean(p, t)
  PROVE  SettingsInv'
<1> DEFINE new == [data.own EXCEPT !.next = clock + 1]
<1>1. tx[p].job \in {"view own", "clean", "clean now"} /\ ~Closed(p)
  BY DEF ViewOwn, CleanNotDue, Clean, At, Closed
<1>2. /\ tx[p].d \in DataRows /\ tx[p].at = clock /\ clock \in 0..MaxClock /\ clock \in Nat
      /\ Loaded(tx[p].d.own, clock) = data.own
      /\ tx[p].d.own = data.own /\ tx[p].d.times = data.times
  BY <1>1, SnapshotTimes
<1>3. /\ data.own.there = TRUE /\ data.own \in OwnRows /\ data.own.next = since + 1
      /\ data.own.choice = saved["images"]
      /\ since \in Nat /\ since <= clock /\ looked \in Nat /\ looked <= clock
      /\ data.own.choice = "on" => looked <= since
  BY UpkeepAssumption DEF SettingsInv, ChoiceInv, LookInv, UpkeepTyped, DataRows, OwnRows, UpkeepConstants
<1>4. \A j \in {"sync", "unlisted"} : data.times.next[j] \in Nat
  BY DEF UpkeepTyped, DataRows, TimesRows, Jobs
<1>5. ASSUME ViewOwn(p) \/ CleanNotDue(p)
      PROVE  /\ data'.times = data.times /\ data'.own = data.own
             /\ UNCHANGED <<clock, saved, served, since>>
             /\ tx' = [tx EXCEPT ![p] = NoTx]
  <2>1. /\ ViewedOwn(tx[p].d, clock).times = data.times
        /\ ViewedOwn(tx[p].d, clock).own = data.own
    BY <1>2, <1>3 DEF ViewedOwn
  <2>2. NotDue(tx[p].d).times = data.times /\ NotDue(tx[p].d).own = data.own
    BY <1>2, <1>3 DEF NotDue, DataRows, OwnRows
  <2>3. QED
    BY <1>1, <1>2, <1>3, <1>5, <2>1, <2>2, CommitRows DEF ViewOwn, CleanNotDue, SettingsInv
<1>6. CASE ViewOwn(p)
  BY <1>5, <1>6, SameRows DEF ViewOwn
<1>7. CASE CleanNotDue(p)
  <2>1. looked' = clock /\ ~OwnDue(tx[p].d, clock)
    BY <1>2, <1>7 DEF CleanNotDue
  <2>2. data.own.choice = "on" => clock <= since
    BY <1>2, <1>3, <2>1 DEF OwnDue
  <2>3. ChoiceInv' /\ LookInv'
    BY <1>2, <1>3, <1>5, <1>7, <2>1, <2>2 DEF SettingsInv, ChoiceInv, LookInv
  <2>4. since <= since' /\ \A j \in {"sync", "unlisted"} : data'.times.next[j] >= data.times.next[j]
    BY <1>3, <1>5, <1>7, <1>4
  <2>5. /\ data.times.there => data'.times.there
        /\ served' = served /\ clock' = clock /\ tx' = [tx EXCEPT ![p] = NoTx]
    BY <1>5, <1>7
  <2>6. QED
    BY <1>1, <2>3, <2>4, <2>5, RowsKept
<1>8. ASSUME NEW t \in CleanTasks, Clean(p, t)
      PROVE  SettingsInv'
  <2>1. Cleaned(tx[p].d, t, clock).times = data.times /\ Cleaned(tx[p].d, t, clock).own = new
    BY <1>2 DEF Cleaned, DataRows
  <2>2. data'.times = data.times /\ data'.own = new /\ tx' = [tx EXCEPT ![p] = NoTx]
    BY <1>1, <1>2, <1>8, <2>1, CommitRows DEF Clean, SettingsInv
  <2>3. UNCHANGED <<clock, saved>> /\ since' = clock /\ (looked' = clock \/ looked' = looked)
    BY <1>2, <1>8 DEF Clean
  <2>4. new.there = TRUE /\ new.choice = saved["images"] /\ new.next = clock + 1
    BY <1>3 DEF OwnRows
  <2> HIDE DEF new
  <2>5. ChoiceInv' /\ LookInv'
    BY <1>2, <1>3, <2>2, <2>3, <2>4 DEF SettingsInv, ChoiceInv, LookInv
  <2>6. served' = served \/ (Count("images", data.own.next) /\ data.own.next <= clock)
    BY <1>2, <1>8 DEF Clean, OwnDue
  <2>7. served'["sync"] = served["sync"] /\ served'["unlisted"] = served["unlisted"]
    BY <2>6 DEF Count, UpkeepTyped, Jobs
  <2>8. ASSUME NEW n \in 1..MaxClock
        PROVE  \/ served'["images"][n] = served["images"][n]
               \/ served'["images"][n] = 1 /\ n < data'.own.next
    <3>1. CASE served' = served
      BY <3>1
    <3>2. CASE served' # served /\ n # data.own.next
      BY <2>6, <3>2 DEF Count, UpkeepTyped, Jobs
    <3>3. CASE served' # served /\ n = data.own.next
      <4>1. Count("images", n) /\ n <= clock
        BY <2>6, <3>3
      <4>2. served["images"][n] \in Nat
        BY DEF UpkeepTyped, Jobs
      <4>3. served["images"][n] = 0
        BY <1>3, <3>3, <4>2 DEF SettingsInv, ServedInv
      <4>4. served'["images"][n] = 1
        BY <4>1, <4>3, CountOne DEF Jobs
      <4>5. QED
        BY <1>2, <2>2, <2>4, <4>1, <4>4
    <3>4. QED
      BY <3>1, <3>2, <3>3
  <2>9. /\ since <= since'
        /\ data.times.there => data'.times.there
        /\ \A j \in {"sync", "unlisted"} : data'.times.next[j] >= data.times.next[j]
    BY <1>3, <1>4, <2>2, <2>3
  <2>10. QED
    BY <1>1, <2>2, <2>3, <2>5, <2>7, <2>8, <2>9, RowsKept
<1>9. QED
  BY <1>6, <1>7, <1>8

(* The sync round: its due time moves on, then the tasks are created and    *)
(* their number is recorded.                                                *)
LEMMA SyncDueKeepsSettings ==
  ASSUME UpkeepTyped, UpkeepTyped', SettingsInv, NEW p \in UpkeepProcs, SyncDue(p)
  PROVE  SettingsInv'
<1> DEFINE T == Times(tx[p].d, clock)
           N == [T.next EXCEPT !["sync"] = clock + 1]
           due == TimeDue(tx[p].d, "sync", clock)
           new == IF due THEN Served(tx[p].d, "sync", clock) ELSE Viewed(tx[p].d, clock)
           after == IF due THEN [job |-> "create", at |-> clock, d |-> tx[p].d] ELSE NoTx
<1>1. tx[p].job = "sync" /\ ~Closed(p)
  BY DEF SyncDue, At, Closed
<1>2. /\ tx[p].d \in DataRows /\ tx[p].at = clock /\ clock \in 0..MaxClock /\ clock \in Nat
      /\ T \in TimesRows /\ T.there /\ T.choice = saved
      /\ \A j \in Jobs : T.next[j] \in 1..clock + 1
      /\ data.times.there => T = data.times
      /\ ~data.times.there => T.next["sync"] = clock + 1
      /\ tx[p].d.own = data.own /\ tx[p].d.times = data.times
  BY <1>1, SnapshotTimes DEF Jobs
<1>3. new.times = (IF due THEN [T EXCEPT !.next = N] ELSE T) /\ new.own = data.own
  BY <1>2 DEF Viewed, Served, Advanced, DataRows, TimesRows
<1>4. /\ data' = Merge(tx[p].d, new) /\ tx' = [tx EXCEPT ![p] = after]
      /\ UNCHANGED <<clock, saved, served, since, looked>>
  BY <1>2 DEF SyncDue
<1>5. Merge(tx[p].d, new).times = new.times /\ Merge(tx[p].d, new).own = new.own
  BY <1>2, <1>3 DEF Merge, Put
<1>6. data'.own = data.own /\ data'.times = (IF due THEN [T EXCEPT !.next = N] ELSE T)
  BY <1>3, <1>4, <1>5
<1>7. due => T.next["sync"] <= clock /\ data.times.there
  BY <1>2 DEF TimeDue
<1>8. \A q \in UpkeepProcs : tx'[q] = IF q = p THEN after ELSE tx[q]
  BY <1>4 DEF UpkeepTyped
<1>9. after.job \in {"create", "none"} /\ (after.job = "create" => due /\ after.d = tx[p].d /\ after.at = clock)
  BY DEF NoTx
<1>10. DueSync(p) = T.next["sync"]
  BY <1>2 DEF DueSync
<1> HIDE DEF T, due, new, after
<1>11. /\ N \in [Jobs -> 0..MaxClock + 1] /\ N["sync"] = clock + 1
       /\ N["images"] = T.next["images"] /\ N["unlisted"] = T.next["unlisted"]
  BY <1>2, UpkeepAssumption DEF TimesRows, Jobs, UpkeepConstants
<1> HIDE DEF N
<1>12. /\ data'.times.there = TRUE /\ data'.times.choice = saved
       /\ data'.times.next = IF due THEN N ELSE T.next
  BY <1>2, <1>6 DEF TimesRows
<1>13. \A q \in UpkeepProcs : Closed(q)'
  BY <1>1, <1>8, <1>9 DEF SettingsInv, OneInside, Closed
<1>14. OneInside' /\ SnapshotInv'
  BY <1>13 DEF OneInside, SnapshotInv
<1>15. ChoiceInv'
  <2>1. \A j \in Jobs : data'.times.next[j] \in 1..clock + 1
    BY <1>2, <1>11, <1>12 DEF Jobs
  <2>2. QED
    BY <1>4, <1>6, <1>12, <2>1 DEF ChoiceInv, SettingsInv
<1>16. LookInv'
  BY <1>4, <1>6 DEF LookInv, SettingsInv
<1>17. data.times.there => data'.times.next["sync"] >= data.times.next["sync"]
                           /\ data'.times.next["unlisted"] = data.times.next["unlisted"]
  BY <1>2, <1>11, <1>12 DEF Jobs
<1>18. data'.times.next["sync"] \in Nat /\ data.times.next["sync"] \in Nat
       /\ \A n \in 1..MaxClock : served["sync"][n] \in Nat
  <2>1. data'.times.next["sync"] \in Nat
    BY DEF UpkeepTyped, DataRows, TimesRows, Jobs
  <2>2. data.times.next["sync"] \in Nat
    BY DEF UpkeepTyped, DataRows, TimesRows, Jobs
  <2>3. \A n \in 1..MaxClock : served["sync"][n] \in Nat
    BY DEF UpkeepTyped, Jobs
  <2>4. QED
    BY <2>1, <2>2, <2>3
<1>19. ServedInv'
  BY <1>4, <1>6, <1>12, <1>17, <1>18 DEF ServedInv, SettingsInv
<1>20. ASSUME NEW q \in UpkeepProcs, q # p, tx'[q].job = "create"
       PROVE  /\ tx[q].job = "create" /\ DueSync(q)' = DueSync(q) /\ DueSync(q) \in Nat
              /\ data.times.there /\ DueSync(q) < data.times.next["sync"]
  <2>1. tx[q].job = "create" /\ tx'[q] = tx[q]
    BY <1>8, <1>20
  <2>2. tx[q].d \in DataRows /\ tx[q].at \in 0..MaxClock
    BY <2>1, InTransaction
  <2>3. DueSync(q) \in 0..MaxClock + 1 /\ MaxClock \in Nat
    BY <2>2, TimesTyped, UpkeepAssumption DEF DueSync, TimesRows, Jobs, UpkeepConstants
  <2>4. DueSync(q)' = DueSync(q)
    BY <2>1 DEF DueSync, Times, Loaded
  <2>5. QED
    BY <2>1, <2>3, <2>4 DEF CreateInv, SettingsInv
<1>21. ASSUME tx'[p].job = "create"
       PROVE  /\ DueSync(p)' = T.next["sync"] /\ T.next["sync"] <= clock /\ data.times.there
              /\ T = data.times /\ data'.times.next["sync"] = clock + 1
              /\ \A n \in 1..MaxClock : n = T.next["sync"] => served["sync"][n] = 0
  <2>1. due /\ tx'[p].d = tx[p].d /\ tx'[p].at = clock
    BY <1>8, <1>9, <1>21
  <2>2. DueSync(p)' = DueSync(p)
    BY <1>2, <2>1 DEF DueSync, Times, Loaded
  <2>3. T = data.times
    BY <1>2, <1>7, <2>1
  <2>4. ASSUME NEW n \in 1..MaxClock, n = T.next["sync"] PROVE served["sync"][n] = 0
    <3>1. ~(served["sync"][n] > 0)
      BY <2>3, <2>4 DEF ServedInv, SettingsInv
    <3>2. QED
      BY <1>18, <3>1
  <2>5. QED
    BY <1>7, <1>10, <1>11, <1>12, <2>1, <2>2, <2>3, <2>4
<1>22. CreateInv'
  <2>1. ASSUME NEW q \in UpkeepProcs, tx'[q].job = "create"
        PROVE  /\ DueSync(q)' < data'.times.next["sync"]
               /\ \A n \in 1..MaxClock : n = DueSync(q)' => served'["sync"][n] = 0
    <3>1. CASE q = p
      BY <1>2, <1>4, <1>21, <2>1, <3>1 DEF Jobs
    <3>2. CASE q # p
      BY <1>4, <1>17, <1>18, <1>20, <2>1, <3>2 DEF CreateInv, SettingsInv
    <3>3. QED
      BY <3>1, <3>2
  <2>2. ASSUME NEW q \in UpkeepProcs, tx'[q].job = "create",
               NEW o \in UpkeepProcs \ {q}, tx'[o].job = "create"
        PROVE  DueSync(o)' # DueSync(q)'
    <3>1. CASE q # p /\ o # p
      BY <1>20, <2>2, <3>1 DEF CreateInv, SettingsInv
    <3>2. CASE q = p
      BY <1>18, <1>20, <1>21, <2>2, <3>2
    <3>3. CASE o = p
      BY <1>18, <1>20, <1>21, <2>2, <3>3
    <3>4. QED
      BY <3>1, <3>2, <3>3
  <2>3. QED
    BY <1>12, <2>1, <2>2 DEF CreateInv
<1>23. QED
  BY <1>14, <1>15, <1>16, <1>19, <1>22 DEF SettingsInv

LEMMA CreateKeepsSettings ==
  ASSUME UpkeepTyped, UpkeepTyped', SettingsInv, SerialRows, NEW p \in UpkeepProcs, CreateSyncs(p)
  PROVE  SettingsInv'
<1> DEFINE m == DueSync(p)
           after == [[tx[p] EXCEPT !.job = "record"] EXCEPT !.d = data]
<1>1. /\ tx[p].job = "create" /\ \A q \in UpkeepProcs : Closed(q)
      /\ Count("sync", m) /\ tx' = [tx EXCEPT ![p] = after]
      /\ UNCHANGED <<data, clock, saved, since, looked>>
  BY DEF CreateSyncs, At, DueSync, ReadAgain
<1>2. tx[p] \in Transactions
  BY <1>1, InTransaction
<1>3. after.job = "record" /\ after.d = data
  BY <1>2 DEF Transactions
<1> HIDE DEF after
<1>4. \A q \in UpkeepProcs : tx'[q] = IF q = p THEN after ELSE tx[q]
  BY <1>1 DEF UpkeepTyped
<1>5. /\ data.times.there /\ m < data.times.next["sync"]
      /\ \A n \in 1..MaxClock : n = m => served["sync"][n] = 0
      /\ \A q \in UpkeepProcs \ {p} : tx[q].job = "create" => DueSync(q) # m
  BY <1>1 DEF SettingsInv, CreateInv
<1>6. \A q \in UpkeepProcs : ~Closed(q)' => q = p
  BY <1>1, <1>4 DEF Closed
<1>7. OneInside' /\ SnapshotInv'
  BY <1>1, <1>3, <1>4, <1>6 DEF OneInside, SnapshotInv
<1>8. ChoiceInv' /\ LookInv'
  BY <1>1 DEF ChoiceInv, LookInv, SettingsInv
<1>9. ASSUME NEW j \in Jobs, NEW n \in 1..MaxClock
      PROVE  IF j = "sync" /\ n = m THEN served'[j][n] = 1 ELSE served'[j][n] = served[j][n]
  <2>1. CASE m \in 1..MaxClock
    <3>1. served'["sync"][m] = served["sync"][m] + 1
          /\ (j # "sync" \/ n # m => served'[j][n] = served[j][n])
      BY <1>1, <2>1, CountOne DEF Jobs
    <3>2. QED
      BY <1>5, <2>1, <3>1
  <2>2. CASE m \notin 1..MaxClock
    <3>1. served[j] \in [1..MaxClock -> Nat] /\ served["sync"] \in [1..MaxClock -> Nat]
      BY DEF UpkeepTyped, Jobs
    <3>2. served' = [served EXCEPT !["sync"] = [served["sync"] EXCEPT ![m] = @ + 1]]
      BY <1>1 DEF Count
    <3>3. [served["sync"] EXCEPT ![m] = @ + 1][n] = served["sync"][n]
      BY <2>2, <3>1
    <3>4. QED
      BY <2>2, <3>2, <3>3 DEF UpkeepTyped
  <2>3. QED
    BY <2>1, <2>2
<1> HIDE DEF m
<1>10. ServedInv'
  <2> SUFFICES ASSUME NEW n \in 1..MaxClock
               PROVE  /\ \A j \in Jobs : served'[j][n] <= 1
                      /\ served'["images"][n] > 0 => n < data.own.next
                      /\ \A j \in {"sync", "unlisted"} :
                           served'[j][n] > 0 => data.times.there /\ n < data.times.next[j]
    BY <1>1 DEF ServedInv
  <2>1. /\ \A j \in Jobs : served[j][n] <= 1
        /\ served["images"][n] > 0 => n < data.own.next
        /\ \A j \in {"sync", "unlisted"} :
             served[j][n] > 0 => data.times.there /\ n < data.times.next[j]
    BY DEF ServedInv, SettingsInv
  <2>2. /\ served'["images"][n] = served["images"][n] /\ served'["unlisted"][n] = served["unlisted"][n]
        /\ IF n = m THEN served'["sync"][n] = 1 ELSE served'["sync"][n] = served["sync"][n]
    BY <1>9 DEF Jobs
  <2>3. QED
    BY <1>5, <2>1, <2>2 DEF Jobs
<1>11. CreateInv'
  <2>1. \A q \in UpkeepProcs : tx'[q].job = "create" =>
          q # p /\ tx[q].job = "create" /\ tx'[q] = tx[q] /\ DueSync(q)' = DueSync(q)
    BY <1>3, <1>4 DEF DueSync, Times, Loaded
  <2>2. \A n \in 1..MaxClock : n # m => served'["sync"][n] = served["sync"][n]
    BY <1>9 DEF Jobs
  <2>3. \A q \in UpkeepProcs \ {p} : tx[q].job = "create" => DueSync(q) # m
    BY <1>5
  <2>4. QED
    BY <1>1, <2>1, <2>2, <2>3 DEF SettingsInv, CreateInv
<1>12. QED
  BY <1>7, <1>8, <1>10, <1>11 DEF SettingsInv

LEMMA BeginKeepsSettings ==
  ASSUME UpkeepTyped, SettingsInv, SerialRows, NEW p \in UpkeepProcs, NEW job, job # "create", BeginTx(p, job)
  PROVE  SettingsInv'
<1> DEFINE after == [job |-> job, at |-> clock, d |-> data]
<1>1. /\ \A q \in UpkeepProcs : Closed(q) /\ tx'[q] = IF q = p THEN after ELSE tx[q]
      /\ UNCHANGED <<data, clock, saved, served, since, looked>>
  BY DEF BeginTx, UpkeepTyped
<1>2. OneInside' /\ SnapshotInv'
  BY <1>1 DEF Closed, OneInside, SnapshotInv
<1>3. ChoiceInv' /\ LookInv' /\ ServedInv'
  BY <1>1 DEF ChoiceInv, LookInv, ServedInv, SettingsInv
<1>4. \A q \in UpkeepProcs : tx'[q].job = "create" =>
        tx[q].job = "create" /\ tx'[q] = tx[q] /\ DueSync(q)' = DueSync(q)
  BY <1>1 DEF DueSync, Times, Loaded
<1>5. CreateInv'
  BY <1>1, <1>4 DEF CreateInv, SettingsInv
<1>6. QED
  BY <1>2, <1>3, <1>5 DEF SettingsInv

LEMMA TickKeepsSettings ==
  ASSUME UpkeepTyped, SettingsInv, Tick
  PROVE  SettingsInv'
<1>1. /\ clock' = clock + 1 /\ UNCHANGED <<data, tx, saved, served, since, retried, looked>>
      /\ \A p \in UpkeepProcs : Closed(p)
  BY DEF Tick
<1>2. clock \in Nat /\ since \in Nat /\ looked \in Nat
  BY UpkeepAssumption DEF UpkeepTyped, UpkeepConstants
<1>3. OneInside' /\ SnapshotInv'
  BY <1>1 DEF Closed, OneInside, SnapshotInv
<1>4. ChoiceInv' /\ LookInv' /\ ServedInv'
  BY <1>1, <1>2 DEF ChoiceInv, LookInv, ServedInv, SettingsInv
<1>5. CreateInv'
  <2>1. \A p \in UpkeepProcs : DueSync(p)' = DueSync(p)
    BY <1>1 DEF DueSync, Times, Loaded
  <2>2. QED
    BY <1>1, <2>1 DEF CreateInv, SettingsInv
<1>6. QED
  BY <1>3, <1>4, <1>5 DEF SettingsInv

LEMMA SettingsKept ==
  ASSUME UpkeepTyped, UpkeepTyped', SettingsInv, SerialRows, [UpkeepNext]_upkeepVars
  PROVE  SettingsInv'
<1>1. CASE UNCHANGED upkeepVars
  BY <1>1, SameRows DEF upkeepVars
<1>2. ASSUME NEW p \in UpkeepProcs, Fails(p)
      PROVE  SettingsInv'
  BY <1>2, SameRows DEF Fails
<1>3. ASSUME NEW p \in UpkeepProcs, Recorded(p)
      PROVE  SettingsInv'
  <2>1. tx[p].d.times = data.times /\ tx' = [tx EXCEPT ![p] = NoTx]
        /\ data' = [data EXCEPT !.times = tx[p].d.times]
        /\ UNCHANGED <<clock, saved, served, since, looked>>
    BY <1>3 DEF Recorded, At, Closed, SettingsInv, SnapshotInv
  <2>2. data'.times = data.times /\ data'.own = data.own
    BY <2>1 DEF UpkeepTyped, DataRows
  <2>3. QED
    BY <2>1, <2>2, SameRows
<1>4. ASSUME NEW r \in Records, QueueRecord(r)
      PROVE  SettingsInv'
  <2>1. data'.times = data.times /\ data'.own = data.own
    BY <1>4 DEF QueueRecord, UpkeepTyped, DataRows
  <2>2. QED
    BY <1>4, <2>1, SameRows DEF QueueRecord, OthersKept
<1>5. ASSUME NEW t \in CleanTasks, StartTask(t) \/ LoseTask(t) \/ RetryTask(t) \/ DeleteTask(t)
      PROVE  SettingsInv'
  <2>1. data'.times = data.times /\ data'.own = data.own
    BY <1>5 DEF StartTask, LoseTask, RetryTask, DeleteTask, UpkeepTyped, DataRows
  <2>2. QED
    BY <1>5, <2>1, SameRows DEF StartTask, LoseTask, RetryTask, DeleteTask, OthersKept
<1>6. ASSUME NEW t \in CleanTasks, NEW done, NEW left, EndTask(t, done, left)
      PROVE  SettingsInv'
  <2>1. data'.times = data.times /\ data'.own = data.own
    BY <1>6 DEF EndTask, UpkeepTyped, DataRows
  <2>2. QED
    BY <1>6, <2>1, SameRows DEF EndTask, OthersKept
<1>7. ASSUME NEW p \in Runners, Round(p)
      PROVE  SettingsInv'
  <2>1. p \in UpkeepProcs
    BY DEF UpkeepProcs
  <2>2. QED
    BY <1>3, <1>7, <2>1, BeginKeepsSettings, SyncDueKeepsSettings, CreateKeepsSettings,
       ViewKeepsSettings, CleanKeepsSettings DEF Round
<1>8. ASSUME NEW p \in Requests, Request(p)
      PROVE  SettingsInv'
  <2>1. p \in UpkeepProcs
    BY DEF UpkeepProcs
  <2>2. QED
    BY <1>8, <2>1, BeginKeepsSettings, SaveKeepsSettings, SaveOwnKeepsSettings,
       ViewKeepsSettings, CleanKeepsSettings DEF Request
<1>9. QED
  BY <1>1, <1>2, <1>4, <1>5, <1>6, <1>7, <1>8, TickKeepsSettings, CleanKeepsSettings DEF UpkeepNext

LEMMA SettingsInit ==
  ASSUME UpkeepInit, RowFirst
  PROVE  SettingsInv
<1>1. /\ clock = 0 /\ since = 0 /\ looked = 0 /\ saved = NoTimes.choice
      /\ tx = [p \in UpkeepProcs |-> NoTx]
      /\ served = [j \in Jobs |-> [n \in 1..MaxClock |-> 0]]
  BY DEF UpkeepInit
<1>2. PICK times \in {NoTimes, [NoTimes EXCEPT !.there = TRUE, !.next = [j \in Jobs |-> 1]]} :
        data.times = times /\ data.own = Loaded(NoOwn, 0)
  BY DEF UpkeepInit
<1>3. data.own.there = TRUE /\ data.own.next = 1 /\ data.own.choice = "on"
  BY <1>2 DEF Loaded, NoOwn
<1>4. \A j \in Jobs : saved[j] = "on"
  BY <1>1 DEF NoTimes
<1>5. /\ data.times.choice = saved
      /\ data.times.there => \A j \in Jobs : data.times.next[j] = 1
  <2>1. CASE times = NoTimes
    BY <1>1, <1>2, <2>1 DEF NoTimes
  <2>2. CASE times = [NoTimes EXCEPT !.there = TRUE, !.next = [j \in Jobs |-> 1]]
    <3>1. times.choice = NoTimes.choice /\ times.next = [j \in Jobs |-> 1]
      BY <2>2 DEF NoTimes
    <3>2. QED
      BY <1>1, <1>2, <3>1
  <2>3. QED
    BY <2>1, <2>2
<1>6. ChoiceInv /\ LookInv
  BY <1>1, <1>3, <1>4, <1>5 DEF ChoiceInv, LookInv, Jobs
<1>7. \A p \in UpkeepProcs : tx[p].job = "none"
  BY <1>1 DEF NoTx
<1>8. OneInside /\ SnapshotInv /\ CreateInv
  BY <1>7 DEF OneInside, SnapshotInv, CreateInv, Closed
<1>9. ServedInv
  BY <1>1 DEF ServedInv, Jobs
<1>10. QED
  BY <1>6, <1>8, <1>9 DEF SettingsInv

-----------------------------------------------------------------------------
(* The cleanup of images.  Of records no user has retried: two tasks under  *)
(* way share none, a task under way is the one its records name, and a      *)
(* process that takes records up finds them as it has read them.            *)
WorksOn(d, t, r) == UnderWay(d.task[t]) /\ r \in d.task[t].recs
TasksInv ==
  \A r \in Records \ retried, t \in CleanTasks : WorksOn(data, t, r) =>
    data.rec[r].state = "queued" /\ data.rec[r].task = t
TakenInv ==
  \A p \in UpkeepProcs, r \in Records \ retried :
    tx[p].job \in {"clean", "clean now"} /\ r \in Takeable(tx[p].d) =>
      data.rec[r] = tx[p].d.rec[r] /\ \A t \in CleanTasks : ~WorksOn(data, t, r)
CleanupInv == TasksInv /\ TakenInv

(* Records and tasks that stay as they are for a record.                    *)
LEMMA RecordsKept ==
  ASSUME CleanupInv, NEW r \in Records, r \notin retried, r \notin retried',
         data'.rec[r] = data.rec[r],
         \A t \in CleanTasks : WorksOn(data', t, r) => WorksOn(data, t, r),
         \A p \in UpkeepProcs : tx'[p] = tx[p] \/ tx'[p].job \notin {"clean", "clean now"}
  PROVE  /\ \A t \in CleanTasks : WorksOn(data', t, r) =>
              data'.rec[r].state = "queued" /\ data'.rec[r].task = t
         /\ \A p \in UpkeepProcs :
              tx'[p].job \in {"clean", "clean now"} /\ r \in Takeable(tx'[p].d) =>
                data'.rec[r] = tx'[p].d.rec[r] /\ \A t \in CleanTasks : ~WorksOn(data', t, r)
  BY DEF CleanupInv, TasksInv, TakenInv

LEMMA CleanupFrom ==
  ASSUME \A r \in Records \ retried' :
           /\ \A t \in CleanTasks : WorksOn(data', t, r) =>
                data'.rec[r].state = "queued" /\ data'.rec[r].task = t
           /\ \A p \in UpkeepProcs :
                tx'[p].job \in {"clean", "clean now"} /\ r \in Takeable(tx'[p].d) =>
                  data'.rec[r] = tx'[p].d.rec[r] /\ \A t \in CleanTasks : ~WorksOn(data', t, r)
  PROVE  CleanupInv'
<1>1. Takeable(data)' = Takeable(data') /\ \A p \in UpkeepProcs : Takeable(tx[p].d)' = Takeable(tx'[p].d)
  BY DEF Takeable, UnderWay
<1>2. QED
  BY <1>1 DEF CleanupInv, TasksInv, TakenInv

(* Nothing that concerns the cleanup changes.                               *)
LEMMA CleanupSame ==
  ASSUME CleanupInv, data'.rec = data.rec, data'.task = data.task, retried' = retried,
         \A p \in UpkeepProcs : tx'[p] = tx[p] \/ tx'[p].job \notin {"clean", "clean now"}
  PROVE  CleanupInv'
<1>1. \A t \in CleanTasks, r \in Records : WorksOn(data', t, r) => WorksOn(data, t, r)
  BY DEF WorksOn, UnderWay
<1>2. ASSUME NEW r \in Records \ retried'
      PROVE  /\ \A t \in CleanTasks : WorksOn(data', t, r) =>
                  data'.rec[r].state = "queued" /\ data'.rec[r].task = t
             /\ \A p \in UpkeepProcs :
                  tx'[p].job \in {"clean", "clean now"} /\ r \in Takeable(tx'[p].d) =>
                    data'.rec[r] = tx'[p].d.rec[r] /\ \A t \in CleanTasks : ~WorksOn(data', t, r)
  <2>1. r \notin retried /\ data'.rec[r] = data.rec[r]
    OBVIOUS
  <2>2. QED
    BY <1>1, <2>1, RecordsKept
<1>3. QED
  BY <1>2, CleanupFrom

(* A commit of a transaction that changes neither records nor tasks.        *)
LEMMA CommitSame ==
  ASSUME UpkeepTyped, NEW p \in UpkeepProcs, NEW new, Commit(p, new),
         new.rec = tx[p].d.rec, new.task = tx[p].d.task
  PROVE  /\ data'.rec = data.rec /\ data'.task = data.task
         /\ \A q \in UpkeepProcs : tx'[q] = tx[q] \/ tx'[q].job \notin {"clean", "clean now"}
<1>1. /\ Merge(tx[p].d, new).rec = [r \in Records |-> data.rec[r]]
      /\ Merge(tx[p].d, new).task = [t \in CleanTasks |-> data.task[t]]
  BY DEF Merge, Put
<1>2. data.rec \in [Records -> RecRows] /\ data.task \in [CleanTasks -> TaskRows]
  BY DEF UpkeepTyped, DataRows
<1>3. \A q \in UpkeepProcs : tx'[q] = tx[q] \/ tx'[q] = NoTx
  BY DEF Commit, UpkeepTyped
<1>4. NoTx.job = "none"
  BY DEF NoTx
<1>5. data' = Merge(tx[p].d, new)
  BY DEF Commit
<1>6. data'.rec = data.rec /\ data'.task = data.task
  BY <1>1, <1>2, <1>5
<1>7. QED
  BY <1>3, <1>4, <1>6

LEMMA BeginKeepsCleanup ==
  ASSUME UpkeepTyped, CleanupInv, NEW p \in UpkeepProcs, NEW job, BeginTx(p, job)
  PROVE  CleanupInv'
<1> DEFINE after == [job |-> job, at |-> clock, d |-> data]
<1>1. /\ \A q \in UpkeepProcs : tx'[q] = IF q = p THEN after ELSE tx[q]
      /\ data' = data /\ retried' = retried
  BY DEF BeginTx, UpkeepTyped
<1>2. after.d = data
  OBVIOUS
<1> HIDE DEF after
<1>3. ASSUME NEW r \in Records \ retried, r \in Takeable(data), NEW t \in CleanTasks
      PROVE  ~WorksOn(data, t, r)
  BY <1>3 DEF Takeable, WorksOn, CleanupInv, TasksInv
<1>4. ASSUME NEW r \in Records \ retried
      PROVE  /\ \A t \in CleanTasks : WorksOn(data', t, r) =>
                  data'.rec[r].state = "queued" /\ data'.rec[r].task = t
             /\ \A q \in UpkeepProcs :
                  tx'[q].job \in {"clean", "clean now"} /\ r \in Takeable(tx'[q].d) =>
                    data'.rec[r] = tx'[q].d.rec[r] /\ \A t \in CleanTasks : ~WorksOn(data', t, r)
  <2>1. \A t \in CleanTasks : WorksOn(data', t, r) =>
          data'.rec[r].state = "queued" /\ data'.rec[r].task = t
    BY <1>1 DEF CleanupInv, TasksInv
  <2>2. ASSUME NEW q \in UpkeepProcs, tx'[q].job \in {"clean", "clean now"}, r \in Takeable(tx'[q].d)
        PROVE  data'.rec[r] = tx'[q].d.rec[r] /\ \A t \in CleanTasks : ~WorksOn(data', t, r)
    <3>1. CASE q = p
      BY <1>1, <1>2, <1>3, <2>2, <3>1
    <3>2. CASE q # p
      BY <1>1, <2>2, <3>2 DEF CleanupInv, TakenInv
    <3>3. QED
      BY <3>1, <3>2
  <2>3. QED
    BY <2>1, <2>2
<1>5. QED
  BY <1>1, <1>4, CleanupFrom

LEMMA CleanKeepsCleanup ==
  ASSUME UpkeepTyped, OneInside, CleanupInv, NEW p \in UpkeepProcs, NEW t \in CleanTasks, Clean(p, t)
  PROVE  CleanupInv'
<1> DEFINE d == tx[p].d
           new == Cleaned(d, t, tx[p].at)
           rs == Takeable(d)
<1>1. /\ tx[p].job \in {"clean", "clean now"} /\ d \in DataRows
      /\ rs # {} => data.task[t].state = "none" /\ d.task[t].state = "none"
      /\ Commit(p, new) /\ retried' = retried
  BY InTransaction DEF Clean
<1>2. /\ new.rec = [r \in Records |-> IF r \in rs THEN [d.rec[r] EXCEPT !.state = "queued", !.task = t]
                                      ELSE d.rec[r]]
      /\ new.task = [d.task EXCEPT ![t] = IF rs = {} THEN @ ELSE NewTask(rs)]
  BY <1>1 DEF Cleaned, DataRows
<1>3. data' = Merge(d, new) /\ tx' = [tx EXCEPT ![p] = NoTx]
  BY <1>1 DEF Commit
<1>4. \A q \in UpkeepProcs : tx'[q].job \notin {"clean", "clean now"}
  <2>1. \A q \in UpkeepProcs : tx'[q] = IF q = p THEN NoTx ELSE tx[q]
    BY <1>3 DEF UpkeepTyped
  <2>2. NoTx.job = "none"
    BY DEF NoTx
  <2>3. ASSUME NEW q \in UpkeepProcs, q # p
        PROVE  tx[q].job \notin {"clean", "clean now"}
    BY <1>1, <2>3 DEF OneInside, Closed
  <2>4. QED
    BY <2>1, <2>2, <2>3
<1>5. ASSUME NEW r \in Records \ retried, r \in rs
      PROVE  data'.rec[r].state = "queued" /\ data'.rec[r].task = t
  <2>1. data.rec[r] = d.rec[r]
    BY <1>1, <1>5 DEF CleanupInv, TakenInv
  <2>2. data'.rec[r] = Put(new.rec[r], d.rec[r], data.rec[r])
    BY <1>3 DEF Merge
  <2>3. data'.rec[r] = new.rec[r]
    BY <2>1, <2>2 DEF Put
  <2>4. d.rec[r] \in RecRows
    BY <1>1 DEF DataRows
  <2>5. new.rec[r] = [d.rec[r] EXCEPT !.state = "queued", !.task = t]
    BY <1>2, <1>5
  <2>6. [d.rec[r] EXCEPT !.state = "queued", !.task = t].state = "queued"
        /\ [d.rec[r] EXCEPT !.state = "queued", !.task = t].task = t
    BY <2>4 DEF RecRows
  <2>7. QED
    BY <2>3, <2>5, <2>6
<1>6. ASSUME NEW r \in Records, r \notin rs
      PROVE  data'.rec[r] = data.rec[r]
  <2>1. data'.rec[r] = Put(new.rec[r], d.rec[r], data.rec[r])
    BY <1>3 DEF Merge
  <2>2. QED
    BY <1>2, <1>6, <2>1 DEF Put
<1>7. ASSUME NEW u \in CleanTasks, NEW r \in Records, WorksOn(data', u, r)
      PROVE  WorksOn(data, u, r) \/ (r \in rs /\ u = t)
  <2>1. data'.task[u] = Put(new.task[u], d.task[u], data.task[u])
    BY <1>3 DEF Merge
  <2>2. d.task \in [CleanTasks -> TaskRows]
    BY <1>1 DEF DataRows
  <2>3. new.task[u] = d.task[u] \/ (u = t /\ new.task[u] = NewTask(rs))
    BY <1>2, <2>2
  <2>4. data'.task[u] = data.task[u] \/ (u = t /\ data'.task[u] = NewTask(rs))
    BY <2>1, <2>3 DEF Put
  <2>5. QED
    BY <1>7, <2>4 DEF WorksOn, UnderWay, NewTask
<1> HIDE DEF d, new, rs
<1>8. ASSUME NEW r \in Records \ retried, NEW u \in CleanTasks, WorksOn(data', u, r)
      PROVE  data'.rec[r].state = "queued" /\ data'.rec[r].task = u
  <2>1. CASE r \in rs
    <3>1. ~WorksOn(data, u, r)
      BY <1>1, <2>1 DEF CleanupInv, TakenInv, d, rs
    <3>2. QED
      BY <1>5, <1>7, <1>8, <2>1, <3>1
  <2>2. CASE r \notin rs
    BY <1>6, <1>7, <1>8, <2>2 DEF CleanupInv, TasksInv
  <2>3. QED
    BY <2>1, <2>2
<1>9. QED
  BY <1>1, <1>4, <1>8, CleanupFrom

LEMMA TasksKeepCleanup ==
  ASSUME UpkeepTyped, CleanupInv, NEW t \in CleanTasks,
         StartTask(t) \/ LoseTask(t) \/ RetryTask(t) \/ DeleteTask(t)
  PROVE  CleanupInv'
<1>1. data.task[t] \in TaskRows /\ data.task \in [CleanTasks -> TaskRows] /\ data \in DataRows
  BY DEF UpkeepTyped, DataRows
<1>2. tx' = tx /\ data'.rec = data.rec /\ retried \subseteq retried'
      /\ \A u \in CleanTasks : u # t => data'.task[u] = data.task[u]
  <2>1. ASSUME NEW k, data' = [data EXCEPT !.task[t] = k]
        PROVE  data'.rec = data.rec /\ \A u \in CleanTasks : u # t => data'.task[u] = data.task[u]
    BY <1>1, <2>1 DEF DataRows
  <2>2. data'.rec = data.rec /\ \A u \in CleanTasks : u # t => data'.task[u] = data.task[u]
    <3>1. CASE StartTask(t)
      BY <1>1, <3>1 DEF StartTask, DataRows
    <3>2. CASE LoseTask(t)
      BY <1>1, <3>2 DEF LoseTask, DataRows
    <3>3. CASE RetryTask(t)
      BY <1>1, <3>3 DEF RetryTask, DataRows
    <3>4. CASE DeleteTask(t)
      BY <2>1, <3>4 DEF DeleteTask
    <3>5. QED
      BY <3>1, <3>2, <3>3, <3>4
  <2>3. tx' = tx /\ retried \subseteq retried'
    BY DEF StartTask, LoseTask, RetryTask, DeleteTask, OthersKept
  <2>4. QED
    BY <2>2, <2>3
<1>3. \A r \in Records \ retried' : WorksOn(data', t, r) => WorksOn(data, t, r)
  <2>1. CASE StartTask(t)
    <3>1. data'.task[t].recs = data.task[t].recs /\ data.task[t].state = "queued"
      BY <1>1, <2>1 DEF StartTask, DataRows, TaskRows
    <3>2. QED
      BY <3>1 DEF WorksOn, UnderWay
  <2>2. CASE LoseTask(t)
    <3>1. data'.task[t].state = "ended"
      BY <1>1, <2>2 DEF LoseTask, DataRows, TaskRows
    <3>2. QED
      BY <3>1 DEF WorksOn, UnderWay
  <2>3. CASE RetryTask(t)
    <3>1. data'.task[t].recs = data.task[t].recs /\ data.task[t].recs \subseteq retried'
      BY <1>1, <2>3 DEF RetryTask, DataRows, TaskRows
    <3>2. QED
      BY <3>1 DEF WorksOn
  <2>4. CASE DeleteTask(t)
    <3>1. data'.task[t].state = "none"
      BY <1>1, <2>4 DEF DeleteTask, DataRows
    <3>2. QED
      BY <3>1 DEF WorksOn, UnderWay
  <2>5. QED
    BY <2>1, <2>2, <2>3, <2>4
<1>4. ASSUME NEW r \in Records \ retried', NEW u \in CleanTasks, WorksOn(data', u, r)
      PROVE  WorksOn(data, u, r)
  BY <1>2, <1>3, <1>4 DEF WorksOn, UnderWay
<1>5. QED
  BY <1>2, <1>4, RecordsKept, CleanupFrom

LEMMA EndKeepsCleanup ==
  ASSUME UpkeepTyped, CleanupInv, NEW t \in CleanTasks, NEW done \in SUBSET Records,
         NEW left \in SUBSET Records, EndTask(t, done, left)
  PROVE  CleanupInv'
<1>1. data.task[t] \in TaskRows /\ data.task \in [CleanTasks -> TaskRows] /\ data \in DataRows
  BY DEF UpkeepTyped, DataRows
<1>2. /\ tx' = tx /\ retried' = retried /\ data'.rec = Performed(t, done, left)
      /\ data'.task = [data.task EXCEPT ![t] = [state |-> "ended", recs |-> @.recs \ done, have |-> {}]]
      /\ done \cup left \subseteq data.task[t].have /\ UnderWay(data.task[t])
  BY <1>1 DEF EndTask, OthersKept, DataRows, UnderWay
<1>3. \A u \in CleanTasks : IF u = t THEN data'.task[u].state = "ended" ELSE data'.task[u] = data.task[u]
  BY <1>1, <1>2
<1>4. ASSUME NEW u \in CleanTasks, NEW r \in Records, WorksOn(data', u, r)
      PROVE  u # t /\ WorksOn(data, u, r)
  BY <1>3, <1>4 DEF WorksOn, UnderWay
<1>5. ASSUME NEW r \in Records, r \notin data.task[t].have
      PROVE  data'.rec[r] = data.rec[r]
  BY <1>2, <1>5 DEF Performed
<1>6. ASSUME NEW r \in Records \ retried, r \in data.task[t].have
      PROVE  WorksOn(data, t, r)
  BY <1>1, <1>2, <1>6 DEF WorksOn, TaskRows
<1>7. ASSUME NEW r \in Records \ retried', r \in data.task[t].have
      PROVE  /\ \A u \in CleanTasks : ~WorksOn(data', u, r)
             /\ \A p \in UpkeepProcs :
                  ~(tx'[p].job \in {"clean", "clean now"} /\ r \in Takeable(tx'[p].d))
  <2>1. WorksOn(data, t, r) /\ r \in Records \ retried
    BY <1>2, <1>6, <1>7
  <2>2. ASSUME NEW u \in CleanTasks, WorksOn(data', u, r)
        PROVE  FALSE
    BY <1>4, <2>1, <2>2 DEF CleanupInv, TasksInv
  <2>3. ASSUME NEW p \in UpkeepProcs, tx[p].job \in {"clean", "clean now"}, r \in Takeable(tx[p].d)
        PROVE  FALSE
    BY <2>1, <2>3 DEF CleanupInv, TakenInv
  <2>4. QED
    BY <1>2, <2>2, <2>3
<1>8. QED
  BY <1>2, <1>4, <1>5, <1>7, RecordsKept, CleanupFrom

LEMMA CleanupKept ==
  ASSUME UpkeepTyped, OneInside, CleanupInv, [UpkeepNext]_upkeepVars
  PROVE  CleanupInv'
<1>1. ASSUME NEW p \in UpkeepProcs,
             \/ \E choice \in [Jobs -> Choices] : SaveTimes(p, choice)
             \/ \E c \in Choices : SaveOwn(p, c)
             \/ View(p) \/ ViewOwn(p) \/ Unlisted(p) \/ UnlistedNow(p) \/ CleanNotDue(p)
      PROVE  CleanupInv'
  <2>1. tx[p].d \in DataRows /\ retried' = retried
    BY <1>1, InTransaction DEF SaveTimes, SaveOwn, View, ViewOwn, Unlisted, UnlistedNow, CleanNotDue, At
  <2> DEFINE Rest(new) == new.rec = tx[p].d.rec /\ new.task = tx[p].d.task
  <2>2. /\ \A choice : Rest(SavedTimes(tx[p].d, choice, tx[p].at))
        /\ \A c : Rest(SavedOwn(tx[p].d, c, tx[p].at))
    BY <2>1 DEF SavedTimes, SavedOwn, DataRows
  <2>3. /\ Rest(Viewed(tx[p].d, tx[p].at)) /\ Rest(ViewedOwn(tx[p].d, tx[p].at))
        /\ Rest(Served(tx[p].d, "unlisted", tx[p].at)) /\ Rest(NotDue(tx[p].d))
    BY <2>1 DEF Viewed, ViewedOwn, Served, NotDue, DataRows
  <2> HIDE DEF Rest
  <2>4. \E new : Commit(p, new) /\ Rest(new)
    BY <1>1, <2>2, <2>3 DEF SaveTimes, SaveOwn, View, ViewOwn, Unlisted, UnlistedNow, CleanNotDue
  <2>5. PICK new : Commit(p, new) /\ new.rec = tx[p].d.rec /\ new.task = tx[p].d.task
    BY <2>4 DEF Rest
  <2>6. QED
    BY <2>1, <2>5, CommitSame, CleanupSame
<1>2. ASSUME NEW p \in UpkeepProcs, SyncDue(p)
      PROVE  CleanupInv'
  <2> DEFINE new == IF TimeDue(tx[p].d, "sync", tx[p].at) THEN Served(tx[p].d, "sync", tx[p].at)
                    ELSE Viewed(tx[p].d, tx[p].at)
             after == IF TimeDue(tx[p].d, "sync", tx[p].at)
                      THEN [job |-> "create", at |-> tx[p].at, d |-> tx[p].d] ELSE NoTx
  <2>1. tx[p].d \in DataRows /\ retried' = retried
    BY <1>2, InTransaction DEF SyncDue, At
  <2>2. new.rec = tx[p].d.rec /\ new.task = tx[p].d.task
    BY <2>1 DEF Served, Viewed, DataRows
  <2>3. data' = Merge(tx[p].d, new) /\ tx' = [tx EXCEPT ![p] = after]
    BY <1>2 DEF SyncDue
  <2>4. after.job \notin {"clean", "clean now"}
    BY DEF NoTx
  <2> HIDE DEF new, after
  <2>5. /\ Merge(tx[p].d, new).rec = [r \in Records |-> data.rec[r]]
        /\ Merge(tx[p].d, new).task = [t \in CleanTasks |-> data.task[t]]
    BY <2>2 DEF Merge, Put
  <2>6. data'.rec = data.rec /\ data'.task = data.task
    BY <2>3, <2>5 DEF UpkeepTyped, DataRows
  <2>7. \A q \in UpkeepProcs : tx'[q] = tx[q] \/ tx'[q].job \notin {"clean", "clean now"}
    BY <2>3, <2>4 DEF UpkeepTyped
  <2>8. QED
    BY <2>1, <2>6, <2>7, CleanupSame
<1>3. ASSUME NEW p \in UpkeepProcs, CreateSyncs(p) \/ Recorded(p) \/ Fails(p)
      PROVE  CleanupInv'
  <2>1. retried' = retried /\ data'.rec = data.rec /\ data'.task = data.task
    BY <1>3 DEF CreateSyncs, Recorded, Fails, UpkeepTyped, DataRows
  <2>2. \A q \in UpkeepProcs : tx'[q] = tx[q] \/ tx'[q].job \notin {"clean", "clean now"}
    <3>1. CASE CreateSyncs(p)
      <4>1. tx[p] \in Transactions
        BY <3>1, InTransaction DEF CreateSyncs, At
      <4>2. [[tx[p] EXCEPT !.job = "record"] EXCEPT !.d = ReadAgain(p)].job = "record"
        BY <4>1 DEF Transactions
      <4>3. tx' = [tx EXCEPT ![p] = [[tx[p] EXCEPT !.job = "record"] EXCEPT !.d = ReadAgain(p)]]
        BY <3>1 DEF CreateSyncs
      <4>4. QED
        BY <4>2, <4>3 DEF UpkeepTyped
    <3>2. CASE Recorded(p) \/ Fails(p)
      <4>1. \A q \in UpkeepProcs : tx'[q] = tx[q] \/ tx'[q] = NoTx
        BY <3>2 DEF Recorded, Fails, UpkeepTyped
      <4>2. NoTx.job = "none"
        BY DEF NoTx
      <4>3. QED
        BY <4>1, <4>2
    <3>3. QED
      BY <1>3, <3>1, <3>2
  <2>3. QED
    BY <2>1, <2>2, CleanupSame
<1>4. CASE Tick
  BY <1>4, CleanupSame DEF Tick
<1>5. CASE UNCHANGED upkeepVars
  BY <1>5, CleanupSame DEF upkeepVars
<1>6. ASSUME NEW r \in Records, QueueRecord(r)
      PROVE  CleanupInv'
  <2>1. /\ data'.task = data.task /\ tx' = tx /\ retried' = retried
        /\ \A o \in Records : o # r => data'.rec[o] = data.rec[o]
    BY <1>6 DEF QueueRecord, OthersKept, UpkeepTyped, DataRows
  <2>2. \A t \in CleanTasks, o \in Records : WorksOn(data', t, o) = WorksOn(data, t, o)
    BY <2>1 DEF WorksOn, UnderWay
  <2>3. \A t \in CleanTasks : ~WorksOn(data, t, r)
    BY <1>6 DEF QueueRecord, WorksOn
  <2>4. ASSUME NEW p \in UpkeepProcs, r \notin retried, tx[p].job \in {"clean", "clean now"},
               r \in Takeable(tx[p].d)
        PROVE  FALSE
    BY <1>6, <2>4 DEF QueueRecord, CleanupInv, TakenInv, Takeable
  <2>5. ASSUME NEW o \in Records \ retried'
        PROVE  /\ \A t \in CleanTasks : WorksOn(data', t, o) =>
                    data'.rec[o].state = "queued" /\ data'.rec[o].task = t
               /\ \A p \in UpkeepProcs :
                    tx'[p].job \in {"clean", "clean now"} /\ o \in Takeable(tx'[p].d) =>
                      data'.rec[o] = tx'[p].d.rec[o] /\ \A t \in CleanTasks : ~WorksOn(data', t, o)
    <3>1. CASE o = r
      BY <2>1, <2>2, <2>3, <2>4, <2>5, <3>1
    <3>2. CASE o # r
      <4>1. o \notin retried /\ data'.rec[o] = data.rec[o] /\ \A p \in UpkeepProcs : tx'[p] = tx[p]
        BY <2>1, <2>5, <3>2
      <4>2. QED
        BY <2>2, <2>5, <4>1, RecordsKept
    <3>3. QED
      BY <3>1, <3>2
  <2>6. QED
    BY <2>5, CleanupFrom
<1>7. ASSUME NEW p \in Runners, Round(p)
      PROVE  CleanupInv'
  <2>1. p \in UpkeepProcs
    BY DEF UpkeepProcs
  <2>2. QED
    BY <1>1, <1>2, <1>3, <1>7, <2>1, BeginKeepsCleanup DEF Round
<1>8. ASSUME NEW p \in Requests, Request(p)
      PROVE  CleanupInv'
  <2>1. p \in UpkeepProcs
    BY DEF UpkeepProcs
  <2>2. QED
    BY <1>1, <1>8, <2>1, BeginKeepsCleanup DEF Request
<1>9. QED
  BY <1>3, <1>4, <1>5, <1>6, <1>7, <1>8, CleanKeepsCleanup, TasksKeepCleanup, EndKeepsCleanup DEF UpkeepNext

LEMMA CleanupGivesOne == CleanupInv => OneCleanup
<1> SUFFICES ASSUME CleanupInv, NEW r \in Records \ retried
             PROVE  Cardinality({t \in CleanTasks : UnderWay(data.task[t]) /\ r \in data.task[t].recs}) <= 1
  BY DEF OneCleanup
<1> DEFINE S == {t \in CleanTasks : UnderWay(data.task[t]) /\ r \in data.task[t].recs}
<1>1. \A t, o \in S : t = o
  BY DEF CleanupInv, TasksInv, WorksOn
<1>2. CASE S = {}
  <2>1. Cardinality(S) = 0
    BY <1>2, FS_EmptySet
  <2>2. QED
    BY <2>1
<1>3. CASE S # {}
  <2>1. PICK t \in S : TRUE
    BY <1>3
  <2>2. S = {t}
    BY <1>1, <2>1
  <2>3. Cardinality(S) = 1
    BY <2>2, FS_Singleton
  <2>4. QED
    BY <2>3
<1>4. QED
  BY <1>2, <1>3

UpkeepInv == UpkeepTyped /\ SettingsInv /\ CleanupInv

(* Every variable of the upkeep holds values of its kind.                   *)
THEOREM UpkeepIsTyped == UpkeepSpec => []UpkeepTypeOK
<1>1. UpkeepInit => UpkeepTyped
  BY UpkeepInitTyped
<1>2. UpkeepTyped /\ [UpkeepNext]_upkeepVars => UpkeepTyped'
  BY UpkeepTyping
<1>3. UpkeepTyped => UpkeepTypeOK
  <2> SUFFICES ASSUME UpkeepTyped PROVE UpkeepTypeOK
    OBVIOUS
  <2>1. data.times \in TimesRows /\ data.own \in OwnRows /\ retried \subseteq Records
    BY DEF UpkeepTyped, DataRows
  <2>2. \A r \in Records : data.rec[r] \in RecRows
    BY DEF UpkeepTyped, DataRows
  <2>3. \A t \in CleanTasks : data.task[t] \in TaskRows
    BY DEF UpkeepTyped, DataRows
  <2>4. \A r \in Records : data.rec[r].state = "queued" => data.rec[r].task \in CleanTasks
    BY <2>2 DEF RecRows
  <2>5. \A t \in CleanTasks : data.task[t].have \subseteq data.task[t].recs
    BY <2>3 DEF TaskRows
  <2>6. /\ data.times.choice \in [Jobs -> {"on", "off"}] /\ data.own.choice \in {"on", "off"}
        /\ data.times.next \in [Jobs -> 0..MaxClock + 1] /\ data.own.next \in 0..MaxClock + 1
    BY <2>1 DEF TimesRows, OwnRows
  <2>7. QED
    BY <2>1, <2>4, <2>5, <2>6 DEF UpkeepTypeOK
<1>4. QED
  BY <1>1, <1>2, <1>3, PTL DEF UpkeepSpec

(* save_time_settings, cleanup_store_unlisted_products,                     *)
(* create_deleted_product_image_cleanup_tasks: if transactions on the rows  *)
(* of an owner do not overlap, and the cleanup of images has a due time     *)
(* before the first round, the rows keep what the user has chosen last, a   *)
(* due time is served once at most, no period of the cleanup is left out,   *)
(* and no record is in two tasks, unless a user has retried one.            *)
THEOREM UpkeepKept ==
  ASSUME SerialRows, RowFirst
  PROVE  UpkeepSpec => [](ChoicesKept /\ DueOnce /\ CleanedInTime /\ OneCleanup)
<1>1. UpkeepInit => UpkeepInv
  <2> SUFFICES ASSUME UpkeepInit PROVE UpkeepInv
    OBVIOUS
  <2>1. \A r \in Records, t \in CleanTasks : ~WorksOn(data, t, r)
    BY DEF UpkeepInit, WorksOn
  <2>2. \A p \in UpkeepProcs : tx[p].job = "none"
    BY DEF UpkeepInit, NoTx
  <2>3. CleanupInv
    BY <2>1, <2>2 DEF CleanupInv, TasksInv, TakenInv
  <2>4. QED
    BY <2>3, UpkeepInitTyped, SettingsInit DEF UpkeepInv
<1>2. UpkeepInv /\ [UpkeepNext]_upkeepVars => UpkeepInv'
  <2> SUFFICES ASSUME UpkeepInv, [UpkeepNext]_upkeepVars PROVE UpkeepInv'
    OBVIOUS
  <2>1. UpkeepTyped'
    BY UpkeepTyping DEF UpkeepInv
  <2>2. SettingsInv'
    BY <2>1, SettingsKept DEF UpkeepInv
  <2>3. CleanupInv'
    BY CleanupKept DEF UpkeepInv, SettingsInv
  <2>4. QED
    BY <2>1, <2>2, <2>3 DEF UpkeepInv
<1>3. UpkeepInv => ChoicesKept /\ DueOnce /\ CleanedInTime /\ OneCleanup
  <2> SUFFICES ASSUME UpkeepInv PROVE ChoicesKept /\ DueOnce /\ CleanedInTime /\ OneCleanup
    OBVIOUS
  <2>1. ChoicesKept /\ DueOnce /\ CleanedInTime
    BY DEF UpkeepInv, SettingsInv, ChoiceInv, ServedInv, LookInv, ChoicesKept, DueOnce, CleanedInTime
  <2>2. QED
    BY <2>1, CleanupGivesOne DEF UpkeepInv
<1>4. QED
  BY <1>1, <1>2, <1>3, PTL DEF UpkeepSpec

-----------------------------------------------------------------------------
(* Titles: what the variables may hold. *)
Sources == {"original", "ai", "final", "deleted"}
ProductRows == [there : BOOLEAN, status : ProductStatuses, store : BOOLEAN, title : Texts, sub : Texts]
VersionRows == [Ids -> [there : BOOLEAN, title : Texts, sub : Texts, source : Sources, selected : BOOLEAN]]
Readings == [task : BOOLEAN, id : Nat, row : ProductRows, remote : Texts, own : BOOLEAN]
TitlePhases == {"idle", "write", "save", "fetch", "sync", "test"}

TitlesTyped ==
  /\ product \in ProductRows /\ version \in VersionRows /\ remote \in Texts
  /\ settings \in [model : 0..MaxModels, verified : BOOLEAN]
  /\ doing \in [TitleProcs -> TitlePhases]
  /\ read \in [TitleProcs -> Readings]

(* The rows of versions: an id is given once, rows with the same text are   *)
(* all written by a model, one at most is in use.                           *)
UsedIds(rows) == {v \in Ids : rows[v].there \/ rows[v].source = "deleted"}
SameText(rows, v, w) ==
  rows[v].there /\ rows[w].there /\ rows[v].title = rows[w].title /\ rows[v].sub = rows[w].sub
RowsInv(rows) ==
  /\ \A v \in Ids : rows[v].there => rows[v].source # "deleted"
  /\ \E n \in 0..MaxVersions : UsedIds(rows) = 1..n
  /\ \A v, w \in Ids : SameText(rows, v, w) =>
       v = w \/ (rows[v].source = "ai" /\ rows[w].source = "ai")
  /\ \A v, w \in Ids : rows[v].there /\ rows[w].there /\ rows[v].selected /\ rows[w].selected => v = w

(* What a user has chosen is the text, and that of the version in use.      *)
Holds(rows, entry, v) ==
  /\ rows[v].there /\ rows[v].selected /\ rows[v].source # "original"
  /\ rows[v].title = entry.title /\ rows[v].sub = entry.sub
ChosenInv ==
  chosen # NoChoice =>
    /\ product.there /\ chosen = <<product.title, product.sub>>
    /\ \E v \in Ids : Holds(version, product, v)

(* A sync has read that, if a user had chosen.                              *)
SyncInv ==
  \A p \in Syncers : doing[p] \in {"fetch", "sync"} /\ chosen # NoChoice =>
    read[p].own /\ read[p].row.sub = product.sub
(* While a version is written the product is not approved; of an approved   *)
(* one a written version is left at most.                                   *)
WriteInv == \A p \in Writers : doing[p] = "write" => product.status # "approved"
Written(rows, v) == rows[v].there /\ rows[v].source = "ai"
ApprovedInv ==
  product.there /\ product.status = "approved" =>
    \A v, w \in Ids : Written(version, v) /\ Written(version, w) => v = w
(* A test that is under way has read the model of the settings.             *)
TestInv ==
  /\ settings.verified => settings.model \in passed
  /\ \A p \in Testers : doing[p] = "test" => read[p].id = settings.model

TitlesInv ==
  /\ TitlesTyped /\ RowsInv(version) /\ ChosenInv /\ SyncInv /\ WriteInv /\ ApprovedInv /\ TestInv

-----------------------------------------------------------------------------
(* What the operations make of the rows of versions. *)
LEMMA SelectedRows ==
  ASSUME NEW rows \in VersionRows, NEW v \in Ids
  PROVE  /\ Select(rows, v) \in VersionRows
         /\ \A w \in Ids :
              /\ Select(rows, v)[w].there = rows[w].there
              /\ Select(rows, v)[w].title = rows[w].title
              /\ Select(rows, v)[w].sub = rows[w].sub
              /\ Select(rows, v)[w].source = rows[w].source
              /\ rows[w].there => (Select(rows, v)[w].selected <=> w = v)
         /\ RowsInv(rows) => RowsInv(Select(rows, v))
<1> DEFINE new == Select(rows, v)
<1>1. \A w \in Ids : new[w] = IF rows[w].there THEN [rows[w] EXCEPT !.selected = (w = v)] ELSE rows[w]
  BY DEF Select
<1>2. new \in VersionRows
  BY DEF Select, VersionRows
<1>3. ASSUME NEW w \in Ids
      PROVE  /\ new[w].there = rows[w].there /\ new[w].title = rows[w].title
             /\ new[w].sub = rows[w].sub /\ new[w].source = rows[w].source
             /\ rows[w].there => (new[w].selected <=> w = v)
  BY <1>1 DEF VersionRows
<1> HIDE DEF new
<1>4. UsedIds(new) = UsedIds(rows)
  BY <1>3 DEF UsedIds
<1>5. RowsInv(rows) => RowsInv(new)
  BY <1>3, <1>4 DEF RowsInv, SameText
<1>6. QED
  BY <1>2, <1>3, <1>5 DEF new

LEMMA DroppedRows ==
  ASSUME NEW rows \in VersionRows, NEW out \in SUBSET Ids, \A w \in out : rows[w].there
  PROVE  /\ Drop(rows, out) \in VersionRows
         /\ \A w \in out : ~Drop(rows, out)[w].there
         /\ \A w \in Ids \ out : Drop(rows, out)[w] = rows[w]
         /\ RowsInv(rows) => RowsInv(Drop(rows, out))
<1> DEFINE new == Drop(rows, out)
<1>1. \A w \in Ids : new[w] = IF w \in out THEN [NoVersion EXCEPT !.source = "deleted"] ELSE rows[w]
  BY DEF Drop
<1>2. new \in VersionRows
  BY TitlesAssumption DEF Drop, VersionRows, NoVersion, Sources, TitleConstants
<1>3. /\ \A w \in out : new[w].there = FALSE /\ new[w].source = "deleted"
      /\ \A w \in Ids \ out : new[w] = rows[w]
  BY <1>1 DEF NoVersion
<1> HIDE DEF new
<1>4. UsedIds(new) = UsedIds(rows)
  BY <1>3 DEF UsedIds
<1>5. RowsInv(rows) => RowsInv(new)
  BY <1>3, <1>4 DEF RowsInv, SameText
<1>6. QED
  BY <1>2, <1>3, <1>5 DEF new

(* The next id is a new one. *)
LEMMA NextNumber ==
  ASSUME version \in VersionRows, RowsInv(version)
  PROVE  \E n \in 0..MaxVersions : UsedIds(version) = 1..n /\ NextId = n + 1
<1> DEFINE out == {v \in Ids : version[v].source = "deleted"}
<1>1. PICK n \in 0..MaxVersions : UsedIds(version) = 1..n
  BY DEF RowsInv
<1>2. MaxVersions \in Nat /\ n \in Nat
  BY TitlesAssumption DEF TitleConstants
<1>3. IsFiniteSet(Ids)
  BY <1>2, FS_Interval DEF Ids
<1>4. Rows \subseteq Ids /\ out \subseteq Ids /\ Rows \cap out = {} /\ Rows \cup out = 1..n
  BY <1>1 DEF Rows, UsedIds, RowsInv
<1>5. IsFiniteSet(Rows) /\ IsFiniteSet(out)
  BY <1>3, <1>4, FS_Subset
<1>6. Cardinality(Rows \cup out) = Cardinality(Rows) + Cardinality(out) - Cardinality(Rows \cap out)
  BY <1>5, FS_Union
<1>7. Cardinality(1..n) = n /\ Cardinality(Rows \cap out) = 0
  <2>1. Cardinality(1..n) = IF 1 > n THEN 0 ELSE n - 1 + 1
    BY <1>2, FS_Interval
  <2>2. Cardinality(Rows \cap out) = 0
    BY <1>4, FS_EmptySet
  <2>3. QED
    BY <1>2, <2>1, <2>2
<1>8. Cardinality(Rows) \in Nat /\ Cardinality(out) \in Nat
  BY <1>5, FS_CardinalityType
<1>9. Cardinality(Rows) + Cardinality(out) = n
  <2>1. Cardinality(Rows \cup out) = n
    BY <1>4, <1>7
  <2> HIDE DEF out
  <2>2. QED
    BY <1>6, <1>7, <1>8, <2>1
<1>10. NextId = n + 1
  BY <1>2, <1>8, <1>9 DEF NextId
<1>11. QED
  BY <1>1, <1>10

LEMMA AddedRows ==
  ASSUME version \in VersionRows, RowsInv(version), NextId \in Ids,
         NEW t \in Texts, NEW b \in Texts, NEW source \in Sources \ {"deleted"}
  PROVE  /\ Add(NextId, t, b, source) \in VersionRows
         /\ NextId \notin UsedIds(version)
         /\ \A w \in Ids : w # NextId => Add(NextId, t, b, source)[w] = version[w]
         /\ Add(NextId, t, b, source)[NextId] =
              [there |-> TRUE, title |-> t, sub |-> b, source |-> source, selected |-> FALSE]
         /\ (\A v \in Rows : version[v].title = t /\ version[v].sub = b =>
               source = "ai" /\ version[v].source = "ai")
              => RowsInv(Add(NextId, t, b, source))
<1> DEFINE new == Add(NextId, t, b, source)
           entry == [there |-> TRUE, title |-> t, sub |-> b, source |-> source, selected |-> FALSE]
<1>1. PICK n \in 0..MaxVersions : UsedIds(version) = 1..n /\ NextId = n + 1
  BY NextNumber
<1>2. MaxVersions \in Nat /\ n \in Nat /\ n + 1 \in 0..MaxVersions /\ n + 1 \notin 1..n
      /\ 1..(n + 1) = (1..n) \cup {n + 1}
  BY <1>1, TitlesAssumption DEF TitleConstants, Ids
<1>3. new \in VersionRows /\ new[NextId] = entry /\ \A w \in Ids : w # NextId => new[w] = version[w]
  BY DEF Add, VersionRows
<1>4. entry.there = TRUE /\ entry.title = t /\ entry.sub = b /\ entry.source = source /\ entry.selected = FALSE
  OBVIOUS
<1> HIDE DEF new, entry
<1>5. UsedIds(new) = 1..(n + 1)
  <2>1. UsedIds(new) = UsedIds(version) \cup {NextId}
    BY <1>3, <1>4 DEF UsedIds
  <2>2. QED
    BY <1>1, <1>2, <2>1
<1>6. ASSUME \A v \in Rows : version[v].title = t /\ version[v].sub = b =>
               source = "ai" /\ version[v].source = "ai"
      PROVE  RowsInv(new)
  <2>1. \A v \in Ids : new[v].there => new[v].source # "deleted"
    BY <1>3, <1>4 DEF RowsInv
  <2>2. ASSUME NEW v \in Ids, NEW w \in Ids, SameText(new, v, w), v # w
        PROVE  new[v].source = "ai" /\ new[w].source = "ai"
    <3>1. CASE v # NextId /\ w # NextId
      BY <1>3, <2>2, <3>1 DEF RowsInv, SameText
    <3>2. CASE v = NextId
      <4>1. w \in Rows /\ version[w].title = t /\ version[w].sub = b /\ new[w] = version[w]
        BY <1>3, <1>4, <2>2, <3>2 DEF SameText, Rows
      <4>2. QED
        BY <1>3, <1>4, <1>6, <3>2, <4>1
    <3>3. CASE w = NextId
      <4>1. v \in Rows /\ version[v].title = t /\ version[v].sub = b /\ new[v] = version[v]
        BY <1>3, <1>4, <2>2, <3>3 DEF SameText, Rows
      <4>2. QED
        BY <1>3, <1>4, <1>6, <3>3, <4>1
    <3>4. QED
      BY <3>1, <3>2, <3>3
  <2>3. \A v, w \in Ids : new[v].there /\ new[w].there /\ new[v].selected /\ new[w].selected => v = w
    BY <1>3, <1>4 DEF RowsInv
  <2>4. \E k \in 0..MaxVersions : UsedIds(new) = 1..k
    BY <1>2, <1>5
  <2>5. QED
    BY <2>1, <2>2, <2>3, <2>4 DEF RowsInv
<1>7. QED
  BY <1>1, <1>2, <1>3, <1>6 DEF new, entry

-----------------------------------------------------------------------------
(* The operations that change the rows of versions: what is left of them,   *)
(* and that a choice of the user stays with them.                           *)
RowsChanged ==
  /\ version' \in VersionRows /\ RowsInv(version')
  /\ chosen # NoChoice => \E v \in Ids : Holds(version', product, v)

(* Of the versions that are shown, if a user has chosen the text, none is   *)
(* an original.                                                             *)
LEMMA ShownChoice ==
  ASSUME TitlesInv, chosen # NoChoice, NEW v \in Rows, Shown(v)
  PROVE  version[v].source # "original"
<1>1. PICK w \in Ids : Holds(version, product, w)
  BY DEF TitlesInv, ChosenInv
<1>2. SameText(version, v, w) /\ v \in Ids
  BY <1>1 DEF SameText, Holds, Rows, Shown
<1>3. version[v].there
  BY DEF Rows
<1>4. QED
  BY <1>1, <1>2 DEF TitlesInv, RowsInv, Holds

LEMMA SelectKeeps ==
  ASSUME NEW rows \in VersionRows, RowsInv(rows), NEW v \in Ids, rows[v].there,
         rows[v].title = product.title, rows[v].sub = product.sub,
         chosen # NoChoice => rows[v].source # "original",
         version' = Select(rows, v)
  PROVE  RowsChanged
<1>1. version' \in VersionRows /\ RowsInv(version')
  BY SelectedRows
<1>2. /\ version'[v].there = TRUE /\ version'[v].title = product.title /\ version'[v].sub = product.sub
      /\ version'[v].source = rows[v].source /\ version'[v].selected
  BY SelectedRows DEF VersionRows
<1>3. QED
  BY <1>1, <1>2 DEF RowsChanged, Holds

LEMMA ListedRows ==
  ASSUME TitlesInv, ListVersions
  PROVE  /\ RowsChanged
         /\ \A v \in Ids : Written(version', v) => Written(version, v)
<1> DEFINE shown == {v \in Rows : Shown(v)}
<1>1. version \in VersionRows /\ RowsInv(version) /\ product.title \in Texts /\ product.sub \in Texts
      /\ MaxVersions \in Nat
  BY TitlesAssumption DEF TitlesInv, TitlesTyped, ProductRows, TitleConstants
<1>2. CASE shown # {}
  <2> DEFINE v == CHOOSE v \in shown : \A w \in shown : w <= v
  <2>1. shown \in SUBSET (0..MaxVersions)
    BY <1>1 DEF Rows, Ids
  <2>2. \E k \in shown : \A w \in shown : w <= k
    <3> HIDE DEF shown
    <3>1. QED
      BY <1>1, <1>2, <2>1, GreatestNumber
  <2>3. v \in shown
    <3> HIDE DEF shown
    <3>1. QED
      BY <2>2
  <2>4. version' = Select(version, v)
    BY <1>2 DEF ListVersions
  <2> HIDE DEF v
  <2>5. /\ v \in Ids /\ version[v].there /\ v \in Rows /\ Shown(v)
        /\ version[v].title = product.title /\ version[v].sub = product.sub
    BY <2>3 DEF Rows, Shown
  <2>6. chosen # NoChoice => version[v].source # "original"
    BY <2>5, ShownChoice
  <2>7. RowsChanged
    BY <1>1, <2>4, <2>5, <2>6, SelectKeeps
  <2>8. \A w \in Ids : Written(version', w) => Written(version, w)
    BY <1>1, <2>4, <2>5, SelectedRows DEF Written
  <2>9. QED
    BY <2>7, <2>8
<1>3. CASE shown = {}
  <2> DEFINE rows == Add(NextId, product.title, product.sub, "original")
  <2>1. NextId \in Ids /\ version' = Select(rows, NextId)
    BY <1>3 DEF ListVersions
  <2>2. chosen = NoChoice
    BY <1>3 DEF TitlesInv, ChosenInv, Holds, Rows, Shown
  <2>3. /\ rows \in VersionRows /\ RowsInv(rows)
        /\ rows[NextId].there = TRUE /\ rows[NextId].title = product.title /\ rows[NextId].sub = product.sub
        /\ rows[NextId].source = "original"
        /\ \A w \in Ids : w # NextId => rows[w] = version[w]
    <3>1. "original" \in Sources \ {"deleted"}
      BY DEF Sources
    <3>2. \A v \in Rows : version[v].title = product.title /\ version[v].sub = product.sub =>
            "original" = "ai" /\ version[v].source = "ai"
      BY <1>3 DEF Shown
    <3>3. RowsInv(rows)
      BY <1>1, <2>1, <3>1, <3>2, AddedRows
    <3>4. /\ rows \in VersionRows /\ \A w \in Ids : w # NextId => rows[w] = version[w]
          /\ rows[NextId] = [there |-> TRUE, title |-> product.title, sub |-> product.sub,
                             source |-> "original", selected |-> FALSE]
      BY <1>1, <2>1, <3>1, AddedRows
    <3> HIDE DEF rows
    <3>5. QED
      BY <3>3, <3>4
  <2> HIDE DEF rows
  <2>4. RowsChanged
    BY <2>1, <2>2, <2>3, SelectKeeps
  <2>5. \A w \in Ids : Written(version', w) => Written(version, w)
    BY <2>1, <2>3, SelectedRows DEF Written
  <2>6. QED
    BY <2>4, <2>5
<1>4. QED
  BY <1>2, <1>3

LEMMA SavedRows ==
  ASSUME TitlesInv, NEW v, Saved(v)
  PROVE  /\ version' \in VersionRows /\ RowsInv(version')
         /\ product' \in ProductRows /\ product'.there /\ product'.status = product.status
         /\ product.status \in Editable
         /\ chosen' # NoChoice =>
              chosen' = <<product'.title, product'.sub>> /\ \E w \in Ids : Holds(version', product', w)
<1>1. /\ version \in VersionRows /\ RowsInv(version) /\ v \in Ids /\ version[v].there
      /\ product \in ProductRows /\ product.there /\ product.status \in Editable
      /\ version' = Select(version, v)
      /\ product' = [product EXCEPT !.title = version[v].title, !.sub = version[v].sub]
      /\ chosen' = IF version[v].source = "original" THEN NoChoice
                   ELSE <<version[v].title, version[v].sub>>
  BY DEF TitlesInv, TitlesTyped, Saved, Rows
<1>2. version[v].title \in Texts /\ version[v].sub \in Texts
  BY <1>1 DEF VersionRows
<1>3. /\ product' \in ProductRows /\ product'.there /\ product'.status = product.status
      /\ product'.title = version[v].title /\ product'.sub = version[v].sub
  BY <1>1, <1>2 DEF ProductRows
<1>4. version' \in VersionRows /\ RowsInv(version')
  BY <1>1, SelectedRows
<1>5. /\ version'[v].there /\ version'[v].title = version[v].title /\ version'[v].sub = version[v].sub
      /\ version'[v].source = version[v].source /\ version'[v].selected
  BY <1>1, SelectedRows
<1>6. QED
  BY <1>1, <1>3, <1>4, <1>5 DEF Holds

LEMMA DeletedRow ==
  ASSUME TitlesInv, NEW v \in Ids, DeleteVersion(v)
  PROVE  /\ RowsChanged
         /\ \A w \in Ids : Written(version', w) => Written(version, w)
<1>1. /\ version \in VersionRows /\ RowsInv(version) /\ version[v].there /\ ~version[v].selected
      /\ version' = Drop(version, {v})
  BY DEF TitlesInv, TitlesTyped, DeleteVersion, Rows
<1>2. /\ version' \in VersionRows /\ RowsInv(version') /\ ~version'[v].there
      /\ \A w \in Ids : w # v => version'[w] = version[w]
  <2>1. {v} \in SUBSET Ids /\ \A w \in {v} : version[w].there
    BY <1>1
  <2>2. QED
    BY <1>1, <2>1, DroppedRows
<1>3. chosen # NoChoice => \E w \in Ids : Holds(version', product, w)
  BY <1>1, <1>2 DEF TitlesInv, ChosenInv, Holds
<1>4. QED
  BY <1>2, <1>3 DEF RowsChanged, Written

LEMMA CleanedRows ==
  ASSUME TitlesInv, VersionsCleaned(version')
  PROVE  /\ RowsChanged
         /\ \A v, w \in Ids : Written(version', v) /\ Written(version', w) => v = w
<1>1. version \in VersionRows /\ RowsInv(version) /\ product.title \in Texts /\ product.sub \in Texts
  BY DEF TitlesInv, TitlesTyped, ProductRows
<1>2. CASE Rows = {}
  <2>1. version' = version
    BY <1>2 DEF VersionsCleaned
  <2>2. \A v \in Ids : ~version[v].there
    BY <1>2 DEF Rows
  <2>3. chosen = NoChoice
    BY <2>2 DEF TitlesInv, ChosenInv, Holds
  <2>4. QED
    BY <1>1, <2>1, <2>2, <2>3 DEF RowsChanged, Written
<1>3. ASSUME NEW v \in Rows, Shown(v), version' = Select(Drop(version, Rows \ {v}), v)
      PROVE  /\ RowsChanged
             /\ \A u, w \in Ids : Written(version', u) /\ Written(version', w) => u = w
  <2> DEFINE rows == Drop(version, Rows \ {v})
  <2>1. v \in Ids /\ version[v].there /\ version[v].title = product.title /\ version[v].sub = product.sub
    BY <1>3 DEF Rows, Shown
  <2>2. /\ rows \in VersionRows /\ RowsInv(rows)
        /\ \A w \in Rows \ {v} : ~rows[w].there
        /\ \A w \in Ids \ (Rows \ {v}) : rows[w] = version[w]
    <3>1. Rows \ {v} \in SUBSET Ids /\ \A w \in Rows \ {v} : version[w].there
      BY DEF Rows
    <3>2. QED
      BY <1>1, <3>1, DroppedRows
  <2>3. rows[v] = version[v] /\ \A w \in Ids : rows[w].there => w = v
    BY <2>1, <2>2 DEF Rows
  <2>4. chosen # NoChoice => version[v].source # "original"
    BY <1>3, ShownChoice
  <2> HIDE DEF rows
  <2>5. version' = Select(rows, v)
    BY <1>3 DEF rows
  <2>6. RowsChanged
    BY <2>1, <2>2, <2>3, <2>4, <2>5, SelectKeeps
  <2>7. \A w \in Ids : version'[w].there => w = v
    BY <2>1, <2>2, <2>3, <2>5, SelectedRows
  <2>8. QED
    BY <2>6, <2>7 DEF Written
<1>4. ASSUME \A v \in Rows : ~Shown(v), NextId \in Ids,
             version' = Select(Drop(Add(NextId, product.title, product.sub, "final"), Rows), NextId)
      PROVE  /\ RowsChanged
             /\ \A u, w \in Ids : Written(version', u) /\ Written(version', w) => u = w
  <2> DEFINE all == Add(NextId, product.title, product.sub, "final")
             rows == Drop(all, Rows)
  <2>1. chosen = NoChoice
    BY <1>4 DEF TitlesInv, ChosenInv, Holds, Rows, Shown
  <2>2. /\ all \in VersionRows /\ RowsInv(all) /\ NextId \notin Rows
        /\ all[NextId].there = TRUE /\ all[NextId].title = product.title /\ all[NextId].sub = product.sub
        /\ \A w \in Ids : w # NextId => all[w] = version[w]
    <3>1. "final" \in Sources \ {"deleted"}
      BY DEF Sources
    <3>2. \A v \in Rows : version[v].title = product.title /\ version[v].sub = product.sub =>
            "final" = "ai" /\ version[v].source = "ai"
      BY <1>4 DEF Shown
    <3>3. RowsInv(all)
      BY <1>1, <1>4, <3>1, <3>2, AddedRows
    <3>4. NextId \notin Rows
      BY <1>1, <1>4, <3>1, AddedRows DEF Rows, UsedIds
    <3>5. /\ all \in VersionRows /\ \A w \in Ids : w # NextId => all[w] = version[w]
          /\ all[NextId] = [there |-> TRUE, title |-> product.title, sub |-> product.sub,
                            source |-> "final", selected |-> FALSE]
      BY <1>1, <1>4, <3>1, AddedRows
    <3> HIDE DEF all
    <3>6. QED
      BY <3>3, <3>4, <3>5
  <2> HIDE DEF all
  <2>3. /\ rows \in VersionRows /\ RowsInv(rows)
        /\ \A w \in Rows : ~rows[w].there
        /\ \A w \in Ids \ Rows : rows[w] = all[w]
    <3>1. Rows \in SUBSET Ids /\ \A w \in Rows : all[w].there
      BY <2>2 DEF Rows
    <3>2. QED
      BY <2>2, <3>1, DroppedRows
  <2> HIDE DEF rows
  <2>4. version' = Select(rows, NextId)
    BY <1>4 DEF rows, all
  <2>5. rows[NextId] = all[NextId] /\ \A w \in Ids : rows[w].there => w = NextId
    BY <1>4, <2>2, <2>3 DEF Rows
  <2>6. RowsChanged
    BY <1>4, <2>1, <2>2, <2>3, <2>4, <2>5, SelectKeeps
  <2>7. \A w \in Ids : version'[w].there => w = NextId
    BY <1>4, <2>3, <2>4, <2>5, SelectedRows
  <2>8. QED
    BY <2>6, <2>7 DEF Written
<1>5. QED
  BY <1>2, <1>3, <1>4 DEF VersionsCleaned

-----------------------------------------------------------------------------
(* What an operation must leave as it is.                                   *)
LEMMA TitlesKeep ==
  ASSUME TitlesInv, TitlesTyped', RowsInv(version'), ChosenInv', ApprovedInv',
         settings' = settings, passed' = passed,
         \A q \in TitleProcs :
           \/ doing'[q] = doing[q] /\ read'[q] = read[q]
           \/ doing'[q] \in {"idle", "save"},
         chosen' # NoChoice => ~Syncing \/ (chosen # NoChoice /\ product'.sub = product.sub),
         Writing => product'.status = product.status \/ product'.status # "approved"
  PROVE  TitlesInv'
<1>1. \A q \in Writers \cup Syncers \cup Testers :
        doing'[q] \in {"write", "fetch", "sync", "test"} => doing'[q] = doing[q] /\ read'[q] = read[q]
  BY DEF TitleProcs
<1>2. SyncInv'
  <2> SUFFICES ASSUME NEW p \in Syncers, doing'[p] \in {"fetch", "sync"}, chosen' # NoChoice
               PROVE  read'[p].own /\ read'[p].row.sub = product'.sub
    BY DEF SyncInv
  <2>1. doing'[p] = doing[p] /\ read'[p] = read[p]
    BY <1>1
  <2>2. Syncing
    BY <2>1 DEF Syncing
  <2>3. QED
    BY <2>1, <2>2 DEF TitlesInv, SyncInv
<1>3. WriteInv'
  <2> SUFFICES ASSUME NEW p \in Writers, doing'[p] = "write"
               PROVE  product'.status # "approved"
    BY DEF WriteInv
  <2>1. doing[p] = "write"
    BY <1>1
  <2>2. Writing /\ product.status # "approved"
    BY <2>1 DEF Writing, TitlesInv, WriteInv
  <2>3. QED
    BY <2>2
<1>4. TestInv'
  <2>1. \A p \in Testers : doing'[p] = "test" => doing[p] = "test" /\ read'[p] = read[p]
    BY <1>1
  <2>2. QED
    BY <2>1 DEF TitlesInv, TestInv
<1>5. QED
  BY <1>2, <1>3, <1>4 DEF TitlesInv

(* Which row a process that ends, or goes on to save, has read.             *)
LEMMA ReadingTyped ==
  ASSUME TitlesTyped, NEW task \in BOOLEAN, NEW id \in Nat
  PROVE  /\ NotRead \in Readings
         /\ [NotRead EXCEPT !.task = task] \in Readings
         /\ [NotRead EXCEPT !.id = id] \in Readings
         /\ NoVersion.there = FALSE
<1>1. NewRow("pending") \in ProductRows
  BY TitlesAssumption DEF NewRow, ProductRows, ProductStatuses, TitleConstants
<1>2. NotRead \in Readings
  BY <1>1, TitlesAssumption DEF NotRead, Readings, TitleConstants
<1>3. QED
  BY <1>2 DEF Readings, NoVersion

LEMMA ListingKeeps ==
  ASSUME TitlesInv, ListVersions \/ \E v \in Ids : DeleteVersion(v)
  PROVE  TitlesInv'
<1>1. /\ RowsChanged /\ \A v \in Ids : Written(version', v) => Written(version, v)
  BY ListedRows, DeletedRow
<1>2. UNCHANGED <<product, remote, chosen, settings, passed, doing, read>>
  BY DEF ListVersions, DeleteVersion
<1>3. TitlesTyped' /\ RowsInv(version')
  BY <1>1, <1>2 DEF TitlesInv, TitlesTyped, RowsChanged
<1>4. ChosenInv'
  <2>1. (\E v \in Ids : Holds(version', product, v)) => \E v \in Ids : Holds(version, product, v)'
    BY <1>2 DEF Holds
  <2>2. QED
    BY <1>1, <1>2, <2>1 DEF TitlesInv, ChosenInv, RowsChanged
<1>5. ApprovedInv'
  BY <1>1, <1>2 DEF TitlesInv, ApprovedInv, Written
<1>6. QED
  BY <1>2, <1>3, <1>4, <1>5, TitlesKeep

(* A process goes on.                                                       *)
LEMMA PhaseMoves ==
  ASSUME TitlesTyped, NEW p \in TitleProcs, NEW to \in TitlePhases, NEW new \in Readings,
         doing' = [doing EXCEPT ![p] = to], read' = [read EXCEPT ![p] = new]
  PROVE  /\ doing' \in [TitleProcs -> TitlePhases] /\ read' \in [TitleProcs -> Readings]
         /\ \A q \in TitleProcs : doing'[q] = IF q = p THEN to ELSE doing[q]
         /\ \A q \in TitleProcs : read'[q] = IF q = p THEN new ELSE read[q]
  BY DEF TitlesTyped

LEMMA SavingKeeps ==
  ASSUME TitlesInv, SyncsAlone, NEW v, Saved(v), MaySave, UNCHANGED <<remote, settings, passed>>,
         doing' \in [TitleProcs -> TitlePhases], read' \in [TitleProcs -> Readings],
         \A q \in TitleProcs :
           \/ doing'[q] = doing[q] /\ read'[q] = read[q]
           \/ doing'[q] \in {"idle", "save"}
  PROVE  TitlesInv'
<1>1. ~Syncing
  BY DEF MaySave
<1>2. /\ version' \in VersionRows /\ RowsInv(version')
      /\ product' \in ProductRows /\ product'.there /\ product'.status = product.status
      /\ product.status \in Editable
      /\ chosen' # NoChoice =>
           chosen' = <<product'.title, product'.sub>> /\ \E w \in Ids : Holds(version', product', w)
  BY SavedRows
<1>3. TitlesTyped'
  BY <1>2 DEF TitlesInv, TitlesTyped
<1>4. ChosenInv'
  <2>1. (\E w \in Ids : Holds(version', product', w)) => \E w \in Ids : Holds(version, product, w)'
    BY DEF Holds
  <2>2. QED
    BY <1>2, <2>1 DEF ChosenInv
<1>5. ApprovedInv'
  BY <1>2 DEF ApprovedInv, Editable
<1>6. QED
  BY <1>1, <1>2, <1>3, <1>4, <1>5, TitlesKeep

LEMMA SaveKeeps ==
  ASSUME TitlesInv, SyncsAlone,
         (\E v \in Ids : SaveVersion(v)) \/ \E p \in Writers : SaveWritten(p)
  PROVE  TitlesInv'
<1>1. ASSUME NEW v \in Ids, SaveVersion(v)
      PROVE  TitlesInv'
  <2>1. UNCHANGED <<doing, read>>
    BY <1>1 DEF SaveVersion
  <2>2. doing' \in [TitleProcs -> TitlePhases] /\ read' \in [TitleProcs -> Readings]
    BY <2>1 DEF TitlesInv, TitlesTyped
  <2>3. QED
    BY <1>1, <2>1, <2>2, SavingKeeps DEF SaveVersion
<1>2. ASSUME NEW p \in Writers, SaveWritten(p)
      PROVE  TitlesInv'
  <2>1. doing' = [doing EXCEPT ![p] = "idle"] /\ read' = [read EXCEPT ![p] = NotRead]
    BY <1>2 DEF SaveWritten, Moves, Forgotten
  <2>2. p \in TitleProcs /\ NotRead \in Readings /\ TitlesTyped /\ "idle" \in TitlePhases
    BY ReadingTyped DEF TitleProcs, TitlesInv, TitlePhases
  <2>3. /\ doing' \in [TitleProcs -> TitlePhases] /\ read' \in [TitleProcs -> Readings]
        /\ \A q \in TitleProcs :
             \/ doing'[q] = doing[q] /\ read'[q] = read[q]
             \/ doing'[q] \in {"idle", "save"}
    BY <2>1, <2>2, PhaseMoves
  <2>4. QED
    BY <1>2, <2>3, SavingKeeps DEF SaveWritten
<1>3. QED
  BY <1>1, <1>2

LEMMA StatusKeeps ==
  ASSUME TitlesInv, PromptWriters, NEW status \in ProductStatuses, SetStatus(status)
  PROVE  TitlesInv'
<1>1. /\ product.there /\ ~Writing
      /\ product' = [product EXCEPT !.status = status]
      /\ IF status = "approved" THEN VersionsCleaned(version') ELSE version' = version
      /\ UNCHANGED <<remote, chosen, settings, passed, doing, read>>
  BY DEF SetStatus
<1>2. /\ product' \in ProductRows /\ product'.there /\ product'.status = status
      /\ product'.title = product.title /\ product'.sub = product.sub
  BY <1>1 DEF TitlesInv, TitlesTyped, ProductRows
<1>3. RowsChanged
  <2>1. CASE status = "approved"
    BY <1>1, <2>1, CleanedRows
  <2>2. CASE status # "approved"
    BY <1>1, <2>2 DEF TitlesInv, TitlesTyped, RowsChanged, ChosenInv
  <2>3. QED
    BY <2>1, <2>2
<1>4. TitlesTyped' /\ RowsInv(version')
  BY <1>1, <1>2, <1>3 DEF TitlesInv, TitlesTyped, RowsChanged
<1>5. ChosenInv'
  <2>1. \A w \in Ids : Holds(version', product, w) => Holds(version, product, w)'
    BY <1>2 DEF Holds
  <2>2. QED
    BY <1>1, <1>2, <1>3, <2>1 DEF TitlesInv, ChosenInv, RowsChanged
<1>6. ApprovedInv'
  <2>1. CASE status = "approved"
    <3>1. \A v, w \in Ids : Written(version', v) /\ Written(version', w) => v = w
      BY <1>1, <2>1, CleanedRows
    <3>2. QED
      BY <3>1 DEF ApprovedInv, Written
  <2>2. CASE status # "approved"
    BY <1>2, <2>2 DEF ApprovedInv
  <2>3. QED
    BY <2>1, <2>2
<1>7. QED
  BY <1>1, <1>2, <1>4, <1>5, <1>6, TitlesKeep

(* Edits, the deletion of the product, and processes that give up.          *)
LEMMA EditKeeps ==
  ASSUME TitlesInv, SyncsAlone, NEW t \in Texts, EditLocal(t) \/ EditStore(t) \/ EditRemote(t)
  PROVE  TitlesInv'
<1>1. /\ version' = version /\ UNCHANGED <<settings, passed, doing, read>>
      /\ remote' \in Texts
      /\ \/ product' = product /\ chosen' = chosen
         \/ product' = [product EXCEPT !.title = t, !.sub = t] /\ chosen' = NoChoice
  BY DEF EditLocal, EditStore, EditRemote, TitlesInv, TitlesTyped
<1>2. product' \in ProductRows /\ product'.there = product.there /\ product'.status = product.status
  BY <1>1 DEF TitlesInv, TitlesTyped, ProductRows
<1>3. TitlesTyped' /\ RowsInv(version')
  BY <1>1, <1>2 DEF TitlesInv, TitlesTyped
<1>4. ChosenInv'
  BY <1>1 DEF TitlesInv, ChosenInv, Holds
<1>5. ApprovedInv'
  BY <1>1, <1>2 DEF TitlesInv, ApprovedInv, Written
<1>6. chosen' # NoChoice => chosen # NoChoice /\ product'.sub = product.sub
  BY <1>1
<1>7. QED
  BY <1>1, <1>2, <1>3, <1>4, <1>5, <1>6, TitlesKeep

LEMMA DeletionKeeps ==
  ASSUME TitlesInv, DeleteProduct
  PROVE  TitlesInv'
<1>1. /\ product' = [product EXCEPT !.there = FALSE] /\ version' = Drop(version, Rows)
      /\ chosen' = NoChoice /\ UNCHANGED <<remote, settings, passed, doing, read>>
  BY DEF DeleteProduct
<1>2. product' \in ProductRows /\ ~product'.there /\ product'.status = product.status
  BY <1>1 DEF TitlesInv, TitlesTyped, ProductRows
<1>3. version' \in VersionRows /\ RowsInv(version')
  <2>1. Rows \in SUBSET Ids /\ \A w \in Rows : version[w].there
    BY DEF Rows
  <2>2. QED
    BY <1>1, <2>1, DroppedRows DEF TitlesInv, TitlesTyped
<1>4. TitlesTyped' /\ ChosenInv' /\ ApprovedInv'
  BY <1>1, <1>2, <1>3 DEF TitlesInv, TitlesTyped, ChosenInv, ApprovedInv
<1>5. QED
  BY <1>1, <1>2, <1>3, <1>4, TitlesKeep

LEMMA GivingUpKeeps ==
  ASSUME TitlesInv, NEW p \in TitleProcs, GiveUp(p)
  PROVE  TitlesInv'
<1>1. /\ doing' = [doing EXCEPT ![p] = "idle"] /\ read' = [read EXCEPT ![p] = NotRead]
      /\ UNCHANGED <<product, version, remote, chosen, settings, passed>>
  BY DEF GiveUp, Forgotten
<1>2. NotRead \in Readings /\ TitlesTyped /\ "idle" \in TitlePhases
  BY ReadingTyped DEF TitlesInv, TitlePhases
<1>3. /\ doing' \in [TitleProcs -> TitlePhases] /\ read' \in [TitleProcs -> Readings]
      /\ \A q \in TitleProcs :
           \/ doing'[q] = doing[q] /\ read'[q] = read[q]
           \/ doing'[q] \in {"idle", "save"}
  BY <1>1, <1>2, PhaseMoves
<1>4. TitlesTyped' /\ RowsInv(version')
  BY <1>1, <1>3 DEF TitlesInv, TitlesTyped
<1>5. ChosenInv' /\ ApprovedInv'
  BY <1>1 DEF TitlesInv, ChosenInv, Holds, ApprovedInv, Written
<1>6. QED
  BY <1>1, <1>3, <1>4, <1>5, TitlesKeep

-----------------------------------------------------------------------------
(* Versions that are written.                                               *)
LEMMA BeginWriteKeeps ==
  ASSUME TitlesInv, NEW p \in Writers, NEW task \in BOOLEAN, BeginWrite(p, task)
  PROVE  TitlesInv'
<1>1. /\ doing' = [doing EXCEPT ![p] = "write"] /\ doing[p] = "idle"
      /\ read' = [read EXCEPT ![p] = [NotRead EXCEPT !.task = task]]
      /\ product.status # "approved"
      /\ UNCHANGED <<product, version, remote, chosen, settings, passed>>
  BY DEF BeginWrite, Moves, Editable
<1>2. /\ p \in TitleProcs /\ [NotRead EXCEPT !.task = task] \in Readings /\ TitlesTyped
      /\ "write" \in TitlePhases /\ 0 \in Nat
  BY ReadingTyped DEF TitleProcs, TitlesInv, TitlePhases
<1>3. /\ doing' \in [TitleProcs -> TitlePhases] /\ read' \in [TitleProcs -> Readings]
      /\ \A q \in TitleProcs : doing'[q] = (IF q = p THEN "write" ELSE doing[q])
      /\ \A q \in TitleProcs : q # p => read'[q] = read[q]
  BY <1>1, <1>2, PhaseMoves
<1>4. TitlesTyped' /\ RowsInv(version')
  BY <1>1, <1>3 DEF TitlesInv, TitlesTyped
<1>5. ChosenInv' /\ ApprovedInv'
  BY <1>1 DEF TitlesInv, ChosenInv, Holds, ApprovedInv, Written
<1>6. WriteInv'
  BY <1>1 DEF WriteInv
<1>7. ASSUME NEW q \in Syncers \cup Testers, doing'[q] \in {"fetch", "sync", "test"}
      PROVE  doing'[q] = doing[q] /\ read'[q] = read[q]
  BY <1>3, <1>7 DEF TitleProcs
<1>8. SyncInv' /\ TestInv'
  BY <1>1, <1>7 DEF TitlesInv, SyncInv, TestInv
<1>9. QED
  BY <1>4, <1>5, <1>6, <1>8 DEF TitlesInv

LEMMA EndWriteKeeps ==
  ASSUME TitlesInv, FreshTexts, NEW p \in Writers, NEW t \in Texts, EndWrite(p, t)
  PROVE  TitlesInv'
<1> DEFINE to == IF read[p].task THEN "save" ELSE "idle"
           new == [NotRead EXCEPT !.id = IF read[p].task THEN NextId ELSE 0]
<1>1. /\ doing' = [doing EXCEPT ![p] = to] /\ doing[p] = "write"
      /\ read' = [read EXCEPT ![p] = new]
      /\ NextId \in Ids /\ version' = Add(NextId, t, t, "ai")
      /\ \A v \in Rows : version[v].source = "ai" \/ version[v].title # t
      /\ UNCHANGED <<product, remote, chosen, settings, passed>>
  BY DEF EndWrite, Moves
<1>2. p \in TitleProcs /\ TitlesTyped /\ to \in TitlePhases /\ new \in Readings
  <2>1. (IF read[p].task THEN NextId ELSE 0) \in Nat
    BY <1>1 DEF Ids
  <2>2. QED
    BY <2>1, ReadingTyped DEF TitleProcs, TitlesInv, TitlePhases
<1>3. /\ doing' \in [TitleProcs -> TitlePhases] /\ read' \in [TitleProcs -> Readings]
      /\ \A q \in TitleProcs :
           \/ doing'[q] = doing[q] /\ read'[q] = read[q]
           \/ doing'[q] \in {"idle", "save"}
  <2>1. to \in {"idle", "save"}
    OBVIOUS
  <2> HIDE DEF to, new
  <2>2. QED
    BY <1>1, <1>2, <2>1, PhaseMoves
<1>4. /\ version' \in VersionRows /\ RowsInv(version') /\ NextId \notin UsedIds(version)
      /\ \A w \in Ids : w # NextId => version'[w] = version[w]
  <2>1. "ai" \in Sources \ {"deleted"} /\ version \in VersionRows /\ RowsInv(version)
    BY DEF Sources, TitlesInv, TitlesTyped
  <2>2. \A v \in Rows : version[v].title = t /\ version[v].sub = t => "ai" = "ai" /\ version[v].source = "ai"
    BY <1>1
  <2>3. QED
    BY <1>1, <2>1, <2>2, AddedRows
<1>5. TitlesTyped'
  BY <1>1, <1>3, <1>4 DEF TitlesInv, TitlesTyped
<1>6. ChosenInv'
  <2>1. ASSUME NEW v \in Ids, Holds(version, product, v)
        PROVE  Holds(version', product', v)
    <3>1. v # NextId
      BY <1>4, <2>1 DEF Holds, UsedIds
    <3>2. QED
      BY <1>1, <1>4, <2>1, <3>1 DEF Holds
  <2>2. QED
    BY <1>1, <2>1 DEF TitlesInv, ChosenInv, Holds
<1>7. product.status # "approved"
  BY <1>1 DEF TitlesInv, WriteInv
<1>8. ApprovedInv'
  BY <1>1, <1>7 DEF ApprovedInv
<1>9. QED
  BY <1>1, <1>3, <1>4, <1>5, <1>6, <1>8, TitlesKeep

-----------------------------------------------------------------------------
(* A store is synchronised.                                                 *)
LEMMA BeginSyncKeeps ==
  ASSUME TitlesInv, NEW p \in Syncers, BeginSync(p) \/ Fetch(p)
  PROVE  TitlesInv'
<1> DEFINE new == IF BeginSync(p) THEN [NotRead EXCEPT !.row = product, !.own = LocalTitle]
                  ELSE [read[p] EXCEPT !.remote = remote]
<1>1. PICK to \in {"fetch", "sync"} :
        /\ doing' = [doing EXCEPT ![p] = to] /\ read' = [read EXCEPT ![p] = new]
        /\ ~BeginSync(p) => doing[p] = "fetch"
        /\ UNCHANGED <<product, version, remote, chosen, settings, passed>>
  BY DEF BeginSync, Fetch, Moves
<1>2. /\ p \in TitleProcs /\ TitlesTyped /\ to \in TitlePhases /\ NotRead \in Readings
      /\ product \in ProductRows /\ remote \in Texts /\ read[p] \in Readings /\ LocalTitle \in BOOLEAN
  BY ReadingTyped DEF TitleProcs, TitlesInv, TitlesTyped, TitlePhases, LocalTitle
<1>3. /\ new \in Readings
      /\ new.own = IF BeginSync(p) THEN LocalTitle ELSE read[p].own
      /\ new.row = IF BeginSync(p) THEN product ELSE read[p].row
  BY <1>2 DEF Readings
<1> HIDE DEF new
<1>4. /\ doing' \in [TitleProcs -> TitlePhases] /\ read' \in [TitleProcs -> Readings]
      /\ \A q \in TitleProcs : doing'[q] = (IF q = p THEN to ELSE doing[q])
      /\ \A q \in TitleProcs : read'[q] = (IF q = p THEN new ELSE read[q])
  BY <1>1, <1>2, <1>3, PhaseMoves
<1>5. TitlesTyped' /\ RowsInv(version')
  BY <1>1, <1>4 DEF TitlesInv, TitlesTyped
<1>6. ChosenInv' /\ ApprovedInv'
  BY <1>1 DEF TitlesInv, ChosenInv, Holds, ApprovedInv, Written
<1>7. ASSUME NEW q \in Writers \cup Testers, doing'[q] \in {"write", "test"}
      PROVE  doing'[q] = doing[q] /\ read'[q] = read[q]
  BY <1>4, <1>7 DEF TitleProcs
<1>8. WriteInv' /\ TestInv'
  BY <1>1, <1>7 DEF TitlesInv, WriteInv, TestInv
<1>9. ASSUME chosen # NoChoice
      PROVE  new.own /\ new.row.sub = product.sub
  <2>1. CASE BeginSync(p)
    <3>1. LocalTitle
      BY <1>9 DEF TitlesInv, ChosenInv, Holds, LocalTitle, InUse, Rows
    <3>2. QED
      BY <1>3, <2>1, <3>1
  <2>2. CASE ~BeginSync(p)
    BY <1>1, <1>3, <1>9, <2>2 DEF TitlesInv, SyncInv
  <2>3. QED
    BY <2>1, <2>2
<1>10. SyncInv'
  <2> SUFFICES ASSUME NEW q \in Syncers, doing'[q] \in {"fetch", "sync"}, chosen # NoChoice
               PROVE  read'[q].own /\ read'[q].row.sub = product.sub
    BY <1>1 DEF SyncInv
  <2>1. CASE q = p
    BY <1>2, <1>4, <1>9, <2>1
  <2>2. CASE q # p
    <3>1. doing'[q] = doing[q] /\ read'[q] = read[q]
      BY <1>4, <2>2 DEF TitleProcs
    <3>2. QED
      BY <3>1 DEF TitlesInv, SyncInv
  <2>3. QED
    BY <2>1, <2>2
<1>11. QED
  BY <1>5, <1>6, <1>8, <1>10 DEF TitlesInv

LEMMA EndSyncKeeps ==
  ASSUME TitlesInv, NEW p \in Syncers, EndSync(p)
  PROVE  TitlesInv'
<1>1. /\ doing' = [doing EXCEPT ![p] = "idle"] /\ doing[p] = "sync"
      /\ read' = [read EXCEPT ![p] = NotRead]
      /\ product.there /\ product' = Synced(read[p])
      /\ UNCHANGED <<version, remote, chosen, settings, passed>>
  BY DEF EndSync, Moves, Forgotten
<1>2. p \in TitleProcs /\ TitlesTyped /\ NotRead \in Readings /\ "idle" \in TitlePhases
  BY ReadingTyped DEF TitleProcs, TitlesInv, TitlePhases
<1>3. /\ doing' \in [TitleProcs -> TitlePhases] /\ read' \in [TitleProcs -> Readings]
      /\ \A q \in TitleProcs :
           \/ doing'[q] = doing[q] /\ read'[q] = read[q]
           \/ doing'[q] \in {"idle", "save"}
  BY <1>1, <1>2, PhaseMoves
<1>4. read[p] \in Readings /\ product \in ProductRows
  BY <1>2 DEF TitlesTyped
<1>5. /\ product' \in ProductRows /\ product'.there
      /\ product'.status = product.status \/ product'.status = "listed"
      /\ read[p].own => product'.title = product.title /\ product'.sub = read[p].row.sub
  BY <1>1, <1>4 DEF Synced, Readings, ProductRows, ProductStatuses
<1>6. chosen # NoChoice => product'.title = product.title /\ product'.sub = product.sub
  BY <1>1, <1>5 DEF TitlesInv, SyncInv
<1>7. TitlesTyped' /\ RowsInv(version')
  BY <1>1, <1>3, <1>5 DEF TitlesInv, TitlesTyped
<1>8. ChosenInv'
  <2>1. ASSUME NEW v \in Ids, chosen # NoChoice, Holds(version, product, v)
        PROVE  Holds(version', product', v)
    BY <1>1, <1>6, <2>1 DEF Holds
  <2>2. QED
    BY <1>1, <1>5, <1>6, <2>1 DEF TitlesInv, ChosenInv, Holds
<1>9. ApprovedInv'
  BY <1>1, <1>5 DEF TitlesInv, ApprovedInv, Written
<1>10. QED
  BY <1>1, <1>3, <1>5, <1>6, <1>7, <1>8, <1>9, TitlesKeep

-----------------------------------------------------------------------------
(* The settings and their tests.                                            *)
LEMMA ModelKeeps ==
  ASSUME TitlesInv, TestsAlone, SaveModel
  PROVE  TitlesInv'
<1>1. /\ settings.model < MaxModels /\ ~Testing
      /\ settings' = [model |-> settings.model + 1, verified |-> FALSE]
      /\ UNCHANGED <<product, version, remote, chosen, passed, doing, read>>
  BY DEF SaveModel
<1>2. settings' \in [model : 0..MaxModels, verified : BOOLEAN]
  BY <1>1, TitlesAssumption DEF TitlesInv, TitlesTyped, TitleConstants
<1>3. TitlesTyped' /\ RowsInv(version')
  BY <1>1, <1>2 DEF TitlesInv, TitlesTyped
<1>4. ChosenInv' /\ ApprovedInv' /\ WriteInv' /\ SyncInv'
  BY <1>1 DEF TitlesInv, ChosenInv, Holds, ApprovedInv, Written, WriteInv, SyncInv
<1>5. TestInv'
  BY <1>1 DEF TestInv, Testing
<1>6. QED
  BY <1>3, <1>4, <1>5 DEF TitlesInv

LEMMA TestKeeps ==
  ASSUME TitlesInv, NEW p \in Testers, BeginTest(p) \/ EndTest(p)
  PROVE  TitlesInv'
<1>1. settings.model \in Nat /\ p \in TitleProcs /\ read[p] \in Readings /\ TitlesTyped
      /\ settings \in [model : 0..MaxModels, verified : BOOLEAN]
  BY TitlesAssumption DEF TitlesInv, TitlesTyped, TitleConstants, TitleProcs
<1>2. PICK to \in TitlePhases, new \in Readings :
        /\ doing' = [doing EXCEPT ![p] = to] /\ read' = [read EXCEPT ![p] = new]
        /\ \/ /\ to = "test" /\ new.id = settings.model
              /\ settings' = settings /\ passed' = passed
           \/ /\ to = "idle" /\ settings' = [settings EXCEPT !.verified = TRUE]
              /\ passed' = passed \cup {settings.model}
  <2>1. CASE BeginTest(p)
    <3>1. /\ [read[p] EXCEPT !.id = settings.model] \in Readings
          /\ [read[p] EXCEPT !.id = settings.model].id = settings.model
      BY <1>1 DEF Readings
    <3>2. /\ doing' = [doing EXCEPT ![p] = "test"]
          /\ read' = [read EXCEPT ![p] = [read[p] EXCEPT !.id = settings.model]]
          /\ settings' = settings /\ passed' = passed
      BY <2>1 DEF BeginTest, Moves
    <3>3. QED
      BY <3>1, <3>2 DEF TitlePhases
  <2>2. CASE EndTest(p)
    <3>1. read[p].id = settings.model
      BY <2>2 DEF EndTest, Moves, TitlesInv, TestInv
    <3>2. NotRead \in Readings
      BY <1>1, ReadingTyped
    <3>3. QED
      BY <2>2, <3>1, <3>2 DEF EndTest, Moves, Forgotten, TitlePhases
  <2>3. QED
    BY <2>1, <2>2
<1>3. UNCHANGED <<product, version, remote, chosen>>
  BY DEF BeginTest, EndTest
<1>4. /\ doing' \in [TitleProcs -> TitlePhases] /\ read' \in [TitleProcs -> Readings]
      /\ \A q \in TitleProcs : doing'[q] = (IF q = p THEN to ELSE doing[q])
      /\ \A q \in TitleProcs : read'[q] = (IF q = p THEN new ELSE read[q])
  BY <1>1, <1>2, PhaseMoves
<1>5. settings' \in [model : 0..MaxModels, verified : BOOLEAN] /\ settings'.model = settings.model
  BY <1>1, <1>2
<1>6. TitlesTyped' /\ RowsInv(version')
  BY <1>3, <1>4, <1>5 DEF TitlesInv, TitlesTyped
<1>7. ChosenInv' /\ ApprovedInv'
  BY <1>3 DEF TitlesInv, ChosenInv, Holds, ApprovedInv, Written
<1>8. ASSUME NEW q \in Writers \cup Syncers, doing'[q] \in {"write", "fetch", "sync"}
      PROVE  doing'[q] = doing[q] /\ read'[q] = read[q]
  BY <1>2, <1>4, <1>8 DEF TitleProcs
<1>9. WriteInv' /\ SyncInv'
  BY <1>3, <1>8 DEF TitlesInv, WriteInv, SyncInv
<1>10. TestInv'
  <2>1. settings'.verified => settings'.model \in passed'
    BY <1>2, <1>5 DEF TitlesInv, TestInv
  <2>2. ASSUME NEW q \in Testers, doing'[q] = "test"
        PROVE  read'[q].id = settings.model
    BY <1>2, <1>4, <2>2 DEF TitleProcs, TitlesInv, TestInv
  <2>3. QED
    BY <1>5, <2>1, <2>2 DEF TestInv
<1>11. QED
  BY <1>6, <1>7, <1>9, <1>10 DEF TitlesInv

-----------------------------------------------------------------------------
LEMMA TitlesStart == TitlesInit => TitlesInv
<1> SUFFICES ASSUME TitlesInit PROVE TitlesInv
  OBVIOUS
<1>1. First \in Texts /\ MaxVersions \in Nat /\ MaxModels \in Nat \ {0}
  BY TitlesAssumption DEF TitleConstants
<1>2. /\ \A p \in TitleProcs : doing[p] = "idle"
      /\ doing \in [TitleProcs -> TitlePhases]
      /\ chosen = NoChoice /\ remote = First
  BY DEF TitlesInit, TitlePhases
<1>3. product \in ProductRows /\ product.status # "approved"
  BY <1>1 DEF TitlesInit, Editable, NewRow, ProductRows, ProductStatuses
<1>4. /\ version \in VersionRows /\ \A v \in Ids : version[v] = NoVersion
  BY <1>1 DEF TitlesInit, NoVersion, VersionRows, Sources
<1>5. NoVersion.there = FALSE /\ NoVersion.source = "ai"
  BY DEF NoVersion
<1>6. read \in [TitleProcs -> Readings]
  <2>1. NewRow("pending") \in ProductRows
    BY <1>1 DEF NewRow, ProductRows, ProductStatuses
  <2>2. NotRead \in Readings
    BY <1>1, <2>1 DEF NotRead, Readings
  <2>3. QED
    BY <2>2 DEF TitlesInit
<1>7. RowsInv(version)
  <2>1. UsedIds(version) = 1..0
    BY <1>4, <1>5 DEF UsedIds
  <2>2. 0 \in 0..MaxVersions
    BY <1>1
  <2>3. QED
    BY <1>4, <1>5, <2>1, <2>2 DEF RowsInv, SameText
<1>8. settings \in [model : 0..MaxModels, verified : BOOLEAN] /\ (settings.verified => settings.model \in passed)
  <2>1. settings \in {[model |-> 0, verified |-> FALSE], [model |-> 1, verified |-> TRUE]}
        /\ passed = IF settings.verified THEN {1} ELSE {}
    BY DEF TitlesInit
  <2>2. CASE settings = [model |-> 0, verified |-> FALSE]
    BY <1>1, <2>2
  <2>3. CASE settings = [model |-> 1, verified |-> TRUE]
    <3>1. settings.verified /\ settings.model = 1
      BY <2>3
    <3>2. QED
      BY <1>1, <2>1, <2>3, <3>1
  <2>4. QED
    BY <2>1, <2>2, <2>3
<1>9. SyncInv /\ WriteInv /\ ApprovedInv /\ ChosenInv /\ TestInv
  BY <1>2, <1>3, <1>8 DEF SyncInv, WriteInv, ApprovedInv, ChosenInv, TestInv, TitleProcs
<1>10. QED
  BY <1>1, <1>2, <1>3, <1>4, <1>6, <1>7, <1>8, <1>9 DEF TitlesInv, TitlesTyped

LEMMA TitlesStep ==
  ASSUME TitlesInv, PromptWriters, SyncsAlone, FreshTexts, TestsAlone, [TitlesNext]_titleVars
  PROVE  TitlesInv'
<1>1. CASE UNCHANGED titleVars
  <2>1. TitlesTyped' /\ RowsInv(version') /\ ChosenInv' /\ ApprovedInv'
    BY <1>1 DEF titleVars, TitlesInv, TitlesTyped, ChosenInv, Holds, ApprovedInv, Written
  <2>2. QED
    BY <1>1, <2>1, TitlesKeep DEF titleVars
<1>2. CASE TitleRequests
  BY <1>2, ListingKeeps, SaveKeeps, StatusKeeps, EditKeeps, DeletionKeeps, ModelKeeps
  DEF TitleRequests
<1>3. ASSUME NEW p \in Writers, WriteVersion(p)
      PROVE  TitlesInv'
  BY <1>3, BeginWriteKeeps, EndWriteKeeps, SaveKeeps DEF WriteVersion
<1>4. QED
  BY <1>1, <1>2, <1>3, BeginSyncKeeps, EndSyncKeeps, TestKeeps, GivingUpKeeps DEF TitlesNext

LEMMA TitlesHold == TitlesInv => ChosenStays /\ ApprovedKeepsOne /\ VerifiedWasTested
<1> SUFFICES ASSUME TitlesInv PROVE ChosenStays /\ ApprovedKeepsOne /\ VerifiedWasTested
  OBVIOUS
<1>1. ASSUME NEW S \in SUBSET Ids, \A v, w \in S : v = w
      PROVE  Cardinality(S) <= 1
  <2>1. CASE S = {}
    <3>1. Cardinality(S) = 0
      BY <2>1, FS_EmptySet
    <3>2. QED
      BY <3>1
  <2>2. CASE S # {}
    <3>1. PICK v \in S : TRUE
      BY <2>2
    <3>2. S = {v}
      BY <1>1, <3>1
    <3>3. Cardinality(S) = 1
      BY <3>2, FS_Singleton
    <3>4. QED
      BY <3>3
  <2>3. QED
    BY <2>1, <2>2
<1>2. Cardinality(InUse) <= 1
  <2>1. InUse \in SUBSET Ids /\ \A v, w \in InUse : v = w
    BY DEF InUse, Rows, TitlesInv, RowsInv
  <2>2. QED
    BY <1>1, <2>1
<1>3. ChosenStays
  BY <1>2 DEF ChosenStays, TitlesInv, ChosenInv, Holds, Shown, Rows
<1>4. ApprovedKeepsOne
  <2> SUFFICES ASSUME product.there, product.status = "approved"
               PROVE  Cardinality({v \in Rows : version[v].source = "ai"}) <= 1
    BY DEF ApprovedKeepsOne
  <2> DEFINE S == {v \in Rows : version[v].source = "ai"}
  <2>1. S \in SUBSET Ids /\ \A v, w \in S : v = w
    BY DEF Rows, TitlesInv, ApprovedInv, Written
  <2> HIDE DEF S
  <2>2. Cardinality(S) <= 1
    BY <1>1, <2>1
  <2>3. QED
    BY <2>2 DEF S
<1>5. QED
  BY <1>3, <1>4 DEF TitlesInv, TestInv, VerifiedWasTested

(* Every variable of a product's titles holds values of its kind, and       *)
(* nothing is chosen for a product that is deleted.                         *)
THEOREM TitlesAreTyped ==
  ASSUME PromptWriters, SyncsAlone, FreshTexts, TestsAlone
  PROVE  TitlesSpec => []TitlesTypeOK
<1>1. TitlesInit => TitlesInv
  BY TitlesStart
<1>2. TitlesInv /\ [TitlesNext]_titleVars => TitlesInv'
  BY TitlesStep
<1>3. TitlesInv => TitlesTypeOK
  <2> SUFFICES ASSUME TitlesInv PROVE TitlesTypeOK
    OBVIOUS
  <2>1. TitlesTyped /\ ChosenInv
    BY DEF TitlesInv
  <2>2. product.status \in ProductStatuses /\ {product.title, product.sub, remote} \subseteq Texts
    BY <2>1 DEF TitlesTyped, ProductRows
  <2>3. \A v \in Ids : version[v].source \in {"original", "ai", "final", "deleted"}
    BY <2>1 DEF TitlesTyped, VersionRows, Sources
  <2>4. chosen # NoChoice => product.there
    BY <2>1 DEF ChosenInv
  <2>5. QED
    BY <2>1, <2>2, <2>3, <2>4 DEF TitlesTyped, TitlesTypeOK
<1>4. QED
  BY <1>1, <1>2, <1>3, PTL DEF TitlesSpec

(* save_title_version, store_product_local_title_override,                  *)
(* cleanup_title_versions_for_approved_product, test_settings_connection:   *)
(* if the status stays while a version is written, a title is not saved     *)
(* during a sync, nor settings during a test, and what is written is no     *)
(* original word for word, then what a user has chosen stays the title, an  *)
(* approved product keeps one version, and verified settings were tested.   *)
THEOREM TitlesKept ==
  ASSUME PromptWriters, SyncsAlone, FreshTexts, TestsAlone
  PROVE  TitlesSpec => [](ChosenStays /\ ApprovedKeepsOne /\ VerifiedWasTested)
<1>1. TitlesInit => TitlesInv
  BY TitlesStart
<1>2. TitlesInv /\ [TitlesNext]_titleVars => TitlesInv'
  BY TitlesStep
<1>3. TitlesInv => ChosenStays /\ ApprovedKeepsOne /\ VerifiedWasTested
  BY TitlesHold
<1>4. QED
  BY <1>1, <1>2, <1>3, PTL DEF TitlesSpec

-----------------------------------------------------------------------------
(***************************************************************************)
(* Small instances of several components for one run of TLC.  The parts    *)
(* share no state: "part" says which one a behaviour is about, the         *)
(* variables of the others stay as they are.  Components of which there is *)
(* one instance keep their own variables and constants; the others share   *)
(* m1 to m12.                                                              *)
(***************************************************************************)
CONSTANTS u1, u2, cr, so, px, py, s1, s2, sy, ls, ti, d1, d2, NoId, NoMaster, q1, q2,
  a1, j1, j2, NoJob, Runner, NoProc

VARIABLES part, m1, m2, m3, m4, m5, m6, m7, m8, m9, m10, m11, m12

memory == <<m1, m2, m3, m4, m5, m6, m7, m8, m9, m10, m11, m12>>

(* Stop and resumption: an order sync run of one user, a task of another.   *)
TwoOwners == [t \in TaskIds |-> IF t = cr THEN u2 ELSE u1]

(* Two sync tasks of one user; two title tasks; a listing task beside a     *)
(* sync task and beside a title task.                                       *)
TwoSyncs == {j1, j2}
ListAndSync == {ls, sy}
ListAndTitle == {ls, ti}
SyncThreads == {d1, d2}
OneThread == {d1}
SyncKinds == [t \in TwoSyncs |-> "sync"]
TitleKinds == [t \in TwoSyncs |-> "title"]
MixedKinds == [t \in {sy, ls, ti} |-> IF t = sy THEN "sync" ELSE IF t = ls THEN "listing" ELSE "title"]
OneUser == [t \in {j1, j2, sy, ls, ti} |-> u1]
NoClash == [t \in {j1, j2, sy, ls, ti} |-> {}]
ListingClashes == [t \in {sy, ls, ti} |-> IF t = ls THEN {sy, ti} ELSE {ls}]
TitlesAlike == [t \in TwoSyncs |-> TwoSyncs \ {t}]
Syncs == INSTANCE SyncTasksProofs WITH
  sync <- m1, waiting <- m2, runner <- m3, thread <- m4, again <- m5, mishaps <- m6,
  Ids <- TwoSyncs, KindOf <- SyncKinds, UserOf <- OneUser, Clash <- NoClash, Alike <- NoClash,
  GlobalMax <- 2, UserMax <- 1, Threads <- SyncThreads, SyncWorkers <- Workers,
  SerialStarts <- TRUE, LateEnqueues <- FALSE, MaxJobs <- 1, MaxAgain <- 0, MaxMishaps <- 1
Titles == INSTANCE SyncTasksProofs WITH
  sync <- m1, waiting <- m2, runner <- m3, thread <- m4, again <- m5, mishaps <- m6,
  Ids <- TwoSyncs, KindOf <- TitleKinds, UserOf <- OneUser, Clash <- NoClash,
  Alike <- TitlesAlike,
  GlobalMax <- 2, UserMax <- 1, Threads <- SyncThreads, SyncWorkers <- Workers,
  SerialStarts <- TRUE, LateEnqueues <- FALSE, MaxJobs <- 2, MaxAgain <- 1, MaxMishaps <- 1
Beside == INSTANCE SyncTasksProofs WITH
  sync <- m1, waiting <- m2, runner <- m3, thread <- m4, again <- m5, mishaps <- m6,
  Ids <- ListAndSync, KindOf <- MixedKinds, UserOf <- OneUser, Clash <- ListingClashes,
  Alike <- NoClash,
  GlobalMax <- 2, UserMax <- 1, Threads <- OneThread, SyncWorkers <- Workers,
  SerialStarts <- TRUE, LateEnqueues <- FALSE, MaxJobs <- 1, MaxAgain <- 0, MaxMishaps <- 1
Between == INSTANCE SyncTasksProofs WITH
  sync <- m1, waiting <- m2, runner <- m3, thread <- m4, again <- m5, mishaps <- m6,
  Ids <- ListAndTitle, KindOf <- MixedKinds, UserOf <- OneUser, Clash <- ListingClashes,
  Alike <- NoClash,
  GlobalMax <- 2, UserMax <- 1, Threads <- OneThread, SyncWorkers <- Workers,
  SerialStarts <- TRUE, LateEnqueues <- FALSE, MaxJobs <- 1, MaxAgain <- 0, MaxMishaps <- 1

(* The products of the stores: two days; two stores; two replacements that  *)
(* follow each other; one among other work on the same products.            *)
OneProduct == {px}
OneStore == {s1}
Replacement == {py}
WithDraft == {px, py}
TwoStores == {s1, s2}
SameCode == [m \in WithDraft |-> m]
NoDrafts == {}
OneSwap == {q1}
TwoSwaps == {q1, q2}
Days == INSTANCE StoreProductsProofs WITH
  day <- m1, master <- m2, row <- m3, live <- m4, files <- m5, trash <- m6, swap <- m7, work <- m8,
  Masters <- OneProduct, Drafts <- NoDrafts, Stores <- OneStore,
  CodeOf <- SameCode, Swaps <- NoDrafts, Procs <- Workers, MaxDays <- 2,
  FreshNumbers <- TRUE, ShortListings <- TRUE, NoLostUpdates <- TRUE
Shops == INSTANCE StoreProductsProofs WITH
  day <- m1, master <- m2, row <- m3, live <- m4, files <- m5, trash <- m6, swap <- m7, work <- m8,
  Masters <- OneProduct, Drafts <- NoDrafts, Stores <- TwoStores,
  CodeOf <- SameCode, Swaps <- NoDrafts, Procs <- Workers, MaxDays <- 1,
  FreshNumbers <- TRUE, ShortListings <- FALSE, NoLostUpdates <- TRUE
Follow == INSTANCE StoreProductsProofs WITH
  day <- m1, master <- m2, row <- m3, live <- m4, files <- m5, trash <- m6, swap <- m7, work <- m8,
  Masters <- WithDraft, Drafts <- Replacement, Stores <- OneStore,
  CodeOf <- SameCode, Swaps <- TwoSwaps, Procs <- OneThread, MaxDays <- 1,
  FreshNumbers <- TRUE, ShortListings <- TRUE, NoLostUpdates <- TRUE
Among == INSTANCE StoreProductsProofs WITH
  day <- m1, master <- m2, row <- m3, live <- m4, files <- m5, trash <- m6, swap <- m7, work <- m8,
  Masters <- WithDraft, Drafts <- Replacement, Stores <- OneStore,
  CodeOf <- SameCode, Swaps <- OneSwap, Procs <- Workers, MaxDays <- 1,
  FreshNumbers <- TRUE, ShortListings <- FALSE, NoLostUpdates <- TRUE

(* Two crawl tasks of one lane; the dispatch lock may expire under its       *)
(* holder.                                                                  *)
CrawlJobs == {j1, j2}
CrawlApi == {a1}
OneLane == {ti}
SameLane == <<ti, ti>>
LaneOwner == [n \in OneLane |-> u1]
LaneLimit == [n \in OneLane |-> 1]
Expiry == INSTANCE CrawlProofs WITH
  row <- m1, jobs <- m2, lock <- m3, paused <- m4, pc <- m5, hold <- m6, plan <- m7,
  slots <- m8, todo <- m9, scope <- m10, reruns <- m11, faults <- m12,
  MaxTasks <- 2, Lanes <- OneLane, LaneOf <- SameLane, OwnerOf <- LaneOwner,
  ScheduledLanes <- OneLane, Limit <- LaneLimit, RequeueLimit <- 1,
  Jobs <- CrawlJobs, Api <- CrawlApi, Serial <- TRUE, LockMayExpire <- TRUE, SlowRuns <- FALSE,
  MaxReruns <- 0, MaxFaults <- 0

ASSUME CrawlAssumption == Expiry!ConstantsAssumption
ASSUME SyncTasksAssumption ==
  Syncs!SyncConstants /\ Titles!SyncConstants /\ Beside!SyncConstants /\ Between!SyncConstants
ASSUME StoreProductsAssumption ==
  Days!ProductConstants /\ Shops!ProductConstants /\ Follow!ProductConstants /\ Among!ProductConstants

-----------------------------------------------------------------------------
From9 == <<m9, m10, m11, m12>>
From7 == <<m7, m8, From9>>
Unused9 == m9 = 0 /\ m10 = 0 /\ m11 = 0 /\ m12 = 0
Unused7 == m7 = 0 /\ m8 = 0 /\ Unused9
Unused1 == m1 = 0 /\ m2 = 0 /\ m3 = 0 /\ m4 = 0 /\ m5 = 0 /\ m6 = 0 /\ Unused7

NoStarts == db = 0 /\ first = 0 /\ pend = 0 /\ stage = 0 /\ seen = 0 /\ dropped = 0
  /\ changes = 0 /\ deaths = 0
NoNews == post = 0 /\ reads = 0 /\ files = 0 /\ fresh = 0 /\ form = 0 /\ doomed = 0 /\ gone = 0
  /\ view = 0
NoUpkeep == data = 0 /\ clock = 0 /\ tx = 0 /\ saved = 0 /\ served = 0 /\ since = 0
  /\ retried = 0 /\ looked = 0
NoWordings == product = 0 /\ version = 0 /\ remote = 0 /\ chosen = 0 /\ settings = 0
  /\ passed = 0 /\ doing = 0 /\ read = 0

OwnParts == {"control", "upgrade", "news", "rounds", "cleanups", "texts", "models"}
SharedParts == {"syncs", "titles", "beside", "between", "days", "shops", "follow", "among", "expiry"}

MemoryInit ==
  \/ part \in OwnParts /\ Unused1
  \/ /\ \/ part = "syncs" /\ Syncs!Init
        \/ part = "titles" /\ Titles!Init
        \/ part = "beside" /\ Beside!Init
        \/ part = "between" /\ Between!Init
     /\ Unused7
  \/ /\ \/ part = "days" /\ Days!Init
        \/ part = "shops" /\ Shops!Init
        \/ part = "follow" /\ Follow!Init
        \/ part = "among" /\ Among!Init
     /\ Unused9
  \/ part = "expiry" /\ Expiry!Init

ServicesInit ==
  /\ part \in OwnParts \cup SharedParts
  /\ Init
  /\ IF part = "upgrade" THEN StartInit ELSE NoStarts
  /\ IF part = "news" THEN PostInit ELSE NoNews
  /\ IF part \in {"rounds", "cleanups"} THEN UpkeepInit ELSE NoUpkeep
  /\ IF part \in {"texts", "models"} THEN TitlesInit ELSE NoWordings
  /\ MemoryInit

(* The upkeep of an owner is checked in two parts: his settings over two     *)
(* periods, with no image to be cleaned, and the cleanup of images by        *)
(* requests, the settings as they are; a product's titles too: the texts,    *)
(* with the model that writes them as it is, and the tests of the model.     *)
RoundsNext == UpkeepNext /\ data'.rec = data.rec
CleanupsNext == UpkeepNext /\ UNCHANGED <<clock, saved>> /\ \A r \in Runners : tx'[r] = tx[r]

TextsNext == TitlesNext /\ UNCHANGED <<settings, passed>> /\ \A t \in Testers : doing'[t] = doing[t]
ModelsNext == TitlesNext /\ UNCHANGED <<product, version>>

(* The crawl tasks of the expiring lock are neither cancelled nor deleted.   *)
ExpiryNext ==
  /\ Expiry!Next
  /\ \A t \in DOMAIN m1 : m1'[t].status \notin {"cancelled", "deleted"} /\ ~m1'[t].marked

MemoryNext ==
  \/ /\ part \in {"syncs", "titles", "beside", "between"}
     /\ UNCHANGED From7
     /\ \/ part = "syncs" /\ Syncs!Next
        \/ part = "titles" /\ Titles!Next
        \/ part = "beside" /\ Beside!Next
        \/ part = "between" /\ Between!Next
  \/ /\ part \in {"days", "shops", "follow", "among"}
     /\ UNCHANGED From9
     /\ \/ part = "days" /\ Days!Next
        \/ part = "shops" /\ Shops!Next
        \/ part = "follow" /\ Follow!Next
        \/ part = "among" /\ Among!Next
  \/ part = "expiry" /\ ExpiryNext

servicesVars == <<part, vars, startVars, postVars, upkeepVars, titleVars, memory>>
ServicesNext ==
  /\ UNCHANGED part
  /\ \/ /\ part = "control"
        /\ UNCHANGED <<startVars, postVars, upkeepVars, titleVars, memory>>
        /\ Next
     \/ /\ part = "upgrade"
        /\ UNCHANGED <<vars, postVars, upkeepVars, titleVars, memory>>
        /\ StartNext
     \/ /\ part = "news"
        /\ UNCHANGED <<vars, startVars, upkeepVars, titleVars, memory>>
        /\ PostNext
     \/ /\ part \in {"rounds", "cleanups"}
        /\ UNCHANGED <<vars, startVars, postVars, titleVars, memory>>
        /\ \/ part = "rounds" /\ RoundsNext
           \/ part = "cleanups" /\ CleanupsNext
     \/ /\ part \in {"texts", "models"}
        /\ UNCHANGED <<vars, startVars, postVars, upkeepVars, memory>>
        /\ \/ part = "texts" /\ TextsNext
           \/ part = "models" /\ ModelsNext
     \/ /\ part \in SharedParts
        /\ UNCHANGED <<vars, startVars, postVars, upkeepVars, titleVars>>
        /\ MemoryNext

ServicesSpec == ServicesInit /\ [][ServicesNext]_servicesVars

-----------------------------------------------------------------------------
(* Every variable holds values of its kind. *)
ServicesTypeOK ==
  /\ part = "control" => TypeOK
  /\ part = "upgrade" => StartTypeOK
  /\ part = "news" => PostTypeOK
  /\ part \in {"rounds", "cleanups"} => UpkeepTypeOK
  /\ part \in {"texts", "models"} => TitlesTypeOK
  /\ part = "syncs" => Syncs!SyncTypeOK
  /\ part = "titles" => Titles!SyncTypeOK
  /\ part = "beside" => Beside!SyncTypeOK
  /\ part = "between" => Between!SyncTypeOK
  /\ part = "days" => Days!ProductsTypeOK
  /\ part = "shops" => Shops!ProductsTypeOK
  /\ part = "follow" => Follow!ProductsTypeOK
  /\ part = "among" => Among!ProductsTypeOK
  /\ part = "expiry" => Expiry!TypeOK

(* run_sync_task, crawl_task_start_wait_reason: a task has one worker;      *)
(* running tasks keep to the limits and have no conflicting scopes, title   *)
(* tasks of a user run one at a time; no more crawl tasks of a lane run     *)
(* than its limit allows, although two dispatchers have counted the same    *)
(* free slots.                                                              *)
TasksApart ==
  CASE part = "syncs" -> Syncs!TasksApart
    [] part = "titles" -> Titles!TasksApart
    [] part = "beside" -> Beside!TasksApart
    [] part = "between" -> Between!TasksApart
    [] part = "expiry" -> Expiry!RunningWithinLimit
    [] OTHER -> TRUE

(* A mark of a product stands for a row of the store it names. *)
MarkMeansProduct ==
  CASE part = "days" -> Days!MarkMeansProduct
    [] part = "shops" -> Shops!MarkMeansProduct
    [] part = "follow" -> Follow!MarkMeansProduct
    [] part = "among" -> Among!MarkMeansProduct
    [] OTHER -> TRUE

(* What one record says of others is true: a process that serves has the    *)
(* whole database before it, sensitive words are in some list; images of    *)
(* announcements are there, and what is marked as read was shown; the rows  *)
(* of settings hold what was saved last, a due time is served once, a       *)
(* record of images to be deleted has one task; the title a user has chosen *)
(* is that of the product, settings are verified if their model was tested. *)
RecordsAgree ==
  /\ part = "upgrade" => ReadyIsComplete /\ WordsKept
  /\ part = "news" => ImagesThere /\ ReadMeansShown
  /\ part \in {"rounds", "cleanups"} => ChoicesKept /\ DueOnce /\ CleanedInTime /\ OneCleanup
  /\ part \in {"texts", "models"} => ChosenStays /\ ApprovedKeepsOne /\ VerifiedWasTested

(* Items shown as those of products have their images, but for targets of   *)
(* replacements not done; any item shown loses them only when its own       *)
(* listing, before it has a row, or its replacement is rolled back.  An     *)
(* item that has lost them so may be shown without a product.               *)
ImagesKept ==
  /\ [](/\ part = "days" => Days!ProductsHaveImages
        /\ part = "shops" => Shops!ProductsHaveImages
        /\ part = "follow" => Follow!ProductsHaveImages
        /\ part = "among" => Among!ProductsHaveImages)
  /\ [][/\ part = "days" => Days!LossStep
        /\ part = "shops" => Shops!LossStep
        /\ part = "follow" => Follow!LossStep
        /\ part = "among" => Among!LossStep]_<<part, memory>>

(* A store sync that has been given all items leaves the rows of its store  *)
(* as Rakuten is.                                                           *)
SyncRepairs ==
  [][/\ part = "days" => Days!SyncStep
     /\ part = "shops" => Shops!SyncStep
     /\ part = "follow" => Follow!SyncStep
     /\ part = "among" => Among!SyncStep]_<<part, memory>>

(* A start of a new version undoes no decision of a user. *)
DecisionsKept ==
  [][part = "upgrade" => DecisionsStay]_<<part, startVars>>

-----------------------------------------------------------------------------
(* What the run checks of a part follows from what is proved of its         *)
(* component.                                                               *)
LEMMA OnePart ==
  ASSUME [ServicesNext]_servicesVars
  PROVE  part' = part
  BY DEF ServicesNext, servicesVars

LEMMA SyncsApart == ServicesSpec => [](part = "syncs" => Syncs!TasksApart /\ Syncs!SyncTypeOK)
<1>1. ServicesInit /\ part = "syncs" => Syncs!Init
  BY DEF ServicesInit, MemoryInit, OwnParts
<1>2. part = "syncs" /\ [ServicesNext]_servicesVars => [Syncs!Next]_Syncs!syncVars
  BY DEF ServicesNext, MemoryNext, servicesVars, OwnParts, Syncs!syncVars, memory
<1>3. [ServicesNext]_servicesVars => ((part = "syncs")' <=> part = "syncs")
  BY OnePart
<1>4. Syncs!Spec => []Syncs!TasksApart /\ []Syncs!SyncTypeOK
  BY SyncTasksAssumption, Syncs!TasksKeepApart, Syncs!SyncTyping
<1>5. QED
  BY <1>1, <1>2, <1>3, <1>4, PTL DEF ServicesSpec, Syncs!Spec

LEMMA TitlesApart == ServicesSpec => [](part = "titles" => Titles!TasksApart /\ Titles!SyncTypeOK)
<1>1. ServicesInit /\ part = "titles" => Titles!Init
  BY DEF ServicesInit, MemoryInit, OwnParts
<1>2. part = "titles" /\ [ServicesNext]_servicesVars => [Titles!Next]_Titles!syncVars
  BY DEF ServicesNext, MemoryNext, servicesVars, OwnParts, Titles!syncVars, memory
<1>3. [ServicesNext]_servicesVars => ((part = "titles")' <=> part = "titles")
  BY OnePart
<1>4. Titles!Spec => []Titles!TasksApart /\ []Titles!SyncTypeOK
  BY SyncTasksAssumption, Titles!TasksKeepApart, Titles!SyncTyping
<1>5. QED
  BY <1>1, <1>2, <1>3, <1>4, PTL DEF ServicesSpec, Titles!Spec

LEMMA BesideApart == ServicesSpec => [](part = "beside" => Beside!TasksApart /\ Beside!SyncTypeOK)
<1>1. ServicesInit /\ part = "beside" => Beside!Init
  BY DEF ServicesInit, MemoryInit, OwnParts
<1>2. part = "beside" /\ [ServicesNext]_servicesVars => [Beside!Next]_Beside!syncVars
  BY DEF ServicesNext, MemoryNext, servicesVars, OwnParts, Beside!syncVars, memory
<1>3. [ServicesNext]_servicesVars => ((part = "beside")' <=> part = "beside")
  BY OnePart
<1>4. Beside!Spec => []Beside!TasksApart /\ []Beside!SyncTypeOK
  BY SyncTasksAssumption, Beside!TasksKeepApart, Beside!SyncTyping
<1>5. QED
  BY <1>1, <1>2, <1>3, <1>4, PTL DEF ServicesSpec, Beside!Spec

LEMMA BetweenApart == ServicesSpec => [](part = "between" => Between!TasksApart /\ Between!SyncTypeOK)
<1>1. ServicesInit /\ part = "between" => Between!Init
  BY DEF ServicesInit, MemoryInit, OwnParts
<1>2. part = "between" /\ [ServicesNext]_servicesVars => [Between!Next]_Between!syncVars
  BY DEF ServicesNext, MemoryNext, servicesVars, OwnParts, Between!syncVars, memory
<1>3. [ServicesNext]_servicesVars => ((part = "between")' <=> part = "between")
  BY OnePart
<1>4. Between!Spec => []Between!TasksApart /\ []Between!SyncTypeOK
  BY SyncTasksAssumption, Between!TasksKeepApart, Between!SyncTyping
<1>5. QED
  BY <1>1, <1>2, <1>3, <1>4, PTL DEF ServicesSpec, Between!Spec

LEMMA ExpiryApart == ServicesSpec => [](part = "expiry" => Expiry!RunningWithinLimit /\ Expiry!TypeOK)
<1>1. ServicesInit /\ part = "expiry" => Expiry!Init
  BY DEF ServicesInit, MemoryInit, OwnParts
<1>2. part = "expiry" /\ [ServicesNext]_servicesVars => [Expiry!Next]_Expiry!vars
  BY DEF ServicesNext, MemoryNext, ExpiryNext, servicesVars, OwnParts, Expiry!vars, memory
<1>3. [ServicesNext]_servicesVars => ((part = "expiry")' <=> part = "expiry")
  BY OnePart
<1>4. Expiry!Spec => []Expiry!RunningWithinLimit /\ []Expiry!TypeOK
  BY CrawlAssumption, Expiry!RunningCapacity, Expiry!Typing
<1>5. QED
  BY <1>1, <1>2, <1>3, <1>4, PTL DEF ServicesSpec, Expiry!Spec

(* run_sync_task, crawl_task_start_wait_reason, as the run checks them: a   *)
(* task has one worker, running tasks keep to their limits and have no      *)
(* conflicting scopes, in every instance of the run.                        *)
THEOREM ServicesApart == ServicesSpec => []TasksApart
<1>1. /\ part = "syncs" => Syncs!TasksApart
      /\ part = "titles" => Titles!TasksApart
      /\ part = "beside" => Beside!TasksApart
      /\ part = "between" => Between!TasksApart
      /\ part = "expiry" => Expiry!RunningWithinLimit
      => TasksApart
  BY DEF TasksApart
<1>2. QED
  BY <1>1, SyncsApart, TitlesApart, BesideApart, BetweenApart, ExpiryApart, PTL

LEMMA DaysProducts ==
  ServicesSpec => /\ [](part = "days" => Days!MarkMeansProduct /\ Days!ProductsHaveImages /\ Days!ProductsTypeOK)
                  /\ [][part = "days" => Days!SyncStep /\ Days!LossStep]_<<part, memory>>
<1>1. ServicesInit /\ part = "days" => Days!Init
  BY DEF ServicesInit, MemoryInit, OwnParts
<1>2. part = "days" /\ [ServicesNext]_servicesVars => [Days!Next]_Days!vars
  BY DEF ServicesNext, MemoryNext, servicesVars, OwnParts, Days!vars, memory
<1>3. [ServicesNext]_servicesVars => ((part = "days")' <=> part = "days")
  BY OnePart
<1>4. Days!Spec => /\ []Days!MarkMeansProduct /\ Days!ImagesKept
                  /\ Days!SyncRepairs /\ []Days!ProductsTypeOK
  BY StoreProductsAssumption, Days!MarksMeanProducts, Days!ImagesAreKept, Days!SyncsTellTheTruth,
     Days!ProductTyping
<1>5. part = "days" /\ [ServicesNext]_servicesVars /\ [Days!SyncStep]_Days!vars /\ [Days!LossStep]_Days!vars
        => [part = "days" => Days!SyncStep /\ Days!LossStep]_<<part, memory>>
  BY DEF ServicesNext, MemoryNext, servicesVars, OwnParts, Days!vars, memory, From9
<1>6. QED
  BY <1>1, <1>2, <1>3, <1>4, <1>5, PTL DEF ServicesSpec, Days!Spec, Days!SyncRepairs, Days!ImagesKept

LEMMA ShopsProducts ==
  ServicesSpec => /\ [](part = "shops" => Shops!MarkMeansProduct /\ Shops!ProductsHaveImages /\ Shops!ProductsTypeOK)
                  /\ [][part = "shops" => Shops!SyncStep /\ Shops!LossStep]_<<part, memory>>
<1>1. ServicesInit /\ part = "shops" => Shops!Init
  BY DEF ServicesInit, MemoryInit, OwnParts
<1>2. part = "shops" /\ [ServicesNext]_servicesVars => [Shops!Next]_Shops!vars
  BY DEF ServicesNext, MemoryNext, servicesVars, OwnParts, Shops!vars, memory
<1>3. [ServicesNext]_servicesVars => ((part = "shops")' <=> part = "shops")
  BY OnePart
<1>4. Shops!Spec => /\ []Shops!MarkMeansProduct /\ Shops!ImagesKept
                   /\ Shops!SyncRepairs /\ []Shops!ProductsTypeOK
  BY StoreProductsAssumption, Shops!MarksMeanProducts, Shops!ImagesAreKept, Shops!SyncsTellTheTruth,
     Shops!ProductTyping
<1>5. part = "shops" /\ [ServicesNext]_servicesVars /\ [Shops!SyncStep]_Shops!vars /\ [Shops!LossStep]_Shops!vars
        => [part = "shops" => Shops!SyncStep /\ Shops!LossStep]_<<part, memory>>
  BY DEF ServicesNext, MemoryNext, servicesVars, OwnParts, Shops!vars, memory, From9
<1>6. QED
  BY <1>1, <1>2, <1>3, <1>4, <1>5, PTL DEF ServicesSpec, Shops!Spec, Shops!SyncRepairs, Shops!ImagesKept

LEMMA FollowProducts ==
  ServicesSpec => /\ [](part = "follow" => Follow!MarkMeansProduct /\ Follow!ProductsHaveImages /\ Follow!ProductsTypeOK)
                  /\ [][part = "follow" => Follow!SyncStep /\ Follow!LossStep]_<<part, memory>>
<1>1. ServicesInit /\ part = "follow" => Follow!Init
  BY DEF ServicesInit, MemoryInit, OwnParts
<1>2. part = "follow" /\ [ServicesNext]_servicesVars => [Follow!Next]_Follow!vars
  BY DEF ServicesNext, MemoryNext, servicesVars, OwnParts, Follow!vars, memory
<1>3. [ServicesNext]_servicesVars => ((part = "follow")' <=> part = "follow")
  BY OnePart
<1>4. Follow!Spec => /\ []Follow!MarkMeansProduct /\ Follow!ImagesKept
                    /\ Follow!SyncRepairs /\ []Follow!ProductsTypeOK
  BY StoreProductsAssumption, Follow!MarksMeanProducts, Follow!ImagesAreKept, Follow!SyncsTellTheTruth,
     Follow!ProductTyping
<1>5. part = "follow" /\ [ServicesNext]_servicesVars /\ [Follow!SyncStep]_Follow!vars /\ [Follow!LossStep]_Follow!vars
        => [part = "follow" => Follow!SyncStep /\ Follow!LossStep]_<<part, memory>>
  BY DEF ServicesNext, MemoryNext, servicesVars, OwnParts, Follow!vars, memory, From9
<1>6. QED
  BY <1>1, <1>2, <1>3, <1>4, <1>5, PTL DEF ServicesSpec, Follow!Spec, Follow!SyncRepairs, Follow!ImagesKept

LEMMA AmongProducts ==
  ServicesSpec => /\ [](part = "among" => Among!MarkMeansProduct /\ Among!ProductsHaveImages /\ Among!ProductsTypeOK)
                  /\ [][part = "among" => Among!SyncStep /\ Among!LossStep]_<<part, memory>>
<1>1. ServicesInit /\ part = "among" => Among!Init
  BY DEF ServicesInit, MemoryInit, OwnParts
<1>2. part = "among" /\ [ServicesNext]_servicesVars => [Among!Next]_Among!vars
  BY DEF ServicesNext, MemoryNext, servicesVars, OwnParts, Among!vars, memory
<1>3. [ServicesNext]_servicesVars => ((part = "among")' <=> part = "among")
  BY OnePart
<1>4. Among!Spec => /\ []Among!MarkMeansProduct /\ Among!ImagesKept
                   /\ Among!SyncRepairs /\ []Among!ProductsTypeOK
  BY StoreProductsAssumption, Among!MarksMeanProducts, Among!ImagesAreKept, Among!SyncsTellTheTruth,
     Among!ProductTyping
<1>5. part = "among" /\ [ServicesNext]_servicesVars /\ [Among!SyncStep]_Among!vars /\ [Among!LossStep]_Among!vars
        => [part = "among" => Among!SyncStep /\ Among!LossStep]_<<part, memory>>
  BY DEF ServicesNext, MemoryNext, servicesVars, OwnParts, Among!vars, memory, From9
<1>6. QED
  BY <1>1, <1>2, <1>3, <1>4, <1>5, PTL DEF ServicesSpec, Among!Spec, Among!SyncRepairs, Among!ImagesKept

(* As the run checks it: a mark of a product stands for a row of the store  *)
(* it names, whatever syncs, deletions and replacements overlap             *)
(* (run_listing_product_attempt skips a marked store for good).             *)
THEOREM ServicesMarks == ServicesSpec => []MarkMeansProduct
<1>1. /\ part = "days" => Days!MarkMeansProduct
      /\ part = "shops" => Shops!MarkMeansProduct
      /\ part = "follow" => Follow!MarkMeansProduct
      /\ part = "among" => Among!MarkMeansProduct
      => MarkMeansProduct
  BY DEF MarkMeansProduct
<1>2. QED
  BY <1>1, DaysProducts, ShopsProducts, FollowProducts, AmongProducts, PTL

(* As the run checks it: items shown as those of products have their        *)
(* images, but for targets of replacements not done, and any item shown     *)
(* loses them only when its own listing, before it has a row, or its        *)
(* replacement is rolled back (rollback_uploaded_listing_images,            *)
(* perform_deleted_product_image_cleanup).                                  *)
THEOREM ServicesImages == ServicesSpec => ImagesKept
<1>1. /\ part = "days" => Days!ProductsHaveImages
      /\ part = "shops" => Shops!ProductsHaveImages
      /\ part = "follow" => Follow!ProductsHaveImages
      /\ part = "among" => Among!ProductsHaveImages
      => /\ part = "days" => Days!ProductsHaveImages
         /\ part = "shops" => Shops!ProductsHaveImages
         /\ part = "follow" => Follow!ProductsHaveImages
         /\ part = "among" => Among!ProductsHaveImages
  OBVIOUS
<1>2. /\ [part = "days" => Days!SyncStep /\ Days!LossStep]_<<part, memory>>
      /\ [part = "shops" => Shops!SyncStep /\ Shops!LossStep]_<<part, memory>>
      /\ [part = "follow" => Follow!SyncStep /\ Follow!LossStep]_<<part, memory>>
      /\ [part = "among" => Among!SyncStep /\ Among!LossStep]_<<part, memory>>
      => [/\ part = "days" => Days!LossStep
          /\ part = "shops" => Shops!LossStep
          /\ part = "follow" => Follow!LossStep
          /\ part = "among" => Among!LossStep]_<<part, memory>>
  OBVIOUS
<1>3. QED
  BY <1>1, <1>2, DaysProducts, ShopsProducts, FollowProducts, AmongProducts, PTL DEF ImagesKept

(* As the run checks it: a store sync that has been given all items leaves  *)
(* the rows of its store as Rakuten is (perform_store_sync).                *)
THEOREM ServicesSyncs == ServicesSpec => SyncRepairs
<1>1. /\ [part = "days" => Days!SyncStep /\ Days!LossStep]_<<part, memory>>
      /\ [part = "shops" => Shops!SyncStep /\ Shops!LossStep]_<<part, memory>>
      /\ [part = "follow" => Follow!SyncStep /\ Follow!LossStep]_<<part, memory>>
      /\ [part = "among" => Among!SyncStep /\ Among!LossStep]_<<part, memory>>
      => [/\ part = "days" => Days!SyncStep
          /\ part = "shops" => Shops!SyncStep
          /\ part = "follow" => Follow!SyncStep
          /\ part = "among" => Among!SyncStep]_<<part, memory>>
  OBVIOUS
<1>2. QED
  BY <1>1, DaysProducts, ShopsProducts, FollowProducts, AmongProducts, PTL DEF SyncRepairs

-----------------------------------------------------------------------------
(* The components that keep their own variables. *)
LEMMA ControlPart == ServicesSpec => []TypeOK
<1>1. ServicesInit => Init
  BY DEF ServicesInit
<1>2. [ServicesNext]_servicesVars => [Next]_vars
  BY DEF ServicesNext, servicesVars
<1>3. TypedInv => TypeOK
  BY DEF TypedInv
<1>4. QED
  BY <1>1, <1>2, <1>3, ControlTyping, PTL DEF ServicesSpec, Spec

LEMMA UpgradePart ==
  ASSUME ~TornColumns
  PROVE  ServicesSpec => /\ [](part = "upgrade" => ReadyIsComplete /\ WordsKept /\ StartTypeOK)
                         /\ [][part = "upgrade" => DecisionsStay]_<<part, startVars>>
<1>1. ServicesInit /\ part = "upgrade" => StartInit
  BY DEF ServicesInit
<1>2. part = "upgrade" /\ [ServicesNext]_servicesVars => [StartNext]_startVars
  BY DEF ServicesNext, MemoryNext, servicesVars, OwnParts
<1>3. [ServicesNext]_servicesVars => ((part = "upgrade")' <=> part = "upgrade")
  BY OnePart
<1>4. part = "upgrade" /\ [ServicesNext]_servicesVars /\ [DecisionsStay]_startVars => [part = "upgrade" => DecisionsStay]_<<part, startVars>>
  BY OnePart
<1>5. QED
  BY <1>1, <1>2, <1>3, <1>4, StartsComplete, StartsTyped, StartsKeepDecisions, PTL DEF ServicesSpec, StartSpec, StartKeeps

LEMMA NewsPart ==
  ASSUME FreshForms = TRUE, PromptReads = TRUE
  PROVE  ServicesSpec => [](part = "news" => ImagesThere /\ ReadMeansShown)
<1>1. ServicesInit /\ part = "news" => PostInit
  BY DEF ServicesInit
<1>2. part = "news" /\ [ServicesNext]_servicesVars => [PostNext]_postVars
  BY DEF ServicesNext, MemoryNext, servicesVars, OwnParts
<1>3. [ServicesNext]_servicesVars => ((part = "news")' <=> part = "news")
  BY OnePart
<1>4. QED
  BY <1>1, <1>2, <1>3, ImagesStay, ReadIsShown, PTL DEF ServicesSpec, PostSpec

LEMMA NewsTyped ==
  ServicesSpec => [](part = "news" => PostTypeOK)
<1>1. ServicesInit /\ part = "news" => PostInit
  BY DEF ServicesInit
<1>2. part = "news" /\ [ServicesNext]_servicesVars => [PostNext]_postVars
  BY DEF ServicesNext, MemoryNext, servicesVars, OwnParts
<1>3. [ServicesNext]_servicesVars => ((part = "news")' <=> part = "news")
  BY OnePart
<1>4. QED
  BY <1>1, <1>2, <1>3, PostsTyped, PTL DEF ServicesSpec, PostSpec

LEMMA RoundsPart ==
  ASSUME SerialRows, RowFirst
  PROVE  ServicesSpec => [](part \in {"rounds", "cleanups"} => ChoicesKept /\ DueOnce /\ CleanedInTime /\ OneCleanup)
<1>1. ServicesInit /\ part \in {"rounds", "cleanups"} => UpkeepInit
  BY DEF ServicesInit
<1>2. part \in {"rounds", "cleanups"} /\ [ServicesNext]_servicesVars => [UpkeepNext]_upkeepVars
  BY DEF ServicesNext, MemoryNext, RoundsNext, CleanupsNext, servicesVars, OwnParts
<1>3. [ServicesNext]_servicesVars => ((part \in {"rounds", "cleanups"})' <=> part \in {"rounds", "cleanups"})
  BY OnePart
<1>4. QED
  BY <1>1, <1>2, <1>3, UpkeepKept, PTL DEF ServicesSpec, UpkeepSpec

LEMMA RoundsTyped ==
  ServicesSpec => [](part \in {"rounds", "cleanups"} => UpkeepTypeOK)
<1>1. ServicesInit /\ part \in {"rounds", "cleanups"} => UpkeepInit
  BY DEF ServicesInit
<1>2. part \in {"rounds", "cleanups"} /\ [ServicesNext]_servicesVars => [UpkeepNext]_upkeepVars
  BY DEF ServicesNext, MemoryNext, RoundsNext, CleanupsNext, servicesVars, OwnParts
<1>3. [ServicesNext]_servicesVars => ((part \in {"rounds", "cleanups"})' <=> part \in {"rounds", "cleanups"})
  BY OnePart
<1>4. QED
  BY <1>1, <1>2, <1>3, UpkeepIsTyped, PTL DEF ServicesSpec, UpkeepSpec

LEMMA TextsPart ==
  ASSUME PromptWriters, SyncsAlone, FreshTexts, TestsAlone
  PROVE  ServicesSpec => [](part \in {"texts", "models"} => ChosenStays /\ ApprovedKeepsOne /\ VerifiedWasTested /\ TitlesTypeOK)
<1>1. ServicesInit /\ part \in {"texts", "models"} => TitlesInit
  BY DEF ServicesInit
<1>2. part \in {"texts", "models"} /\ [ServicesNext]_servicesVars => [TitlesNext]_titleVars
  BY DEF ServicesNext, MemoryNext, TextsNext, ModelsNext, servicesVars, OwnParts
<1>3. [ServicesNext]_servicesVars => ((part \in {"texts", "models"})' <=> part \in {"texts", "models"})
  BY OnePart
<1>4. QED
  BY <1>1, <1>2, <1>3, TitlesKept, TitlesAreTyped, PTL DEF ServicesSpec, TitlesSpec

(* As the run checks it, for any number of processes, users and changes:    *)
(* a process that serves has the whole schema before it and no word is      *)
(* lost (init_database); images of announcements are there and what is read *)
(* was shown (announcement_service); the rows of the settings hold what was *)
(* saved last, a due time is served once, a record has one cleanup          *)
(* (time_settings_service); the chosen title is that of the product         *)
(* (ai_title_service).                                                      *)
THEOREM ServicesRecords ==
  ASSUME ~TornColumns, FreshForms = TRUE, PromptReads = TRUE, SerialRows, RowFirst,
         PromptWriters, SyncsAlone, FreshTexts, TestsAlone
  PROVE  ServicesSpec => []RecordsAgree
<1>1. /\ part = "upgrade" => ReadyIsComplete /\ WordsKept /\ StartTypeOK
      /\ part = "news" => ImagesThere /\ ReadMeansShown
      /\ part \in {"rounds", "cleanups"} => ChoicesKept /\ DueOnce /\ CleanedInTime /\ OneCleanup
      /\ part \in {"texts", "models"} =>
           ChosenStays /\ ApprovedKeepsOne /\ VerifiedWasTested /\ TitlesTypeOK
      => RecordsAgree
  BY DEF RecordsAgree
<1>2. QED
  BY <1>1, UpgradePart, NewsPart, RoundsPart, TextsPart, PTL

(* As the run checks it: a start of a new version undoes no decision of a   *)
(* user, however many processes start and die (init_database).              *)
THEOREM ServicesDecisions ==
  ASSUME ~TornColumns
  PROVE  ServicesSpec => DecisionsKept
  BY UpgradePart, PTL DEF DecisionsKept

(* As the run checks it: every variable of every part holds values of its   *)
(* kind.                                                                    *)
THEOREM ServicesTyping ==
  ASSUME ~TornColumns, PromptWriters, SyncsAlone, FreshTexts, TestsAlone
  PROVE  ServicesSpec => []ServicesTypeOK
<1> DEFINE OwnTyped ==
             /\ part = "upgrade" => StartTypeOK
             /\ part = "news" => PostTypeOK
             /\ part \in {"rounds", "cleanups"} => UpkeepTypeOK
             /\ part \in {"texts", "models"} => TitlesTypeOK
           SyncsTyped ==
             /\ part = "syncs" => Syncs!SyncTypeOK
             /\ part = "titles" => Titles!SyncTypeOK
             /\ part = "beside" => Beside!SyncTypeOK
             /\ part = "between" => Between!SyncTypeOK
           ProductsTyped ==
             /\ part = "days" => Days!ProductsTypeOK
             /\ part = "shops" => Shops!ProductsTypeOK
             /\ part = "follow" => Follow!ProductsTypeOK
             /\ part = "among" => Among!ProductsTypeOK
           CrawlTyped == part = "expiry" => Expiry!TypeOK
<1>1. ServicesSpec => []OwnTyped
  BY UpgradePart, NewsTyped, RoundsTyped, TextsPart, PTL
<1>2. ServicesSpec => []SyncsTyped
  BY SyncsApart, TitlesApart, BesideApart, BetweenApart, PTL
<1>3. ServicesSpec => []ProductsTyped
  BY DaysProducts, ShopsProducts, FollowProducts, AmongProducts, PTL
<1>4. ServicesSpec => []CrawlTyped
  BY ExpiryApart, PTL
<1>5. TypeOK /\ OwnTyped /\ SyncsTyped /\ ProductsTyped /\ CrawlTyped => ServicesTypeOK
  BY DEF ServicesTypeOK
<1> HIDE DEF OwnTyped, SyncsTyped, ProductsTyped, CrawlTyped
<1>6. QED
  BY <1>1, <1>2, <1>3, <1>4, <1>5, ControlPart, PTL
=============================================================================
