--------------------------- MODULE ScheduleProofs ---------------------------
(***************************************************************************)
(* What runs at a time, for every number of schedules, stores, runners,    *)
(* workers and requests, every batch size and every number of crashes and  *)
(* failed enqueues: one manual task of a store is under way at a time, and *)
(* nothing that has come due once creates its tasks twice.                 *)
(***************************************************************************)
EXTENDS MCListings, Schedules, FiniteSetTheorems, TLAPS

Executing == {"run", "made", "raised"}
Sending == {"enqueue", "crawls"}
HandPCs == Executing \cup Sending \cup {"idle", "next", "read", "due"}
AllKinds == {"auto", "manual", "once", "crawl"}

(* What a process has in hand fits what it is about to do.                  *)
Hand == [pc : HandPCs, id : Schedules \cup {NoId}, todo : SUBSET Schedules, seen : [Schedules -> Row]]
Fits(p, pc, id, todo) ==
  /\ pc \in Executing <=> id # NoId
  /\ pc \in {"idle", "next", "read"} => todo = {}
  /\ pc = "enqueue" => todo \subseteq Manual
  /\ pc = "crawls" => todo \subseteq Crawls
  /\ pc \in Executing \cup {"due"} => todo \subseteq Autos
  /\ pc = "due" => p \in Runners
HandOK(p) == Fits(p, proc[p].pc, proc[p].id, proc[p].todo)
HandsOK == \A p \in Procs : HandOK(p)
RowsOK ==
  /\ row \in [Schedules -> Row] /\ proc \in [Procs -> Hand]
  /\ owed \in [Schedules -> Nat] /\ made \in [Schedules -> Nat] /\ waiting \in [Schedules -> Nat]
TypedInv == SchedTypeOK /\ RowsOK /\ HandsOK

(* A process changes hands.                                                 *)
Has(h, pc, id, todo, seen) ==
  h \in Hand /\ h.pc = pc /\ h.id = id /\ h.todo = todo /\ h.seen = seen
Moves(p, pc, id, todo, seen) ==
  /\ proc' \in [Procs -> Hand]
  /\ Has(proc'[p], pc, id, todo, seen)
  /\ \A q \in Procs \ {p} : proc'[q] = proc[q]

-----------------------------------------------------------------------------
LEMMA KindFacts ==
  ASSUME SchedTypeOK
  PROVE  /\ \A t \in Schedules : kind[t] \in AllKinds
         /\ Manual \cap Autos = {} /\ Manual \cap Crawls = {} /\ Autos \cap Crawls = {}
         /\ Manual \cup Autos \cup Crawls = Schedules
<1>1. kind \in [Schedules -> AllKinds]
  BY ScheduleAssumption DEF SchedTypeOK, AllKinds
<1>2. QED
  BY <1>1 DEF AllKinds, Manual, Autos, Crawls, OfKind

LEMMA KindsStay ==
  ASSUME kind' = kind
  PROVE  Manual' = Manual /\ Autos' = Autos /\ Crawls' = Crawls
BY DEF Manual, Autos, Crawls, OfKind

LEMMA FirstOfSubset ==
  ASSUME NEW S, NEW B \in FirstOf(S)
  PROVE  B \in SUBSET S
BY DEF FirstOf

LEMMA IdleHas == Has(Idle, "idle", NoId, {}, Idle.seen)
BY DEF Has, Hand, HandPCs, Idle, NoRow, Row, SchedStatuses

LEMMA IdleWith ==
  ASSUME NEW pc \in HandPCs, NEW todo \in SUBSET Schedules
  PROVE  /\ Has([Idle EXCEPT !.pc = pc], pc, NoId, {}, Idle.seen)
         /\ Has([Idle EXCEPT !.pc = pc, !.todo = todo], pc, NoId, todo, Idle.seen)
<1>1. Idle.seen \in [Schedules -> Row]
  BY DEF Idle, NoRow, Row, SchedStatuses
<1>2. QED
  BY <1>1 DEF Has, Hand, Idle

LEMMA EditPC ==
  ASSUME NEW h \in Hand, NEW pc \in HandPCs
  PROVE  /\ Has([h EXCEPT !.pc = pc], pc, h.id, h.todo, h.seen)
         /\ Has([h EXCEPT !.pc = pc, !.id = NoId], pc, NoId, h.todo, h.seen)
BY DEF Hand, Has

LEMMA EditTodo ==
  ASSUME NEW h \in Hand, NEW pc \in HandPCs, NEW todo \in SUBSET Schedules
  PROVE  /\ Has([h EXCEPT !.todo = todo], h.pc, h.id, todo, h.seen)
         /\ Has([h EXCEPT !.pc = pc, !.todo = todo], pc, h.id, todo, h.seen)
         /\ Has([h EXCEPT !.todo = todo, !.pc = pc], pc, h.id, todo, h.seen)
BY DEF Hand, Has

LEMMA EditSeen ==
  ASSUME NEW h \in Hand, NEW pc \in HandPCs, NEW seen \in [Schedules -> Row]
  PROVE  Has([h EXCEPT !.pc = pc, !.seen = seen], pc, h.id, h.todo, seen)
BY DEF Hand, Has

LEMMA EditRun ==
  ASSUME NEW h \in Hand, NEW t \in Schedules
  PROVE  Has([h EXCEPT !.pc = "run", !.id = t, !.todo = @ \ {t}], "run", t, h.todo \ {t}, h.seen)
BY DEF Hand, Has, HandPCs, Executing

LEMMA HandFacts ==
  ASSUME TypedInv, NEW p \in Procs
  PROVE  /\ proc[p] \in Hand /\ proc[p].pc \in HandPCs /\ proc[p].id \in Schedules \cup {NoId}
         /\ proc[p].todo \in SUBSET Schedules /\ proc[p].seen \in [Schedules -> Row]
         /\ HandOK(p)
BY DEF TypedInv, RowsOK, HandsOK, Hand

LEMMA PutHand ==
  ASSUME TypedInv, NEW p \in Procs, NEW h, NEW pc, NEW id, NEW todo, NEW seen,
         Has(h, pc, id, todo, seen), proc' = [proc EXCEPT ![p] = h]
  PROVE  Moves(p, pc, id, todo, seen)
BY DEF TypedInv, RowsOK, Has, Moves

LEMMA GoMoves ==
  ASSUME TypedInv, NEW p \in Procs, NEW pc \in HandPCs, Go(p, pc)
  PROVE  Moves(p, pc, NoId, {}, Idle.seen)
<1>1. Has([Idle EXCEPT !.pc = pc], pc, NoId, {}, Idle.seen)
  BY IdleWith
<1>2. QED
  BY <1>1, PutHand DEF Go

LEMMA RunMoves ==
  ASSUME TypedInv, NEW p \in Procs, NEW t \in Schedules, proc' = [proc EXCEPT ![p] = Run(p, t)]
  PROVE  Moves(p, "run", t, proc[p].todo \ {t}, proc[p].seen)
<1>1. proc[p] \in Hand
  BY HandFacts
<1>2. Has(Run(p, t), "run", t, proc[p].todo \ {t}, proc[p].seen)
  BY <1>1, EditRun DEF Run
<1>3. QED
  BY <1>2, PutHand

(* After a move the hands fit, if that of the one who has moved does.       *)
LEMMA MovesFit ==
  ASSUME TypedInv, kind' = kind, NEW p \in Procs, NEW pc, NEW id, NEW todo, NEW seen,
         Moves(p, pc, id, todo, seen), Fits(p, pc, id, todo)
  PROVE  proc' \in [Procs -> Hand] /\ HandsOK'
<1>1. \A q \in Procs \ {p} : HandOK(q)'
  <2>1. TAKE q \in Procs \ {p}
  <2>2. proc'[q] = proc[q] /\ HandOK(q)
    BY HandFacts DEF Moves
  <2>3. QED
    BY <2>2, KindsStay DEF HandOK, Fits
<1>2. HandOK(p)'
  BY KindsStay DEF HandOK, Fits, Moves, Has
<1>3. QED
  BY <1>1, <1>2 DEF HandsOK, Moves

-----------------------------------------------------------------------------
(* What the operators do to the rows, column by column.                     *)
Only(t) == \A u \in Schedules \ {t} : row'[u] = row[u]
Restatused(S, status) ==
  \A u \in Schedules : /\ row'[u].enabled = row[u].enabled /\ row'[u].due = row[u].due
                       /\ row'[u].status = IF u \in S THEN status ELSE row[u].status

LEMMA RowFacts ==
  ASSUME TypedInv, NEW t \in Schedules
  PROVE  /\ row[t] \in Row /\ row[t].status \in SchedStatuses
         /\ row[t].enabled \in BOOLEAN /\ row[t].due \in BOOLEAN
BY DEF TypedInv, RowsOK, Row

LEMMA StatusRow ==
  ASSUME TypedInv, NEW S, NEW status \in SchedStatuses
  PROVE  /\ Status(S, status) \in [Schedules -> Row]
         /\ \A u \in Schedules :
              /\ Status(S, status)[u].enabled = row[u].enabled
              /\ Status(S, status)[u].due = row[u].due
              /\ Status(S, status)[u].status = IF u \in S THEN status ELSE row[u].status
BY DEF TypedInv, RowsOK, Status, Row

LEMMA StatusIs ==
  ASSUME TypedInv, NEW S, NEW status \in SchedStatuses, row' = Status(S, status)
  PROVE  row' \in [Schedules -> Row] /\ Restatused(S, status)
BY StatusRow DEF Restatused

LEMMA MarkedRow ==
  ASSUME TypedInv, NEW t \in Schedules, NEW advance \in BOOLEAN, row' = Marked(t, advance)
  PROVE  /\ row' \in [Schedules -> Row] /\ Only(t)
         /\ row'[t].status = "running"
         /\ row'[t].enabled = (row[t].enabled /\ ~(advance /\ kind[t] = "once"))
         /\ row'[t].due = (row[t].due /\ ~(advance /\ row[t].enabled /\ kind[t] # "once"))
<1> DEFINE new == Marked(t, advance)
<1>0. row \in [Schedules -> Row]
  BY DEF TypedInv, RowsOK
<1>1. new[t] \in Row
  BY <1>0 DEF Marked, Row, SchedStatuses
<1>2. \A u \in Schedules \ {t} : new[u] = row[u]
  BY <1>0 DEF Marked
<1>3. new \in [Schedules -> Row]
  BY <1>0, <1>1, <1>2 DEF Marked
<1>4. new[t].status = "running"
  BY <1>0 DEF Marked, Row
<1>5. new[t].enabled = (row[t].enabled /\ ~(advance /\ kind[t] = "once"))
  BY <1>0 DEF Marked, Row
<1>6. new[t].due = (row[t].due /\ ~(advance /\ row[t].enabled /\ kind[t] # "once"))
  BY <1>0 DEF Marked, Row
<1> HIDE DEF new
<1>7. row' = new
  BY DEF new
<1>8. QED
  BY <1>2, <1>3, <1>4, <1>5, <1>6, <1>7 DEF Only

LEMMA EndedRow ==
  ASSUME TypedInv, NEW t \in Schedules, NEW raised \in BOOLEAN,
         row' = [row EXCEPT ![t] = Ended(t, raised)]
  PROVE  /\ row' \in [Schedules -> Row] /\ Only(t)
         /\ row'[t].status \in {"failed", "completed", "idle", "disabled"}
         /\ t \in Manual => row'[t].status \in {"failed", "completed"}
         /\ row'[t].enabled = row[t].enabled
         /\ row'[t].due = (row[t].due /\ t \notin Crawls)
<1> DEFINE new == Ended(t, raised)
<1>0. row \in [Schedules -> Row]
  BY DEF TypedInv, RowsOK
<1>1. new \in Row
  BY <1>0 DEF Ended, Row, SchedStatuses
<1>2. new.status = IF raised THEN "failed" ELSE IF t \in Manual THEN "completed"
                   ELSE IF row[t].enabled THEN "idle" ELSE "disabled"
  BY <1>0 DEF Ended, Row
<1>3. new.enabled = row[t].enabled
  BY <1>0 DEF Ended, Row
<1>4. new.due = (row[t].due /\ t \notin Crawls)
  BY <1>0 DEF Ended, Row
<1> HIDE DEF new
<1>5. row' = [row EXCEPT ![t] = new]
  BY DEF new
<1>6. row' \in [Schedules -> Row] /\ Only(t) /\ row'[t] = new
  BY <1>0, <1>1, <1>5 DEF Only
<1>7. /\ new.status \in {"failed", "completed", "idle", "disabled"}
      /\ t \in Manual => new.status \in {"failed", "completed"}
  BY <1>2
<1>8. QED
  BY <1>3, <1>4, <1>6, <1>7

LEMMA SendRow ==
  ASSUME TypedInv, NEW batch, NEW due, row' = Send(batch, due)
  PROVE  /\ row' \in [Schedules -> Row]
         /\ \A u \in Schedules :
              /\ row'[u].enabled = row[u].enabled
              /\ row'[u].due = IF u \in batch THEN FALSE ELSE IF u \in due THEN TRUE ELSE row[u].due
              /\ u \in batch => row'[u].status = "running"
              /\ u \notin batch \cup due =>
                   row'[u].status = IF u \in Interrupted THEN "failed" ELSE row[u].status
              /\ u \in due \ batch => row'[u].status = row[u].status
<1>1. "failed" \in SchedStatuses /\ "running" \in SchedStatuses
  BY DEF SchedStatuses
<1>2. row \in [Schedules -> Row]
  BY DEF TypedInv, RowsOK
<1>3. ASSUME NEW u \in Schedules
      PROVE  /\ row'[u] \in Row /\ row'[u].enabled = row[u].enabled
             /\ row'[u].due = IF u \in batch THEN FALSE ELSE IF u \in due THEN TRUE ELSE row[u].due
             /\ u \in batch => row'[u].status = "running"
             /\ u \notin batch \cup due =>
                  row'[u].status = IF u \in Interrupted THEN "failed" ELSE row[u].status
             /\ u \in due \ batch => row'[u].status = row[u].status
  <2>1. row[u] \in Row
    BY <1>2
  <2>2. CASE u \in batch
    <3>1. row'[u] = [row[u] EXCEPT !.status = "running", !.due = FALSE]
      BY <2>2 DEF Send
    <3>2. QED
      BY <1>1, <2>1, <2>2, <3>1 DEF Row
  <2>3. CASE u \notin batch /\ u \in due
    <3>1. row'[u] = [row[u] EXCEPT !.due = TRUE]
      BY <2>3 DEF Send
    <3>2. QED
      BY <1>1, <2>1, <2>3, <3>1 DEF Row
  <2>4. CASE u \notin batch /\ u \notin due
    <3>1. row'[u] = Status(Interrupted, "failed")[u]
      BY <2>4 DEF Send
    <3>2. Status(Interrupted, "failed")[u] \in Row
      BY <1>1, StatusRow
    <3>3. QED
      BY <1>1, <2>4, <3>1, <3>2, StatusRow
  <2>5. QED
    BY <2>2, <2>3, <2>4
<1>4. row' = [u \in Schedules |-> row'[u]]
  BY DEF Send
<1>5. QED
  BY <1>3, <1>4

-----------------------------------------------------------------------------
(* What each action does, in terms of the above.                            *)
LEMMA CreateManualDoes ==
  ASSUME TypedInv, NEW a \in Requests, NEW t \in Schedules, CreateManual(a, t)
  PROVE  /\ a \in Procs /\ t \in Manual /\ row[t].status = "none" /\ proc[a].pc = "idle"
         /\ row' \in [Schedules -> Row] /\ Only(t)
         /\ row'[t].status = "queued" /\ row'[t].enabled = (kind[t] # "manual")
         /\ row'[t].due = (kind[t] = "manual")
         /\ owed' = [owed EXCEPT ![t] = IF kind[t] = "manual" THEN 1 ELSE 0]
         /\ \/ kind[t] = "manual" /\ Moves(a, "next", NoId, {}, Idle.seen)
            \/ kind[t] # "manual" /\ proc' = proc
         /\ UNCHANGED <<made, waiting, broken, failed, mishaps>>
<1>1. a \in Procs
  BY DEF Procs
<1>2. row \in [Schedules -> Row]
  BY DEF TypedInv, RowsOK
<1>3. /\ row' \in [Schedules -> Row] /\ Only(t)
      /\ row'[t].status = "queued" /\ row'[t].enabled = (kind[t] # "manual")
      /\ row'[t].due = (kind[t] = "manual")
  <2> DEFINE new == [status |-> "queued", enabled |-> ~(kind[t] = "manual"), due |-> kind[t] = "manual"]
  <2>1. new \in Row
    BY DEF Row, SchedStatuses
  <2>2. row' = [row EXCEPT ![t] = new]
    BY DEF CreateManual
  <2>3. new.status = "queued" /\ new.enabled = (kind[t] # "manual") /\ new.due = (kind[t] = "manual")
    OBVIOUS
  <2> HIDE DEF new
  <2>4. QED
    BY <1>2, <2>1, <2>2, <2>3 DEF Only
<1>4. "next" \in HandPCs
  BY DEF HandPCs
<1>5. \/ kind[t] = "manual" /\ Moves(a, "next", NoId, {}, Idle.seen)
      \/ kind[t] # "manual" /\ proc' = proc
  BY <1>1, <1>4, GoMoves DEF CreateManual
<1>6. QED
  BY <1>1, <1>3, <1>5 DEF CreateManual

LEMMA SaveDoes ==
  ASSUME TypedInv, NEW t \in Schedules, NEW on \in BOOLEAN, Save(t, on)
  PROVE  /\ t \in Autos \cup Crawls
         /\ row' \in [Schedules -> Row] /\ Only(t)
         /\ row'[t].status \in {"idle", "disabled"} /\ ~row'[t].due
         /\ UNCHANGED <<owed, made, waiting, broken, failed, proc, mishaps>>
<1> DEFINE new == [status |-> IF on THEN "idle" ELSE "disabled", enabled |-> on, due |-> FALSE]
<1>1. row \in [Schedules -> Row] /\ new \in Row
  BY DEF TypedInv, RowsOK, Row, SchedStatuses
<1>2. row' = [row EXCEPT ![t] = new]
  BY DEF Save
<1>3. new.status \in {"idle", "disabled"} /\ ~new.due
  OBVIOUS
<1> HIDE DEF new
<1>4. QED
  BY <1>1, <1>2, <1>3 DEF Save, Only

LEMMA DeleteDoes ==
  ASSUME TypedInv, NEW t \in Schedules, Delete(t)
  PROVE  /\ Exists(t) /\ row' \in [Schedules -> Row] /\ Only(t)
         /\ row'[t].status = "deleted" /\ ~row'[t].due /\ ~row'[t].enabled
         /\ UNCHANGED <<owed, made, waiting, broken, failed, proc, mishaps>>
<1> DEFINE new == [NoRow EXCEPT !.status = "deleted"]
<1>1. row \in [Schedules -> Row] /\ new \in Row
  BY DEF TypedInv, RowsOK, Row, SchedStatuses, NoRow
<1>2. row' = [row EXCEPT ![t] = new]
  BY DEF Delete
<1>3. new.status = "deleted" /\ ~new.due /\ ~new.enabled
  BY DEF NoRow
<1> HIDE DEF new
<1>4. QED
  BY <1>1, <1>2, <1>3 DEF Delete, Only

LEMMA ComesDueDoes ==
  ASSUME TypedInv, NEW t \in Schedules, ComesDue(t)
  PROVE  /\ row[t].enabled /\ ~row[t].due
         /\ row' \in [Schedules -> Row] /\ Only(t)
         /\ row'[t].status = row[t].status /\ row'[t].enabled = row[t].enabled /\ row'[t].due
         /\ owed' = [owed EXCEPT ![t] = @ + 1]
         /\ UNCHANGED <<made, waiting, broken, failed, proc, mishaps>>
<1> DEFINE new == [row[t] EXCEPT !.due = TRUE]
<1>0. row \in [Schedules -> Row]
  BY DEF TypedInv, RowsOK
<1>1. new \in Row
  BY <1>0 DEF Row
<1>2. row' = [row EXCEPT ![t] = new]
  BY DEF ComesDue
<1>3. new.status = row[t].status /\ new.enabled = row[t].enabled /\ new.due
  BY <1>0 DEF Row
<1> HIDE DEF new
<1>4. QED
  BY <1>0, <1>1, <1>2, <1>3 DEF ComesDue, Only

LEMMA RunNowDoes ==
  ASSUME TypedInv, NEW a \in Requests, NEW t \in Schedules, RunNow(a, t)
  PROVE  /\ a \in Procs /\ (t \in Manual => RunManual) /\ proc[a].pc = "idle" /\ Exists(t)
         /\ row' \in [Schedules -> Row] /\ Only(t)
         /\ row'[t].status = "running" /\ row'[t].enabled = row[t].enabled
         /\ row'[t].due = row[t].due
         /\ owed' = [owed EXCEPT ![t] = @ + 1]
         /\ Moves(a, "run", t, {}, proc[a].seen)
         /\ UNCHANGED <<made, waiting, broken, failed, mishaps>>
<1>1. a \in Procs /\ (t \in Manual => RunManual) /\ proc[a].pc = "idle" /\ Exists(t)
  BY DEF Procs, RunNow, MayBegin
<1>2. Moves(a, "run", t, proc[a].todo \ {t}, proc[a].seen)
  BY <1>1, RunMoves DEF RunNow
<1>3. proc[a].todo \ {t} = {}
  BY <1>1, HandFacts DEF HandOK, Fits
<1>4. row' = Marked(t, FALSE)
  BY DEF RunNow
<1>5. /\ row' \in [Schedules -> Row] /\ Only(t) /\ row'[t].status = "running"
      /\ row'[t].enabled = (row[t].enabled /\ ~(FALSE /\ kind[t] = "once"))
      /\ row'[t].due = (row[t].due /\ ~(FALSE /\ row[t].enabled /\ kind[t] # "once"))
  BY <1>4, MarkedRow
<1>6. row'[t].enabled = row[t].enabled /\ row'[t].due = row[t].due
  BY <1>5, RowFacts
<1>7. QED
  BY <1>1, <1>2, <1>3, <1>5, <1>6 DEF RunNow

LEMMA TakeJobDoes ==
  ASSUME TypedInv, NEW w \in RqWorkers, NEW t \in Schedules, TakeJob(w, t)
  PROVE  /\ w \in Procs /\ proc[w].pc = "idle" /\ waiting[t] > 0
         /\ waiting' = [waiting EXCEPT ![t] = @ - 1]
         /\ row' \in [Schedules -> Row] /\ Only(t) /\ row'[t].due = row[t].due
         /\ \/ /\ Exists(t) /\ row'[t].status = "running"
               /\ t \notin Manual => row'[t].enabled = row[t].enabled
               /\ Moves(w, "run", t, {}, proc[w].seen)
            \/ /\ row' = row
               /\ \/ proc' = proc
                  \/ t \notin Crawls /\ Moves(w, "next", NoId, {}, Idle.seen)
         /\ failed' \subseteq Schedules
         /\ UNCHANGED <<owed, made, broken, mishaps>>
<1>1. w \in Procs /\ proc[w].pc = "idle" /\ waiting[t] > 0
  BY DEF Procs, TakeJob
<1>2. row \in [Schedules -> Row] /\ failed \subseteq Schedules
  BY DEF TypedInv, RowsOK, SchedTypeOK
<1>3. CASE MayBegin(t) /\ row' = Marked(t, kind[t] = "once")
           /\ proc' = [proc EXCEPT ![w] = Run(w, t)] /\ UNCHANGED failed
  <2>1. Moves(w, "run", t, proc[w].todo \ {t}, proc[w].seen)
    BY <1>1, <1>3, RunMoves
  <2>2. proc[w].todo \ {t} = {}
    BY <1>1, HandFacts DEF HandOK, Fits
  <2> DEFINE advance == kind[t] = "once"
  <2>3. advance \in BOOLEAN
    OBVIOUS
  <2> HIDE DEF advance
  <2>4. row' = Marked(t, advance)
    BY <1>3 DEF advance
  <2>5. /\ row' \in [Schedules -> Row] /\ Only(t) /\ row'[t].status = "running"
        /\ row'[t].enabled = (row[t].enabled /\ ~(advance /\ kind[t] = "once"))
        /\ row'[t].due = (row[t].due /\ ~(advance /\ row[t].enabled /\ kind[t] # "once"))
    BY <2>3, <2>4, MarkedRow
  <2>6. row'[t].due = row[t].due
    BY <2>5, RowFacts DEF advance
  <2>7. t \notin Manual => row'[t].enabled = row[t].enabled
    BY <2>5, RowFacts DEF advance, Manual, OfKind
  <2>8. QED
    BY <1>1, <1>2, <1>3, <2>1, <2>2, <2>5, <2>6, <2>7 DEF TakeJob, MayBegin
<1>4. CASE ~MayBegin(t) /\ failed' = failed \cup ({t} \cap Crawls) /\ row' = row
           /\ IF t \in Crawls THEN UNCHANGED proc ELSE Go(w, "next")
  <2>1. "next" \in HandPCs
    BY DEF HandPCs
  <2>2. proc' = proc \/ (t \notin Crawls /\ Moves(w, "next", NoId, {}, Idle.seen))
    BY <1>1, <1>4, <2>1, GoMoves
  <2>3. QED
    BY <1>1, <1>2, <1>4, <2>2 DEF TakeJob, Only
<1>5. QED
  BY <1>3, <1>4 DEF TakeJob

LEMMA MakeTasksDoes ==
  ASSUME TypedInv, NEW p \in Procs, MakeTasks(p)
  PROVE  /\ proc[p].pc = "run" /\ proc[p].id \in Schedules
         /\ \E pc \in {"made", "raised"} : Moves(p, pc, proc[p].id, proc[p].todo, proc[p].seen)
         /\ made' = made \/ made' = [made EXCEPT ![proc[p].id] = @ + 1]
         /\ UNCHANGED <<row, owed, waiting, broken, failed, mishaps>>
<1>1. PICK pc \in {"made", "raised"} : proc' = [proc EXCEPT ![p] = [proc[p] EXCEPT !.pc = pc]]
  BY DEF MakeTasks
<1>2. pc \in HandPCs
  BY DEF HandPCs, Executing
<1>3. Has([proc[p] EXCEPT !.pc = pc], pc, proc[p].id, proc[p].todo, proc[p].seen)
  BY <1>2, HandFacts, EditPC
<1>4. Moves(p, pc, proc[p].id, proc[p].todo, proc[p].seen)
  BY <1>1, <1>3, PutHand
<1>5. proc[p].pc = "run" /\ proc[p].id \in Schedules
  BY HandFacts DEF MakeTasks, HandOK, Fits, Executing
<1>6. QED
  BY <1>4, <1>5 DEF MakeTasks

LEMMA FinishDoes ==
  ASSUME TypedInv, NEW p \in Procs, Finish(p)
  PROVE  /\ proc[p].pc \in {"made", "raised"} /\ proc[p].id \in Schedules
         /\ row' \in [Schedules -> Row] /\ Only(proc[p].id)
         /\ \/ row' = row /\ ~Exists(proc[p].id)
            \/ /\ Exists(proc[p].id)
               /\ row'[proc[p].id].status \in {"failed", "completed", "idle", "disabled"}
               /\ proc[p].id \in Manual => row'[proc[p].id].status \in {"failed", "completed"}
               /\ row'[proc[p].id].enabled = row[proc[p].id].enabled
               /\ row'[proc[p].id].due = (row[proc[p].id].due /\ proc[p].id \notin Crawls)
         /\ \/ p \in Runners /\ Moves(p, "due", NoId, proc[p].todo, proc[p].seen)
            \/ p \notin Runners
               /\ \E pc \in {"idle", "next"} : Moves(p, pc, NoId, {}, Idle.seen)
         /\ failed' \subseteq Schedules
         /\ UNCHANGED <<owed, made, waiting, broken, mishaps>>
<1> DEFINE t == proc[p].id
<1>1. proc[p].pc \in {"made", "raised"} /\ t \in Schedules
  BY HandFacts DEF Finish, HandOK, Fits, Executing
<1>2. /\ row' \in [Schedules -> Row] /\ Only(t)
      /\ \/ row' = row /\ ~Exists(t)
         \/ /\ Exists(t)
            /\ row'[t].status \in {"failed", "completed", "idle", "disabled"}
            /\ t \in Manual => row'[t].status \in {"failed", "completed"}
            /\ row'[t].enabled = row[t].enabled
            /\ row'[t].due = (row[t].due /\ t \notin Crawls)
  <2>1. CASE ~Exists(t)
    BY <2>1 DEF Finish, TypedInv, RowsOK, Only
  <2>2. CASE Exists(t)
    <3> DEFINE raised == proc[p].pc = "raised"
    <3>1. raised \in BOOLEAN
      OBVIOUS
    <3>2. row' = [row EXCEPT ![t] = Ended(t, raised)]
      BY <2>2 DEF Finish
    <3> HIDE DEF raised, t
    <3>3. QED
      BY <1>1, <2>2, <3>1, <3>2, EndedRow
  <2>3. QED
    BY <2>1, <2>2
<1>3. \/ p \in Runners /\ Moves(p, "due", NoId, proc[p].todo, proc[p].seen)
      \/ p \notin Runners /\ \E pc \in {"idle", "next"} : Moves(p, pc, NoId, {}, Idle.seen)
  <2>0. "due" \in HandPCs /\ "idle" \in HandPCs /\ "next" \in HandPCs
    BY DEF HandPCs
  <2>1. CASE p \in Runners
    <3>1. proc' = [proc EXCEPT ![p] = [proc[p] EXCEPT !.pc = "due", !.id = NoId]]
      BY <2>1, ScheduleAssumption DEF Finish
    <3>2. Has([proc[p] EXCEPT !.pc = "due", !.id = NoId], "due", NoId, proc[p].todo, proc[p].seen)
      BY <1>1, <2>0, HandFacts, EditPC
    <3>3. QED
      BY <2>1, <3>1, <3>2, PutHand
  <2>2. CASE p \notin Runners
    <3>1. PICK pc \in {"idle", "next"} : Go(p, pc)
      BY <2>2 DEF Finish
    <3>2. QED
      BY <2>0, <2>2, <3>1, GoMoves
  <2>3. QED
    BY <2>1, <2>2
<1>4. failed' \subseteq Schedules
  BY <1>1 DEF Finish, TypedInv, SchedTypeOK
<1>5. UNCHANGED <<owed, made, waiting, broken, mishaps>>
  BY DEF Finish
<1>6. QED
  BY <1>1, <1>2, <1>3, <1>4, <1>5

LEMMA ReadQueueDoes ==
  ASSUME TypedInv, NEW p \in Procs, ReadQueue(p)
  PROVE  /\ proc[p].pc = "next"
         /\ SerialReads => \A o \in Procs : proc[o].pc # "read"
         /\ Moves(p, "read", NoId, {}, row)
         /\ UNCHANGED <<row, owed, made, waiting, broken, failed, mishaps>>
<1>1. proc[p].id = NoId /\ proc[p].todo = {} /\ row \in [Schedules -> Row]
  BY HandFacts DEF ReadQueue, HandOK, Fits, Executing, TypedInv, RowsOK
<1>2. proc' = [proc EXCEPT ![p] = [proc[p] EXCEPT !.pc = "read", !.seen = row]]
  BY <1>1 DEF ReadQueue, TypedInv, RowsOK
<1>3. "read" \in HandPCs
  BY DEF HandPCs
<1>4. Has([proc[p] EXCEPT !.pc = "read", !.seen = row], "read", proc[p].id, proc[p].todo, row)
  BY <1>1, <1>3, HandFacts, EditSeen
<1>5. Moves(p, "read", NoId, {}, row)
  BY <1>1, <1>2, <1>4, PutHand
<1>6. QED
  BY <1>5 DEF ReadQueue

LEMMA DispatchQueuedDoes ==
  ASSUME TypedInv, NEW p \in Procs, DispatchQueued(p)
  PROVE  /\ proc[p].pc = "read"
         /\ \E chosen \in SUBSET Eligible(p) :
              /\ \A t \in Eligible(p) : Cardinality(chosen \cap SameStore(t)) = 1
              /\ row' \in [Schedules -> Row] /\ Restatused(chosen, "idle")
              /\ \E pc \in {"idle", "enqueue"} :
                   Moves(p, pc, NoId, chosen, Idle.seen) /\ (pc = "idle" => chosen = {})
         /\ UNCHANGED <<owed, made, waiting, broken, failed, mishaps>>
<1>1. PICK chosen \in SUBSET Eligible(p) :
        /\ \A t \in Eligible(p) : Cardinality(chosen \cap SameStore(t)) = 1
        /\ row' = Status(chosen, "idle")
        /\ proc' = [proc EXCEPT ![p] = [Idle EXCEPT
                      !.pc = IF chosen = {} THEN "idle" ELSE "enqueue", !.todo = chosen]]
  BY DEF DispatchQueued
<1>2. PICK pc \in {"idle", "enqueue"} :
        /\ proc' = [proc EXCEPT ![p] = [Idle EXCEPT !.pc = pc, !.todo = chosen]]
        /\ pc = "idle" => chosen = {}
  BY <1>1
<1>3. "idle" \in SchedStatuses /\ pc \in HandPCs /\ chosen \in SUBSET Schedules
  BY DEF SchedStatuses, HandPCs, Sending, Eligible, Manual, OfKind
<1>4. row' \in [Schedules -> Row] /\ Restatused(chosen, "idle")
  BY <1>1, <1>3, StatusIs
<1>5. Moves(p, pc, NoId, chosen, Idle.seen)
  <2>1. Has([Idle EXCEPT !.pc = pc, !.todo = chosen], pc, NoId, chosen, Idle.seen)
    BY <1>3, IdleWith
  <2>2. QED
    BY <1>2, <2>1, PutHand
<1>6. QED
  BY <1>1, <1>2, <1>4, <1>5 DEF DispatchQueued

LEMMA EnqueueDoes ==
  ASSUME TypedInv, NEW p \in Procs, NEW t \in Schedules, Enqueue(p, t)
  PROVE  /\ proc[p].pc \in Sending /\ t \in proc[p].todo
         /\ \E pc \in {"idle", proc[p].pc} :
              /\ Moves(p, pc, proc[p].id, proc[p].todo \ {t}, proc[p].seen)
              /\ pc = "idle" => proc[p].todo \ {t} = {}
         /\ row' \in [Schedules -> Row]
         /\ \/ row' = row
            \/ Exists(t) /\ Restatused({t}, "failed")
         /\ \/ waiting' = [waiting EXCEPT ![t] = @ + 1] /\ row' = row
            \/ waiting' = waiting /\ (Exists(t) => Restatused({t}, "failed"))
            \/ waiting' = [waiting EXCEPT ![t] = @ + 1] /\ LateEnqueues
         /\ mishaps' \in Nat
         /\ UNCHANGED <<owed, made, broken, failed>>
<1> DEFINE rest == proc[p].todo \ {t}
<1>1. proc[p].pc \in Sending /\ t \in proc[p].todo
  BY DEF Enqueue, Sending
<1>2. \E pc \in {"idle", proc[p].pc} :
        /\ Moves(p, pc, proc[p].id, rest, proc[p].seen)
        /\ pc = "idle" => rest = {}
  <2> DEFINE pc == IF rest = {} /\ (p \notin Runners \/ proc[p].pc = "enqueue")
                   THEN "idle" ELSE proc[p].pc
  <2>1. proc[p] \in Hand /\ proc[p].pc \in HandPCs /\ "idle" \in HandPCs /\ rest \in SUBSET Schedules
    BY HandFacts DEF HandPCs
  <2>2. proc' = [proc EXCEPT ![p] = [proc[p] EXCEPT !.todo = rest, !.pc = pc]]
    BY <2>1 DEF Enqueue, Hand
  <2>3. pc \in {"idle", proc[p].pc} /\ pc \in HandPCs /\ (pc = "idle" => rest = {})
    BY <1>1, <2>1 DEF Sending
  <2> HIDE DEF rest, pc
  <2>4. Has([proc[p] EXCEPT !.todo = rest, !.pc = pc], pc, proc[p].id, rest, proc[p].seen)
    BY <2>1, <2>3, EditTodo
  <2>5. Moves(p, pc, proc[p].id, rest, proc[p].seen)
    BY <2>2, <2>4, PutHand
  <2>6. QED
    BY <2>3, <2>5
<1>3. row' = row \/ row' = IF Exists(t) THEN Status({t}, "failed") ELSE row
  BY DEF Enqueue
<1>4. row' = Status({t}, "failed") => row' \in [Schedules -> Row] /\ Restatused({t}, "failed")
  <2>1. "failed" \in SchedStatuses
    BY DEF SchedStatuses
  <2>2. QED
    BY <2>1, StatusIs
<1>5. row \in [Schedules -> Row] /\ mishaps \in Nat
  BY DEF TypedInv, RowsOK, SchedTypeOK
<1>6. /\ row' \in [Schedules -> Row]
      /\ row' = row \/ (Exists(t) /\ Restatused({t}, "failed"))
  BY <1>3, <1>4, <1>5
<1>7. \/ waiting' = [waiting EXCEPT ![t] = @ + 1] /\ row' = row
      \/ waiting' = waiting /\ (Exists(t) => Restatused({t}, "failed"))
      \/ waiting' = [waiting EXCEPT ![t] = @ + 1] /\ LateEnqueues
  BY <1>4 DEF Enqueue
<1>8. mishaps' \in Nat /\ UNCHANGED <<owed, made, broken, failed>>
  BY <1>5 DEF Enqueue
<1>9. QED
  BY <1>1, <1>2, <1>6, <1>7, <1>8

LEMMA ReconcileDoes ==
  ASSUME TypedInv, Reconcile
  PROVE  /\ row' \in [Schedules -> Row] /\ Restatused(Interrupted, "failed")
         /\ UNCHANGED <<owed, made, waiting, broken, failed, proc, mishaps>>
<1>1. "failed" \in SchedStatuses
  BY DEF SchedStatuses
<1>2. QED
  BY <1>1, StatusIs DEF Reconcile

LEMMA SendsMoves ==
  ASSUME TypedInv, NEW p \in Procs, NEW batch \in SUBSET Crawls,
         proc' = [proc EXCEPT ![p] = [Idle EXCEPT !.pc = "crawls", !.todo = batch]]
  PROVE  Moves(p, "crawls", NoId, batch, Idle.seen)
<1>1. "crawls" \in HandPCs /\ batch \in SUBSET Schedules
  BY DEF HandPCs, Sending, Crawls, OfKind
<1>2. Has([Idle EXCEPT !.pc = "crawls", !.todo = batch], "crawls", NoId, batch, Idle.seen)
  BY <1>1, IdleWith
<1>3. QED
  BY <1>2, PutHand

LEMMA TickCrawlsDoes ==
  ASSUME TypedInv, NEW r \in Runners, TickCrawls(r)
  PROVE  /\ r \in Procs /\ proc[r].pc = "idle"
         /\ OneTick => \A o \in Runners : proc[o].pc = "idle"
         /\ \E batch \in SUBSET {t \in Crawls : row[t].enabled /\ row[t].due /\ row[t].status # "running"} :
              /\ row' = Send(batch, {})
              /\ Moves(r, "crawls", NoId, batch, Idle.seen)
         /\ UNCHANGED <<owed, made, waiting, broken, failed, mishaps>>
<1> DEFINE ready == {t \in Crawls : row[t].enabled /\ row[t].due /\ row[t].status # "running"}
<1>1. PICK batch \in FirstOf(ready) :
        /\ row' = Send(batch, {})
        /\ proc' = [proc EXCEPT ![r] = [Idle EXCEPT !.pc = "crawls", !.todo = batch]]
  BY DEF TickCrawls
<1>2. batch \in SUBSET ready /\ batch \in SUBSET Crawls /\ r \in Procs
  BY FirstOfSubset DEF Procs
<1>3. Moves(r, "crawls", NoId, batch, Idle.seen)
  BY <1>1, <1>2, SendsMoves
<1>4. QED
  BY <1>1, <1>2, <1>3 DEF TickCrawls

LEMMA RunAllNowDoes ==
  ASSUME TypedInv, NEW a \in Requests, RunAllNow(a)
  PROVE  /\ a \in Procs /\ proc[a].pc = "idle"
         /\ \E some \in SUBSET {t \in Crawls : row[t].enabled /\ row[t].status # "running"} :
              /\ owed' = [t \in Schedules |-> IF t \in some THEN owed[t] + 1 ELSE owed[t]]
              /\ \E batch \in SUBSET some :
                   /\ row' = Send(batch, some)
                   /\ Moves(a, "crawls", NoId, batch, Idle.seen)
         /\ UNCHANGED <<made, waiting, broken, failed, mishaps>>
<1> DEFINE some == {t \in Crawls : Exists(t) /\ row[t].enabled /\ row[t].status # "running"}
<1>1. PICK batch \in FirstOf(some) :
        /\ row' = Send(batch, some)
        /\ proc' = [proc EXCEPT ![a] = [Idle EXCEPT !.pc = "crawls", !.todo = batch]]
  BY DEF RunAllNow
<1>2. batch \in SUBSET some /\ batch \in SUBSET Crawls /\ a \in Procs
  BY FirstOfSubset DEF Procs
<1>3. Moves(a, "crawls", NoId, batch, Idle.seen)
  BY <1>1, <1>2, SendsMoves
<1>4. some \in SUBSET {t \in Crawls : row[t].enabled /\ row[t].status # "running"}
  OBVIOUS
<1>5. /\ proc[a].pc = "idle" /\ UNCHANGED <<made, waiting, broken, failed, mishaps>>
      /\ owed' = [t \in Schedules |-> IF t \in some THEN owed[t] + 1 ELSE owed[t]]
  BY DEF RunAllNow
<1> HIDE DEF some
<1>6. QED
  BY <1>1, <1>2, <1>3, <1>4, <1>5

LEMMA ReadDueDoes ==
  ASSUME TypedInv, NEW r \in Runners, ReadDue(r)
  PROVE  /\ r \in Procs /\ proc[r].pc = "crawls" /\ proc[r].todo = {} /\ proc[r].id = NoId
         /\ row' \in [Schedules -> Row]
         /\ \E over \in SUBSET Orphans : Restatused(over, "failed")
         /\ \E batch \in SUBSET {t \in Autos : row[t].enabled /\ row[t].due /\ row[t].status # "running"} :
              Moves(r, "due", NoId, batch, proc[r].seen)
         /\ UNCHANGED <<owed, made, waiting, broken, failed, mishaps>>
<1>1. r \in Procs /\ proc[r].pc = "crawls" /\ proc[r].todo = {}
  BY DEF ReadDue, Procs
<1>2. proc[r].id = NoId
  BY <1>1, HandFacts DEF HandOK, Fits, Executing
<1>3. \E over \in SUBSET Orphans : row' = Status(over, "failed")
  BY DEF ReadDue
<1>4. "failed" \in SchedStatuses /\ "due" \in HandPCs
  BY DEF SchedStatuses, HandPCs
<1>5. row' \in [Schedules -> Row] /\ \E over \in SUBSET Orphans : Restatused(over, "failed")
  BY <1>3, <1>4, StatusIs
<1> DEFINE ready == {t \in Autos : row[t].enabled /\ row[t].due /\ row[t].status # "running"}
<1>6. PICK batch \in FirstOf(ready) :
        proc' = [proc EXCEPT ![r] = [proc[r] EXCEPT !.pc = "due", !.todo = batch]]
  BY <1>1 DEF ReadDue, TypedInv, RowsOK
<1>7. batch \in SUBSET ready /\ batch \in SUBSET Schedules
  BY FirstOfSubset DEF Autos, OfKind
<1>8. Has([proc[r] EXCEPT !.pc = "due", !.todo = batch], "due", proc[r].id, batch, proc[r].seen)
  BY <1>1, <1>4, <1>7, HandFacts, EditTodo
<1>9. Moves(r, "due", NoId, batch, proc[r].seen)
  BY <1>1, <1>2, <1>6, <1>8, PutHand
<1>10. QED
  BY <1>1, <1>2, <1>5, <1>7, <1>9 DEF ReadDue

LEMMA ExecuteDueDoes ==
  ASSUME TypedInv, NEW r \in Runners, NEW t \in Schedules, ExecuteDue(r, t)
  PROVE  /\ r \in Procs /\ proc[r].pc = "due" /\ t \in proc[r].todo /\ t \in Autos /\ t \notin Manual
         /\ row' \in [Schedules -> Row] /\ Only(t)
         /\ \/ /\ Exists(t) /\ row'[t].status = "running" /\ row'[t].enabled = row[t].enabled
               /\ row'[t].due = (row[t].due /\ ~row[t].enabled)
               /\ Moves(r, "run", t, proc[r].todo \ {t}, proc[r].seen)
            \/ row' = row /\ Moves(r, "due", NoId, proc[r].todo \ {t}, proc[r].seen)
         /\ UNCHANGED <<owed, made, waiting, broken, failed, mishaps>>
<1>1. r \in Procs /\ proc[r].pc = "due" /\ t \in proc[r].todo
  BY DEF ExecuteDue, Procs
<1>2. t \in Autos /\ proc[r].id = NoId
  BY <1>1, HandFacts DEF HandOK, Fits, Executing
<1>3. kind[t] = "auto" /\ t \notin Manual
  BY <1>2 DEF Autos, Manual, OfKind
<1>4. CASE MayBegin(t) /\ row' = Marked(t, TRUE) /\ proc' = [proc EXCEPT ![r] = Run(r, t)]
  <2>1. Moves(r, "run", t, proc[r].todo \ {t}, proc[r].seen)
    BY <1>1, <1>4, RunMoves
  <2>2. /\ row' \in [Schedules -> Row] /\ Only(t) /\ row'[t].status = "running"
        /\ row'[t].enabled = (row[t].enabled /\ ~(TRUE /\ kind[t] = "once"))
        /\ row'[t].due = (row[t].due /\ ~(TRUE /\ row[t].enabled /\ kind[t] # "once"))
    BY <1>4, MarkedRow
  <2>3. row'[t].enabled = row[t].enabled /\ row'[t].due = (row[t].due /\ ~row[t].enabled)
    BY <1>3, <2>2, RowFacts
  <2>4. QED
    BY <1>1, <1>2, <1>3, <1>4, <2>1, <2>2, <2>3 DEF ExecuteDue, MayBegin
<1>5. CASE proc' = [proc EXCEPT ![r].todo = @ \ {t}] /\ UNCHANGED row
  <2>1. proc' = [proc EXCEPT ![r] = [proc[r] EXCEPT !.todo = proc[r].todo \ {t}]]
    BY <1>1, <1>5 DEF TypedInv, RowsOK
  <2>2. proc[r].todo \ {t} \in SUBSET Schedules /\ "due" \in HandPCs
    BY <1>1, HandFacts DEF HandPCs
  <2>3. Has([proc[r] EXCEPT !.todo = proc[r].todo \ {t}], proc[r].pc, proc[r].id, proc[r].todo \ {t},
            proc[r].seen)
    BY <1>1, <2>2, HandFacts, EditTodo
  <2>4. Moves(r, "due", NoId, proc[r].todo \ {t}, proc[r].seen)
    BY <1>1, <1>2, <2>1, <2>3, PutHand
  <2>5. QED
    BY <1>1, <1>2, <1>3, <1>5, <2>4 DEF ExecuteDue, TypedInv, RowsOK, Only
<1>6. QED
  BY <1>4, <1>5 DEF ExecuteDue

LEMMA EndDueDoes ==
  ASSUME TypedInv, NEW r \in Runners, EndDue(r)
  PROVE  /\ r \in Procs /\ proc[r].pc = "due" /\ proc[r].todo = {}
         /\ Moves(r, "next", NoId, {}, Idle.seen)
         /\ UNCHANGED <<row, owed, made, waiting, broken, failed, mishaps>>
<1>1. r \in Procs /\ "next" \in HandPCs
  BY DEF Procs, HandPCs
<1>2. QED
  BY <1>1, GoMoves DEF EndDue

LEMMA CrashDoes ==
  ASSUME TypedInv, NEW p \in Procs, Crash(p)
  PROVE  /\ proc[p].pc # "idle" /\ Moves(p, "idle", NoId, {}, Idle.seen)
         /\ broken' \subseteq Schedules /\ mishaps' \in Nat
         /\ UNCHANGED <<row, owed, made, waiting, failed>>
<1>1. "idle" \in HandPCs
  BY DEF HandPCs
<1>2. Moves(p, "idle", NoId, {}, Idle.seen)
  BY <1>1, GoMoves DEF Crash
<1>3. broken' \subseteq Schedules /\ mishaps' \in Nat
  BY HandFacts DEF Crash, TypedInv, SchedTypeOK
<1>4. QED
  BY <1>2, <1>3 DEF Crash

-----------------------------------------------------------------------------
(* Every variable keeps its kind, and every process what fits its step.     *)
LEMMA TypedInit == SchedInit => TypedInv
<1> SUFFICES ASSUME SchedInit
             PROVE  TypedInv
  OBVIOUS
<1>1. proc \in [Procs -> Hand]
  BY IdleHas DEF SchedInit, Has
<1>2. \A p \in Procs : HandOK(p)
  BY IdleHas, ScheduleAssumption DEF SchedInit, Has, HandOK, Fits, Executing, Manual, OfKind
<1>3. row \in [Schedules -> Row]
  BY DEF SchedInit, NoRow, Row, SchedStatuses
<1>4. kind \in Kinds /\ mishaps \in Nat /\ broken \subseteq Schedules /\ failed \subseteq Schedules
  BY DEF SchedInit
<1>5. owed \in [Schedules -> Nat] /\ made \in [Schedules -> Nat] /\ waiting \in [Schedules -> Nat]
  BY DEF SchedInit
<1>6. QED
  BY <1>1, <1>2, <1>3, <1>4, <1>5
     DEF TypedInv, SchedTypeOK, RowsOK, HandsOK, Hand, HandPCs, Executing, Sending

LEMMA TypedStep ==
  ASSUME TypedInv, [SchedNext]_schedVars
  PROVE  TypedInv'
<1>0. /\ row \in [Schedules -> Row] /\ proc \in [Procs -> Hand]
      /\ owed \in [Schedules -> Nat] /\ made \in [Schedules -> Nat]
      /\ waiting \in [Schedules -> Nat] /\ broken \subseteq Schedules /\ failed \subseteq Schedules
      /\ mishaps \in Nat /\ kind \in Kinds /\ HandsOK
  BY DEF TypedInv, SchedTypeOK, RowsOK
<1> DEFINE Hands == proc' \in [Procs -> Hand] /\ HandsOK'
           Rows == /\ row' \in [Schedules -> Row] /\ owed' \in [Schedules -> Nat]
                   /\ made' \in [Schedules -> Nat] /\ waiting' \in [Schedules -> Nat]
                   /\ broken' \subseteq Schedules /\ failed' \subseteq Schedules /\ mishaps' \in Nat
<1>a. ASSUME kind' = kind, UNCHANGED proc
      PROVE  Hands
  BY <1>0, <1>a, KindsStay DEF HandsOK, HandOK, Fits
<1>b. ASSUME kind' = kind, Hands, Rows
      PROVE  TypedInv'
  BY <1>0, <1>b DEF TypedInv, SchedTypeOK, RowsOK, Hand, HandPCs, Executing, Sending
<1>1. CASE UNCHANGED schedVars
  BY <1>0, <1>1, <1>a, <1>b DEF schedVars, stepVars
<1>2. SUFFICES ASSUME kind' = kind, SchedNext
               PROVE  TypedInv'
  BY <1>1 DEF SchedNext
<1>3. ASSUME NEW p \in Procs, NEW pc, NEW id, NEW todo, NEW seen, Moves(p, pc, id, todo, seen),
             Fits(p, pc, id, todo)
      PROVE  Hands
  BY <1>2, <1>3, MovesFit
<1> HIDE DEF Hands
<1>4. ASSUME NEW t \in Schedules
      PROVE  /\ [owed EXCEPT ![t] = @ + 1] \in [Schedules -> Nat]
             /\ [made EXCEPT ![t] = @ + 1] \in [Schedules -> Nat]
             /\ [waiting EXCEPT ![t] = @ + 1] \in [Schedules -> Nat]
  BY <1>0
<1>5. ASSUME NEW p \in Procs, NEW pc \in {"idle", "next", "read"}, NEW seen, Moves(p, pc, NoId, {}, seen)
      PROVE  Hands
  <2>1. Fits(p, pc, NoId, {})
    BY ScheduleAssumption DEF Fits, Executing, Manual, OfKind
  <2>2. QED
    BY <1>3, <1>5, <2>1
<1>6. ASSUME NEW p \in Procs, NEW t \in Schedules, NEW todo \in SUBSET Autos, NEW seen,
             Moves(p, "run", t, todo, seen)
      PROVE  Hands
  <2>1. Fits(p, "run", t, todo)
    BY <1>6, ScheduleAssumption DEF Fits, Executing
  <2>2. QED
    BY <1>3, <1>6, <2>1
<1>7. ASSUME NEW p \in Procs, NEW batch \in SUBSET Crawls, NEW seen,
             Moves(p, "crawls", NoId, batch, seen)
      PROVE  Hands
  <2>1. Fits(p, "crawls", NoId, batch)
    BY ScheduleAssumption DEF Fits, Executing, Manual, OfKind
  <2>2. QED
    BY <1>3, <1>7, <2>1
<1>8. ASSUME NEW r \in Runners, NEW batch \in SUBSET Autos, NEW seen, Moves(r, "due", NoId, batch, seen)
      PROVE  Hands
  <2>1. Fits(r, "due", NoId, batch) /\ r \in Procs
    BY ScheduleAssumption DEF Fits, Executing, Manual, OfKind, Procs
  <2>2. QED
    BY <1>3, <1>8, <2>1
<1>11. ASSUME NEW a \in Requests, NEW t \in Schedules, CreateManual(a, t)
       PROVE  TypedInv'
  <2>1. Hands
    BY <1>2, <1>11, <1>a, <1>5, CreateManualDoes
  <2>2. owed' \in [Schedules -> Nat]
    BY <1>0, <1>11, CreateManualDoes
  <2>3. QED
    BY <1>0, <1>2, <1>11, <1>b, <2>1, <2>2, CreateManualDoes
<1>12. ASSUME NEW t \in Schedules, NEW on \in BOOLEAN, Save(t, on)
       PROVE  TypedInv'
  BY <1>0, <1>2, <1>12, <1>a, <1>b, SaveDoes
<1>13. ASSUME NEW t \in Schedules, Delete(t)
       PROVE  TypedInv'
  BY <1>0, <1>2, <1>13, <1>a, <1>b, DeleteDoes
<1>14. ASSUME NEW t \in Schedules, ComesDue(t)
       PROVE  TypedInv'
  BY <1>0, <1>2, <1>14, <1>a, <1>b, <1>4, ComesDueDoes
<1>15. ASSUME NEW a \in Requests, NEW t \in Schedules, RunNow(a, t)
       PROVE  TypedInv'
  <2>1. Hands
    BY <1>15, <1>6, RunNowDoes
  <2>2. QED
    BY <1>0, <1>2, <1>15, <1>b, <1>4, <2>1, RunNowDoes
<1>16. ASSUME NEW w \in RqWorkers, NEW t \in Schedules, TakeJob(w, t)
       PROVE  TypedInv'
  <2>1. Hands
    BY <1>2, <1>16, <1>a, <1>5, <1>6, TakeJobDoes
  <2>2. waiting' \in [Schedules -> Nat]
    BY <1>0, <1>16, TakeJobDoes
  <2>3. /\ row' \in [Schedules -> Row] /\ failed' \subseteq Schedules
        /\ UNCHANGED <<owed, made, broken, mishaps>>
    BY <1>16, TakeJobDoes
  <2>4. QED
    BY <1>0, <1>2, <1>b, <2>1, <2>2, <2>3
<1>17. ASSUME NEW p \in Procs, MakeTasks(p)
       PROVE  TypedInv'
  <2>1. PICK pc \in {"made", "raised"} : Moves(p, pc, proc[p].id, proc[p].todo, proc[p].seen)
    BY <1>17, MakeTasksDoes
  <2>2. Fits(p, pc, proc[p].id, proc[p].todo)
    BY <1>17, MakeTasksDoes, HandFacts DEF HandOK, Fits, Executing
  <2>3. Hands
    BY <1>3, <2>1, <2>2
  <2>4. made' \in [Schedules -> Nat]
    BY <1>0, <1>17, <1>4, MakeTasksDoes
  <2>5. QED
    BY <1>0, <1>2, <1>17, <1>b, <2>3, <2>4, MakeTasksDoes
<1>18. ASSUME NEW p \in Procs, Finish(p)
       PROVE  TypedInv'
  <2>1. proc[p].todo \in SUBSET Autos
    BY <1>18, FinishDoes, HandFacts DEF HandOK, Fits, Executing
  <2>2. \/ p \in Runners /\ Moves(p, "due", NoId, proc[p].todo, proc[p].seen)
        \/ \E pc \in {"idle", "next"} : Moves(p, pc, NoId, {}, Idle.seen)
    BY <1>18, FinishDoes
  <2>3. Hands
    BY <1>5, <1>8, <2>1, <2>2
  <2>4. /\ row' \in [Schedules -> Row] /\ failed' \subseteq Schedules
        /\ UNCHANGED <<owed, made, waiting, broken, mishaps>>
    BY <1>18, FinishDoes
  <2>5. QED
    BY <1>0, <1>2, <1>b, <2>3, <2>4
<1>19. ASSUME NEW p \in Procs, ReadQueue(p)
       PROVE  TypedInv'
  BY <1>0, <1>2, <1>19, <1>b, <1>5, ReadQueueDoes
<1>20. ASSUME NEW p \in Procs, DispatchQueued(p)
       PROVE  TypedInv'
  <2>1. PICK chosen \in SUBSET Eligible(p) :
          /\ row' \in [Schedules -> Row]
          /\ \E pc \in {"idle", "enqueue"} :
               Moves(p, pc, NoId, chosen, Idle.seen) /\ (pc = "idle" => chosen = {})
    BY <1>20, DispatchQueuedDoes
  <2>2. PICK pc \in {"idle", "enqueue"} :
          Moves(p, pc, NoId, chosen, Idle.seen) /\ (pc = "idle" => chosen = {})
    BY <2>1
  <2>3. Fits(p, pc, NoId, chosen)
    BY <2>2, ScheduleAssumption DEF Fits, Executing, Eligible, Manual, OfKind
  <2>4. Hands
    BY <1>3, <2>2, <2>3
  <2>5. UNCHANGED <<owed, made, waiting, broken, failed, mishaps>>
    BY <1>20, DispatchQueuedDoes
  <2>6. QED
    BY <1>0, <1>2, <1>b, <2>1, <2>4, <2>5
<1>21. ASSUME NEW p \in Procs, NEW t \in Schedules, Enqueue(p, t)
       PROVE  TypedInv'
  <2>1. PICK pc \in {"idle", proc[p].pc} :
          /\ Moves(p, pc, proc[p].id, proc[p].todo \ {t}, proc[p].seen)
          /\ pc = "idle" => proc[p].todo \ {t} = {}
    BY <1>21, EnqueueDoes
  <2>2. proc[p].pc \in Sending
    BY <1>21, EnqueueDoes
  <2>3. Fits(p, pc, proc[p].id, proc[p].todo \ {t})
    BY <2>1, <2>2, HandFacts DEF HandOK, Fits, Executing, Sending
  <2>4. Hands
    BY <1>3, <2>1, <2>3
  <2>a. waiting' = waiting \/ waiting' = [waiting EXCEPT ![t] = @ + 1]
    BY <1>21, EnqueueDoes
  <2>5. waiting' \in [Schedules -> Nat]
    BY <1>0, <1>4, <2>a
  <2>6. row' \in [Schedules -> Row] /\ mishaps' \in Nat /\ UNCHANGED <<owed, made, broken, failed>>
    BY <1>21, EnqueueDoes
  <2>7. QED
    BY <1>0, <1>2, <1>b, <2>4, <2>5, <2>6
<1>22. CASE Reconcile
  BY <1>0, <1>2, <1>22, <1>a, <1>b, ReconcileDoes
<1>23. ASSUME NEW r \in Runners, TickCrawls(r)
       PROVE  TypedInv'
  <2>1. PICK batch \in SUBSET Crawls :
          row' = Send(batch, {}) /\ Moves(r, "crawls", NoId, batch, Idle.seen)
    BY <1>23, TickCrawlsDoes
  <2>a. row' \in [Schedules -> Row]
    BY <2>1, SendRow
  <2>2. Hands /\ row' \in [Schedules -> Row]
    BY <1>7, <1>23, <2>1, <2>a, TickCrawlsDoes
  <2>3. UNCHANGED <<owed, made, waiting, broken, failed, mishaps>>
    BY <1>23, TickCrawlsDoes
  <2>4. QED
    BY <1>0, <1>2, <1>b, <2>2, <2>3
<1>24. ASSUME NEW a \in Requests, RunAllNow(a)
       PROVE  TypedInv'
  <2>1. PICK some \in SUBSET Crawls :
          /\ owed' = [t \in Schedules |-> IF t \in some THEN owed[t] + 1 ELSE owed[t]]
          /\ \E batch \in SUBSET some :
               row' = Send(batch, some) /\ Moves(a, "crawls", NoId, batch, Idle.seen)
    BY <1>24, RunAllNowDoes
  <2>2. PICK batch \in SUBSET Crawls :
          row' = Send(batch, some) /\ Moves(a, "crawls", NoId, batch, Idle.seen)
    BY <2>1
  <2>a. row' \in [Schedules -> Row]
    BY <2>2, SendRow
  <2>3. Hands /\ row' \in [Schedules -> Row]
    BY <1>7, <1>24, <2>2, <2>a, RunAllNowDoes
  <2>4. owed' \in [Schedules -> Nat]
    BY <1>0, <2>1
  <2>5. UNCHANGED <<made, waiting, broken, failed, mishaps>>
    BY <1>24, RunAllNowDoes
  <2>6. QED
    BY <1>0, <1>2, <1>b, <2>3, <2>4, <2>5
<1>25. ASSUME NEW r \in Runners, ReadDue(r)
       PROVE  TypedInv'
  <2>1. PICK batch \in SUBSET Autos : Moves(r, "due", NoId, batch, proc[r].seen)
    BY <1>25, ReadDueDoes
  <2>2. Hands
    BY <1>8, <2>1
  <2>3. row' \in [Schedules -> Row] /\ UNCHANGED <<owed, made, waiting, broken, failed, mishaps>>
    BY <1>25, ReadDueDoes
  <2>4. QED
    BY <1>0, <1>2, <1>b, <2>2, <2>3
<1>26. ASSUME NEW r \in Runners, NEW t \in Schedules, ExecuteDue(r, t)
       PROVE  TypedInv'
  <2>1. r \in Procs /\ t \notin Manual /\ proc[r].todo \ {t} \in SUBSET Autos
    BY <1>26, ExecuteDueDoes, HandFacts DEF HandOK, Fits
  <2>2. \/ Moves(r, "run", t, proc[r].todo \ {t}, proc[r].seen)
        \/ Moves(r, "due", NoId, proc[r].todo \ {t}, proc[r].seen)
    BY <1>26, ExecuteDueDoes
  <2>3. Hands
    BY <1>6, <1>8, <2>1, <2>2
  <2>4. row' \in [Schedules -> Row] /\ UNCHANGED <<owed, made, waiting, broken, failed, mishaps>>
    BY <1>26, ExecuteDueDoes
  <2>5. QED
    BY <1>0, <1>2, <1>b, <2>3, <2>4
<1>27. ASSUME NEW r \in Runners, EndDue(r)
       PROVE  TypedInv'
  BY <1>0, <1>2, <1>27, <1>b, <1>5, EndDueDoes
<1>28. ASSUME NEW p \in Procs, Crash(p)
       PROVE  TypedInv'
  BY <1>0, <1>2, <1>28, <1>b, <1>5, CrashDoes
<1>29. ASSUME NEW t \in Schedules, Abandon(t)
       PROVE  TypedInv'
  BY <1>0, <1>2, <1>29, <1>a, <1>b DEF Abandon
<1>30. QED
  BY <1>2, <1>11, <1>12, <1>13, <1>14, <1>15, <1>16, <1>17, <1>18, <1>19, <1>20, <1>21, <1>22,
     <1>23, <1>24, <1>25, <1>26, <1>27, <1>28, <1>29 DEF SchedNext

(* SchedTypeOK: rows, jobs, failures, and what every process has in hand     *)
(* keep their kinds, whichever requests, rounds and jobs overlap.            *)
THEOREM SchedTyping == SchedSpec => []SchedTypeOK
<1>1. SchedInit => TypedInv
  BY TypedInit
<1>2. TypedInv /\ [SchedNext]_schedVars => TypedInv'
  BY TypedStep
<1>3. TypedInv => SchedTypeOK
  BY DEF TypedInv
<1>4. QED
  BY <1>1, <1>2, <1>3, PTL DEF SchedSpec

-----------------------------------------------------------------------------
(* The queue of manual tasks.                                               *)

(* A manual task on its way to a worker is idle, or deleted by now; it has  *)
(* one job at most, or is about to get one, and is not executed yet.  One   *)
(* that is executed has left the queue for good.                            *)
Sends(h, t) == h.pc \in Sending /\ t \in h.todo
OnWay(t) == waiting[t] > 0 \/ About(t) # {}
Sent(t) ==
  /\ OnWay(t) => row[t].status \in {"idle", "deleted"}
  /\ waiting[t] <= 1 /\ (waiting[t] > 0 => About(t) = {})
  /\ \A p, q \in About(t) : p = q
  /\ \A p \in Procs : proc[p].id = t => ~OnWay(t) /\ row[t].status \notin {"none", "queued"}
  /\ row[t].status = "none" => ~row[t].due /\ ~row[t].enabled
SentInv == \A t \in Manual : Sent(t)

(* The one dispatcher that has read the queue knows what is under way, and  *)
(* what it has seen queued and due still is, unless the task is gone.       *)
Knows(p, t) ==
  /\ row[t].status \in InFlight => proc[p].seen[t].status \in InFlight
  /\ row[t].status # "deleted" /\ proc[p].seen[t].status = "queued" => row[t].status = "queued"
  /\ row[t].status # "deleted" /\ proc[p].seen[t].due => row[t].due
OneReads == \A p, q \in Procs : proc[p].pc = "read" /\ proc[q].pc = "read" => p = q
ReadInv == OneReads /\ \A p \in Procs : proc[p].pc = "read" => \A t \in Manual : Knows(p, t)
QueueInv == TypedInv /\ SentInv /\ ReadInv /\ OneInFlight

(* Steps that send no manual task and take none from its way.               *)
HandCalm(p) ==
  /\ \A t \in Manual : /\ proc'[p].id = t => proc[p].id = t
                       /\ Sends(proc'[p], t) => Sends(proc[p], t)
  /\ proc'[p].pc = "read" => proc[p].pc = "read" /\ proc'[p].seen = proc[p].seen
HandsCalm == \A p \in Procs : HandCalm(p)
RowCalm(t) ==
  \/ /\ row'[t].status = row[t].status /\ row'[t].enabled = row[t].enabled
     /\ row'[t].due = row[t].due
  \/ row[t].status = "none" /\ row'[t].status = "queued"
  \/ row[t].status # "none" /\ row'[t].status = row[t].status /\ row'[t].due
  \/ row[t].status # "none" /\ row'[t].status = "deleted"
  \/ /\ ~OnWay(t) /\ row[t].status \notin {"none", "queued", "deleted"}
     /\ row'[t].status \in {"failed", "completed"} /\ row'[t].due = row[t].due
RowsCalm == \A t \in Manual : RowCalm(t) /\ waiting'[t] = waiting[t]

(* Steps that put no task in flight.                                        *)
RowTame(t) ==
  /\ row'[t].status \in InFlight => row[t].status \in InFlight
  /\ row[t].status = "deleted" => row'[t].status = "deleted"
  /\ row[t].status = "queued" => row'[t].status \in {"queued", "deleted"}
  /\ row[t].due /\ row'[t].status # "deleted" => row'[t].due
Tame ==
  /\ \A t \in Manual : RowTame(t)
  /\ \A p \in Procs : proc'[p].pc = "read" => proc[p].pc = "read" /\ proc'[p].seen = proc[p].seen

LEMMA AboutIs ==
  ASSUME NEW t
  PROVE  /\ About(t) = {p \in Procs : Sends(proc[p], t)}
         /\ About(t)' = {p \in Procs : Sends(proc'[p], t)}
BY DEF About, Sends, Sending

LEMMA TameStep ==
  ASSUME QueueInv, kind' = kind, Tame
  PROVE  ReadInv' /\ OneInFlight'
<1>1. Manual' = Manual
  BY KindsStay
<1>2. OneReads'
  BY DEF QueueInv, ReadInv, OneReads, Tame
<1>3. ASSUME NEW p \in Procs, proc'[p].pc = "read", NEW t \in Manual
      PROVE  Knows(p, t)'
  <2>1. Knows(p, t) /\ proc'[p].seen = proc[p].seen
    BY <1>3 DEF QueueInv, ReadInv, Tame
  <2>2. RowTame(t)
    BY DEF Tame
  <2>3. QED
    BY <2>1, <2>2 DEF Knows, RowTame, InFlight
<1>4. OneInFlight'
  BY <1>1 DEF QueueInv, OneInFlight, Tame, RowTame
<1>5. QED
  BY <1>1, <1>2, <1>3, <1>4 DEF ReadInv

(* A manual task is where it was, but for the steps that take it on.        *)
Keeps(p, t) == /\ proc'[p].id = t => proc[p].id = t
               /\ Sends(proc'[p], t) => Sends(proc[p], t)

LEMMA SentKept ==
  ASSUME QueueInv, NEW t \in Manual, RowCalm(t), waiting'[t] = waiting[t],
         \A p \in Procs : Keeps(p, t)
  PROVE  RowTame(t) /\ Sent(t)'
<1>0. t \in Schedules
  BY DEF Manual, OfKind
<1>1. Sent(t) /\ RowCalm(t) /\ waiting'[t] = waiting[t]
  BY DEF QueueInv, SentInv
<1>2. RowTame(t)
  BY <1>1 DEF RowTame, RowCalm, Sent, InFlight
<1>3. About(t)' \subseteq About(t)
  BY AboutIs DEF Keeps
<1>4. OnWay(t)' => OnWay(t)
  BY <1>1, <1>3 DEF OnWay
<1>5. OnWay(t)' => row'[t].status \in {"idle", "deleted"}
  BY <1>1, <1>4 DEF Sent, RowCalm
<1>6. waiting'[t] <= 1 /\ (waiting'[t] > 0 => About(t)' = {})
  BY <1>1, <1>3 DEF Sent
<1>7. \A p, q \in About(t)' : p = q
  BY <1>1, <1>3 DEF Sent
<1>8. ASSUME NEW p \in Procs, proc'[p].id = t
      PROVE  ~OnWay(t)' /\ row'[t].status \notin {"none", "queued"}
  <2>1. proc[p].id = t
    BY <1>8 DEF Keeps
  <2>2. QED
    BY <1>1, <1>4, <2>1 DEF Sent, RowCalm
<1>9. row'[t].status = "none" => ~row'[t].due /\ ~row'[t].enabled
  BY <1>1 DEF Sent, RowCalm
<1>10. QED
  BY <1>2, <1>5, <1>6, <1>7, <1>8, <1>9 DEF Sent

LEMMA CalmStep ==
  ASSUME QueueInv, TypedInv', kind' = kind, HandsCalm, RowsCalm
  PROVE  QueueInv'
<1>1. Manual' = Manual
  BY KindsStay
<1>2. ASSUME NEW t \in Manual
      PROVE  RowTame(t) /\ Sent(t)'
  <2>1. RowCalm(t) /\ waiting'[t] = waiting[t]
    BY DEF RowsCalm
  <2>2. \A p \in Procs : Keeps(p, t)
    BY DEF HandsCalm, HandCalm, Keeps
  <2>3. QED
    BY <2>1, <2>2, SentKept
<1>3. SentInv'
  BY <1>1, <1>2 DEF SentInv
<1>4. Tame
  BY <1>2 DEF Tame, HandsCalm, HandCalm
<1>5. QED
  BY <1>3, <1>4, TameStep DEF QueueInv

(* One process moves, and is calm.                                          *)
LEMMA MovesCalm ==
  ASSUME TypedInv, NEW p \in Procs, NEW pc, NEW id, NEW todo, NEW seen,
         Moves(p, pc, id, todo, seen),
         id \in Manual => id = proc[p].id,
         pc \in Sending => \A t \in todo \cap Manual : Sends(proc[p], t),
         pc # "read"
  PROVE  HandsCalm
<1>1. HandCalm(p)
  BY DEF HandCalm, Moves, Has, Sends
<1>2. \A q \in Procs \ {p} : HandCalm(q)
  BY DEF HandCalm, Moves
<1>3. QED
  BY <1>1, <1>2 DEF HandsCalm

LEMMA StillCalm ==
  ASSUME proc' = proc
  PROVE  HandsCalm
BY DEF HandsCalm, HandCalm

LEMMA ManualFacts ==
  ASSUME TypedInv
  PROVE  /\ NoId \notin Manual /\ Manual \subseteq Schedules
         /\ \A t \in Manual : t \notin Crawls /\ t \notin Autos
         /\ Interrupted \cap Manual = {}
BY KindFacts, ScheduleAssumption DEF TypedInv, Manual, OfKind, Interrupted

-----------------------------------------------------------------------------
(* The steps that take a manual task on: it is put on its way by the only   *)
(* dispatcher that reads, gets its job, and is taken up by a worker.         *)
LEMMA ReadQueueKeeps ==
  ASSUME QueueInv, TypedInv', kind' = kind, SerialReads, NEW p \in Procs, ReadQueue(p)
  PROVE  QueueInv'
<1>1. /\ \A o \in Procs : proc[o].pc # "read"
      /\ Moves(p, "read", NoId, {}, row) /\ row' = row /\ waiting' = waiting
  BY ReadQueueDoes DEF QueueInv
<1>2. Manual' = Manual
  BY KindsStay
<1>3. SentInv'
  <2>1. SUFFICES ASSUME NEW t \in Manual
                 PROVE  Sent(t)'
    BY <1>2 DEF SentInv
  <2>2. \A o \in Procs : Keeps(o, t)
    BY <1>1, ManualFacts DEF Keeps, Moves, Has, Sends, QueueInv
  <2>3. QED
    BY <1>1, <2>2, SentKept DEF RowCalm
<1>4. \A o \in Procs : proc'[o].pc = "read" => o = p /\ proc'[o].seen = row
  BY <1>1 DEF Moves, Has
<1>5. ReadInv'
  BY <1>1, <1>2, <1>4 DEF ReadInv, OneReads, Knows
<1>6. OneInFlight'
  BY <1>1, <1>2 DEF OneInFlight, QueueInv
<1>7. QED
  BY <1>3, <1>5, <1>6 DEF QueueInv

LEMMA OneOfOne ==
  ASSUME NEW S, IsFiniteSet(S), Cardinality(S) = 1, NEW x \in S, NEW y \in S
  PROVE  x = y
BY FS_Singleton

(* A dispatcher chooses one task of each store that it has seen free: no    *)
(* other was put in flight since, for nobody else has read.                 *)
LEMMA DispatchKeeps ==
  ASSUME QueueInv, TypedInv', kind' = kind, NEW p \in Procs, DispatchQueued(p)
  PROVE  QueueInv'
<1>1. /\ proc[p].pc = "read" /\ waiting' = waiting
      /\ \E chosen \in SUBSET Eligible(p) :
           /\ \A t \in Eligible(p) : Cardinality(chosen \cap SameStore(t)) = 1
           /\ Restatused(chosen, "idle")
           /\ \E pc \in {"idle", "enqueue"} : Moves(p, pc, NoId, chosen, Idle.seen)
  BY DispatchQueuedDoes DEF QueueInv
<1>2. PICK chosen \in SUBSET Eligible(p) :
        /\ \A t \in Eligible(p) : Cardinality(chosen \cap SameStore(t)) = 1
        /\ Restatused(chosen, "idle")
        /\ \E pc \in {"idle", "enqueue"} : Moves(p, pc, NoId, chosen, Idle.seen)
  BY <1>1
<1>3. PICK pc \in {"idle", "enqueue"} : Moves(p, pc, NoId, chosen, Idle.seen)
  BY <1>2
<1>4. Manual' = Manual /\ Manual \subseteq Schedules /\ NoId \notin Manual
  BY KindsStay, ManualFacts DEF QueueInv
<1>5. \A t \in Manual : Knows(p, t) /\ Sent(t)
  BY <1>1 DEF QueueInv, ReadInv, SentInv
<1>6. ASSUME NEW t \in Eligible(p)
      PROVE  /\ t \in Manual /\ row[t].status = "queued" /\ ~OnWay(t)
             /\ \A q \in Procs : proc[q].id # t
             /\ \A o \in SameStore(t) : row[o].status \notin InFlight
  <2>1. t \in Manual /\ proc[p].seen[t].status = "queued" /\ row[t].status # "deleted"
    BY DEF Eligible, Exists
  <2>2. row[t].status = "queued"
    BY <1>5, <2>1 DEF Knows
  <2>3. \A o \in SameStore(t) : o \in Manual /\ proc[p].seen[o].status \notin InFlight
    BY DEF Eligible, SameStore
  <2>4. QED
    BY <1>5, <2>1, <2>2, <2>3 DEF Knows, Sent
<1>7. ASSUME NEW q \in Procs
      PROVE  /\ proc'[q].pc # "read"
             /\ \A t \in Manual : /\ proc'[q].id = t => proc[q].id = t
                                  /\ Sends(proc'[q], t) => Sends(proc[q], t) \/ (q = p /\ t \in chosen)
  <2>1. proc[q].pc = "read" => q = p
    BY <1>1 DEF QueueInv, ReadInv, OneReads
  <2>2. QED
    BY <1>3, <1>4, <2>1 DEF Moves, Has, Sends
<1>8. SentInv'
  <2>1. SUFFICES ASSUME NEW t \in Manual
                 PROVE  Sent(t)'
    BY <1>4 DEF SentInv
  <2>2. CASE t \notin chosen
    <3>1. RowCalm(t)
      BY <1>2, <1>4, <2>2 DEF RowCalm, Restatused
    <3>2. \A q \in Procs : Keeps(q, t)
      BY <1>7, <2>2 DEF Keeps
    <3>3. QED
      BY <1>1, <3>1, <3>2, SentKept
  <2>3. CASE t \in chosen
    <3>1. /\ ~OnWay(t) /\ \A q \in Procs : proc[q].id # t
          /\ row'[t].status = "idle" /\ row[t].status = "queued"
      BY <1>2, <1>4, <1>6, <2>3 DEF Restatused
    <3>2. \A q \in Procs : ~Sends(proc[q], t)
      BY <3>1, AboutIs DEF OnWay
    <3>3. About(t)' \subseteq {p}
      BY <1>7, <3>2, AboutIs
    <3>4. waiting'[t] <= 1 /\ ~(waiting'[t] > 0)
      BY <1>1, <1>5, <3>1 DEF OnWay, Sent
    <3>5. \A q \in Procs : proc'[q].id # t
      BY <1>7, <3>1
    <3>6. QED
      BY <3>1, <3>3, <3>4, <3>5 DEF Sent, OnWay
  <2>4. QED
    BY <2>2, <2>3
<1>9. ReadInv'
  BY <1>7 DEF ReadInv, OneReads
<1>10. OneInFlight'
  <2>1. SUFFICES ASSUME NEW t \in Manual, NEW o \in Manual, StoreOf[t] = StoreOf[o],
                        row'[t].status \in InFlight, row'[o].status \in InFlight
                 PROVE  t = o
    BY <1>4 DEF OneInFlight
  <2>2. /\ t \in chosen \/ row[t].status \in InFlight
        /\ o \in chosen \/ row[o].status \in InFlight
        /\ o \in SameStore(t) /\ t \in SameStore(o)
    BY <1>2, <1>4, <2>1 DEF Restatused, SameStore
  <2>3. CASE t \in chosen /\ o \in chosen
    <3>1. t \in chosen \cap SameStore(t) /\ o \in chosen \cap SameStore(t)
      BY <2>2, <2>3 DEF SameStore
    <3>2. Cardinality(chosen \cap SameStore(t)) = 1 /\ IsFiniteSet(chosen \cap SameStore(t))
      <4>1. chosen \cap SameStore(t) \in SUBSET Schedules
        BY <1>4 DEF SameStore
      <4>2. QED
        BY <1>2, <2>3, <4>1, FS_Subset, ScheduleAssumption
    <3>3. QED
      BY <3>1, <3>2, OneOfOne
  <2>4. CASE row[t].status \in InFlight /\ row[o].status \in InFlight
    BY <2>1, <2>4 DEF QueueInv, OneInFlight
  <2>5. QED
    BY <1>2, <1>6, <2>2, <2>3, <2>4
<1>11. QED
  BY <1>8, <1>9, <1>10 DEF QueueInv

LEMMA EnqueueKeeps ==
  ASSUME QueueInv, TypedInv', kind' = kind, ~LateEnqueues, NEW p \in Procs, NEW t \in Manual,
         Enqueue(p, t)
  PROVE  QueueInv'
<1>0. t \in Schedules /\ NoId \notin Manual /\ Manual \subseteq Schedules /\ Manual' = Manual
  BY KindsStay, ManualFacts DEF QueueInv
<1>1. /\ proc[p].pc \in Sending /\ t \in proc[p].todo
      /\ row' = row \/ (Exists(t) /\ Restatused({t}, "failed"))
      /\ \/ waiting' = [waiting EXCEPT ![t] = @ + 1] /\ row' = row
         \/ waiting' = waiting /\ (Exists(t) => Restatused({t}, "failed"))
  <2>1. TypedInv
    BY DEF QueueInv
  <2>2. proc[p].pc \in Sending /\ t \in proc[p].todo
    BY <1>0, <2>1, EnqueueDoes
  <2>3. row' = row \/ (Exists(t) /\ Restatused({t}, "failed"))
    BY <1>0, <2>1, EnqueueDoes
  <2>4. \/ waiting' = [waiting EXCEPT ![t] = @ + 1] /\ row' = row
        \/ waiting' = waiting /\ (Exists(t) => Restatused({t}, "failed"))
        \/ waiting' = [waiting EXCEPT ![t] = @ + 1] /\ LateEnqueues
    BY <1>0, <2>1, EnqueueDoes
  <2>5. QED
    BY <2>2, <2>3, <2>4
<1>2. PICK pc \in {"idle", proc[p].pc} :
        /\ Moves(p, pc, proc[p].id, proc[p].todo \ {t}, proc[p].seen)
        /\ pc = "idle" => proc[p].todo \ {t} = {}
  BY <1>0, EnqueueDoes DEF QueueInv
<1>3. Sent(t)
  BY DEF QueueInv, SentInv
<1>4. p \in About(t) /\ waiting[t] \in Nat
  BY <1>0, <1>1, AboutIs DEF Sends, QueueInv, TypedInv, RowsOK
<1>5. ~(waiting[t] > 0) /\ waiting[t] = 0 /\ row[t].status \in {"idle", "deleted"}
  BY <1>3, <1>4 DEF Sent, OnWay
<1>6. \A q \in Procs : /\ proc'[q].id = proc[q].id
                       /\ proc'[q].pc = "read" => proc[q].pc = "read" /\ proc'[q].seen = proc[q].seen
                       /\ \A u \in Manual : Sends(proc'[q], u) => Sends(proc[q], u) /\ (q # p \/ u # t)
  BY <1>1, <1>2 DEF Moves, Has, Sends, Sending
<1>7. About(t)' = {}
  BY <1>3, <1>4, <1>6, AboutIs DEF Sent
<1>8. \A u \in Manual \ {t} : RowCalm(u) /\ waiting'[u] = waiting[u] /\ \A q \in Procs : Keeps(q, u)
  BY <1>0, <1>1, <1>6 DEF RowCalm, Restatused, Keeps, QueueInv, TypedInv, RowsOK
<1>9. \A q \in Procs : proc'[q].id # t
  BY <1>3, <1>4, <1>6 DEF Sent, OnWay
<1>10. RowTame(t) /\ Sent(t)'
  <2>1. CASE waiting' = [waiting EXCEPT ![t] = @ + 1] /\ row' = row
    <3>1. waiting'[t] = 1
      BY <1>0, <1>5, <2>1 DEF QueueInv, TypedInv, RowsOK
    <3>2. QED
      BY <1>3, <1>5, <1>7, <1>9, <2>1, <3>1 DEF Sent, OnWay, RowTame
  <2>2. CASE waiting' = waiting /\ (Exists(t) => Restatused({t}, "failed"))
    <3>1. waiting'[t] <= 1 /\ ~(waiting'[t] > 0)
      BY <1>5, <2>2
    <3>2. row'[t].status \in {"failed", "deleted"} /\ RowTame(t)
      BY <1>0, <1>1, <1>5, <2>2 DEF Exists, Restatused, RowTame, InFlight
    <3>3. QED
      BY <1>7, <1>9, <3>1, <3>2 DEF Sent, OnWay
  <2>3. QED
    BY <1>1, <2>1, <2>2
<1>11. \A u \in Manual : RowTame(u) /\ Sent(u)'
  BY <1>8, <1>10, SentKept
<1>12. SentInv' /\ Tame
  BY <1>0, <1>6, <1>11 DEF SentInv, Tame
<1>13. QED
  BY <1>12, TameStep DEF QueueInv

LEMMA TakeJobKeeps ==
  ASSUME QueueInv, TypedInv', kind' = kind, NEW w \in RqWorkers, NEW t \in Manual, TakeJob(w, t)
  PROVE  QueueInv'
<1>0. t \in Schedules /\ NoId \notin Manual /\ Manual \subseteq Schedules /\ Manual' = Manual
  BY KindsStay, ManualFacts DEF QueueInv
<1>1. /\ w \in Procs /\ proc[w].pc = "idle" /\ waiting[t] > 0
      /\ waiting' = [waiting EXCEPT ![t] = @ - 1] /\ Only(t) /\ row'[t].due = row[t].due
      /\ \/ Exists(t) /\ row'[t].status = "running" /\ Moves(w, "run", t, {}, proc[w].seen)
         \/ row' = row /\ (proc' = proc \/ Moves(w, "next", NoId, {}, Idle.seen))
  BY <1>0, TakeJobDoes DEF QueueInv
<1>2. Sent(t) /\ waiting[t] \in Nat
  BY <1>0 DEF QueueInv, SentInv, TypedInv, RowsOK
<1>3. /\ waiting'[t] = 0 /\ About(t) = {} /\ row[t].status \in {"idle", "deleted"}
      /\ \A q \in Procs : proc[q].id # t
  BY <1>0, <1>1, <1>2 DEF Sent, OnWay, QueueInv, TypedInv, RowsOK
<1>4. \A q \in Procs : /\ proc'[q].pc = "read" => proc[q].pc = "read" /\ proc'[q].seen = proc[q].seen
                       /\ \A u \in Manual : Sends(proc'[q], u) => Sends(proc[q], u)
                       /\ \A u \in Manual \ {t} : proc'[q].id = u => proc[q].id = u
  BY <1>0, <1>1 DEF Moves, Has, Sends, Sending
<1>5. \A u \in Manual \ {t} : RowCalm(u) /\ waiting'[u] = waiting[u] /\ \A q \in Procs : Keeps(q, u)
  BY <1>0, <1>1, <1>4 DEF RowCalm, Only, Keeps, QueueInv, TypedInv, RowsOK
<1>6. ~OnWay(t)'
  BY <1>3, <1>4, AboutIs DEF OnWay
<1>7. RowTame(t) /\ row'[t].status \notin {"none", "queued"}
  BY <1>1, <1>3 DEF RowTame, Exists, InFlight
<1>8. Sent(t)'
  <2>1. waiting'[t] <= 1 /\ About(t)' = {} /\ ~(waiting'[t] > 0)
    BY <1>3, <1>6 DEF OnWay
  <2>2. QED
    BY <1>6, <1>7, <2>1 DEF Sent
<1>9. \A u \in Manual : RowTame(u) /\ Sent(u)'
  BY <1>5, <1>7, <1>8, SentKept
<1>10. SentInv' /\ Tame
  BY <1>0, <1>4, <1>9 DEF SentInv, Tame
<1>11. QED
  BY <1>10, TameStep DEF QueueInv

-----------------------------------------------------------------------------
(* Sending crawls leaves the other schedules alone.                         *)
LEMMA SendLeaves ==
  ASSUME TypedInv, NEW batch \in SUBSET Crawls, NEW due \in SUBSET Crawls, row' = Send(batch, due)
  PROVE  \A t \in Manual \cup Autos :
           row'[t].status = row[t].status /\ row'[t].enabled = row[t].enabled /\ row'[t].due = row[t].due
<1>1. SUFFICES ASSUME NEW t \in Manual \cup Autos
               PROVE  /\ row'[t].status = row[t].status /\ row'[t].enabled = row[t].enabled
                      /\ row'[t].due = row[t].due
  OBVIOUS
<1>2. t \in Schedules /\ t \notin batch /\ t \notin due /\ t \notin Interrupted
  BY KindFacts DEF TypedInv, Manual, Autos, OfKind, Interrupted
<1>3. \A u \in Schedules :
        /\ row'[u].enabled = row[u].enabled
        /\ row'[u].due = IF u \in batch THEN FALSE ELSE IF u \in due THEN TRUE ELSE row[u].due
        /\ u \in batch => row'[u].status = "running"
        /\ u \notin batch \cup due =>
             row'[u].status = IF u \in Interrupted THEN "failed" ELSE row[u].status
        /\ u \in due \ batch => row'[u].status = row[u].status
  BY SendRow
<1>4. QED
  BY <1>2, <1>3

LEMMA SendsCalm ==
  ASSUME TypedInv, NEW batch \in SUBSET Crawls, NEW due \in SUBSET Crawls, row' = Send(batch, due),
         waiting' = waiting
  PROVE  RowsCalm
BY SendLeaves DEF RowsCalm, RowCalm

LEMMA QueueInit == SchedInit => QueueInv
<1> SUFFICES ASSUME SchedInit
             PROVE  QueueInv
  OBVIOUS
<1>1. TypedInv
  BY TypedInit
<1>2. \A p \in Procs : proc[p].pc = "idle" /\ proc[p].id = NoId /\ proc[p].todo = {}
  BY IdleHas DEF SchedInit, Has
<1>3. \A t \in Schedules : About(t) = {} /\ waiting[t] = 0
  BY <1>2 DEF SchedInit, About
<1>4. \A t \in Schedules : row[t].status = "none" /\ ~row[t].due /\ ~row[t].enabled
  BY DEF SchedInit, NoRow
<1>5. SentInv
  BY <1>1, <1>2, <1>3, <1>4, ManualFacts DEF SentInv, Sent, OnWay
<1>6. OneInFlight
  BY <1>1, <1>4, ManualFacts DEF OneInFlight, InFlight
<1>7. ReadInv
  BY <1>2 DEF ReadInv, OneReads
<1>8. QED
  BY <1>1, <1>5, <1>6, <1>7 DEF QueueInv

(* Of dispatch transactions that do not overlap, every step keeps what the  *)
(* queue rests on.                                                          *)
QueueKept == ~RunManual /\ SerialReads /\ ~LateEnqueues

LEMMA QueueStep ==
  ASSUME QueueKept, QueueInv, [SchedNext]_schedVars
  PROVE  QueueInv'
<1>0. TypedInv /\ TypedInv' /\ kind' = kind /\ Manual \subseteq Schedules /\ NoId \notin Manual
      /\ Interrupted \cap Manual = {} /\ \A t \in Manual : t \notin Crawls /\ t \notin Autos
  BY TypedStep, ManualFacts DEF QueueInv, SchedNext, schedVars
<1>a. ASSUME HandsCalm, RowsCalm
      PROVE  QueueInv'
  BY <1>0, <1>a, CalmStep
<1>b. ASSUME NEW t \in Schedules, Only(t), waiting' = waiting, t \in Manual => RowCalm(t)
      PROVE  RowsCalm
  BY <1>0, <1>b DEF RowsCalm, RowCalm, Only
<1>c. ASSUME \A t \in Manual : row'[t] = row[t], waiting' = waiting
      PROVE  RowsCalm
  BY <1>c DEF RowsCalm, RowCalm
<1>d. ASSUME NEW S, NEW status, Restatused(S, status), S \cap Manual = {}, waiting' = waiting
      PROVE  RowsCalm
  BY <1>0, <1>d DEF RowsCalm, RowCalm, Restatused
<1>e. ASSUME NEW p \in Procs, NEW pc \in {"idle", "next", "due"}, NEW todo, NEW seen,
             Moves(p, pc, NoId, todo, seen)
      PROVE  HandsCalm
  <2>1. pc \notin Sending /\ pc # "read"
    BY DEF Sending
  <2>2. QED
    BY <1>0, <1>e, <2>1, MovesCalm
<1>f. ASSUME NEW p \in Procs, NEW t \in Schedules \ Manual, NEW todo, NEW seen,
             Moves(p, "run", t, todo, seen)
      PROVE  HandsCalm
  <2>1. "run" \notin Sending
    BY DEF Sending
  <2>2. QED
    BY <1>0, <1>f, <2>1, MovesCalm
<1>g. ASSUME NEW p \in Procs, NEW batch \in SUBSET Crawls, Moves(p, "crawls", NoId, batch, Idle.seen)
      PROVE  HandsCalm
  BY <1>0, <1>g, MovesCalm
<1>h. ASSUME NEW t \in Manual
      PROVE  Sent(t)
  BY DEF QueueInv, SentInv
<1>1. CASE UNCHANGED schedVars
  BY <1>1, <1>a, <1>c, StillCalm DEF schedVars, stepVars
<1>2. SUFFICES ASSUME SchedNext
               PROVE  QueueInv'
  BY <1>1
<1>11. ASSUME NEW a \in Requests, NEW t \in Schedules, CreateManual(a, t)
       PROVE  QueueInv'
  <2>1. HandsCalm
    BY <1>0, <1>11, <1>e, StillCalm, CreateManualDoes
  <2>2. RowCalm(t) /\ Only(t) /\ waiting' = waiting
    BY <1>0, <1>11, CreateManualDoes DEF RowCalm
  <2>3. QED
    BY <1>a, <1>b, <2>1, <2>2
<1>12. ASSUME NEW t \in Schedules, NEW on \in BOOLEAN, Save(t, on)
       PROVE  QueueInv'
  <2>1. t \notin Manual /\ Only(t) /\ waiting' = waiting /\ proc' = proc
    BY <1>0, <1>12, SaveDoes
  <2>2. QED
    BY <1>a, <1>b, <2>1, StillCalm
<1>13. ASSUME NEW t \in Schedules, Delete(t)
       PROVE  QueueInv'
  <2>1. Only(t) /\ waiting' = waiting /\ proc' = proc /\ RowCalm(t)
    BY <1>0, <1>13, DeleteDoes DEF RowCalm, Exists
  <2>2. QED
    BY <1>a, <1>b, <2>1, StillCalm
<1>14. ASSUME NEW t \in Schedules, ComesDue(t)
       PROVE  QueueInv'
  <2>1. t \in Manual => row[t].status # "none"
    BY <1>0, <1>14, <1>h, ComesDueDoes DEF Sent
  <2>2. Only(t) /\ waiting' = waiting /\ proc' = proc /\ (t \in Manual => RowCalm(t))
    BY <1>0, <1>14, <2>1, ComesDueDoes DEF RowCalm
  <2>3. QED
    BY <1>a, <1>b, <2>2, StillCalm
<1>15. ASSUME NEW a \in Requests, NEW t \in Schedules, RunNow(a, t)
       PROVE  QueueInv'
  <2>1. a \in Procs /\ t \notin Manual /\ Only(t) /\ waiting' = waiting /\ Moves(a, "run", t, {}, proc[a].seen)
    BY <1>0, <1>15, RunNowDoes DEF QueueKept
  <2>2. QED
    BY <1>a, <1>b, <1>f, <2>1
<1>16. ASSUME NEW w \in RqWorkers, NEW t \in Schedules, TakeJob(w, t)
       PROVE  QueueInv'
  <2>1. CASE t \in Manual
    BY <1>0, <1>16, <2>1, TakeJobKeeps
  <2>2. CASE t \notin Manual
    <3>1. /\ w \in Procs /\ Only(t) /\ waiting' = [waiting EXCEPT ![t] = @ - 1]
          /\ \/ Moves(w, "run", t, {}, proc[w].seen)
             \/ proc' = proc
             \/ Moves(w, "next", NoId, {}, Idle.seen)
      BY <1>0, <1>16, TakeJobDoes
    <3>2. HandsCalm
      BY <1>e, <1>f, <2>2, <3>1, StillCalm
    <3>3. \A u \in Manual : row'[u] = row[u] /\ waiting'[u] = waiting[u]
      BY <1>0, <2>2, <3>1 DEF Only, TypedInv, RowsOK
    <3>4. QED
      BY <1>a, <3>2, <3>3 DEF RowsCalm, RowCalm
  <2>3. QED
    BY <2>1, <2>2
<1>17. ASSUME NEW p \in Procs, MakeTasks(p)
       PROVE  QueueInv'
  <2>1. PICK pc \in {"made", "raised"} : Moves(p, pc, proc[p].id, proc[p].todo, proc[p].seen)
    BY <1>0, <1>17, MakeTasksDoes
  <2>2. pc \notin Sending /\ pc # "read"
    BY DEF Sending
  <2>3. HandsCalm
    BY <1>0, <2>1, <2>2, MovesCalm
  <2>4. row' = row /\ waiting' = waiting
    BY <1>0, <1>17, MakeTasksDoes
  <2>5. QED
    BY <1>a, <1>c, <2>3, <2>4
<1>18. ASSUME NEW p \in Procs, Finish(p)
       PROVE  QueueInv'
  <2>1. /\ proc[p].id \in Schedules /\ Only(proc[p].id) /\ waiting' = waiting
        /\ \/ p \in Runners /\ Moves(p, "due", NoId, proc[p].todo, proc[p].seen)
           \/ p \notin Runners /\ \E pc \in {"idle", "next"} : Moves(p, pc, NoId, {}, Idle.seen)
    BY <1>0, <1>18, FinishDoes
  <2>2. HandsCalm
    BY <1>e, <2>1
  <2>3. ASSUME proc[p].id \in Manual
        PROVE  RowCalm(proc[p].id)
    <3>1. ~OnWay(proc[p].id) /\ row[proc[p].id].status \notin {"none", "queued"}
      BY <1>h, <2>3 DEF Sent
    <3>2. \/ row' = row
          \/ /\ Exists(proc[p].id)
             /\ proc[p].id \in Manual => row'[proc[p].id].status \in {"failed", "completed"}
             /\ row'[proc[p].id].due = (row[proc[p].id].due /\ proc[p].id \notin Crawls)
      BY <1>0, <1>18, FinishDoes
    <3>3. proc[p].id \notin Crawls /\ row[proc[p].id].due \in BOOLEAN
      BY <1>0, <2>1, <2>3, RowFacts
    <3>4. QED
      BY <2>3, <3>1, <3>2, <3>3 DEF RowCalm, Exists
  <2>4. QED
    BY <1>a, <1>b, <2>1, <2>2, <2>3
<1>19. ASSUME NEW p \in Procs, ReadQueue(p)
       PROVE  QueueInv'
  BY <1>0, <1>19, ReadQueueKeeps DEF QueueKept
<1>20. ASSUME NEW p \in Procs, DispatchQueued(p)
       PROVE  QueueInv'
  BY <1>0, <1>20, DispatchKeeps
<1>21. ASSUME NEW p \in Procs, NEW t \in Schedules, Enqueue(p, t)
       PROVE  QueueInv'
  <2>1. CASE t \in Manual
    BY <1>0, <1>21, <2>1, EnqueueKeeps DEF QueueKept
  <2>2. CASE t \notin Manual
    <3>1. PICK pc \in {"idle", proc[p].pc} :
            /\ Moves(p, pc, proc[p].id, proc[p].todo \ {t}, proc[p].seen)
            /\ pc = "idle" => proc[p].todo \ {t} = {}
      BY <1>0, <1>21, EnqueueDoes
    <3>2. proc[p].pc \in Sending
      BY <1>0, <1>21, EnqueueDoes
    <3>3. HandsCalm
      BY <1>0, <3>1, <3>2, MovesCalm DEF Sends, Sending
    <3>4. row' = row \/ Restatused({t}, "failed")
      BY <1>0, <1>21, EnqueueDoes
    <3>5. waiting' = waiting \/ waiting' = [waiting EXCEPT ![t] = @ + 1]
      BY <1>0, <1>21, EnqueueDoes
    <3>6. \A u \in Manual : waiting'[u] = waiting[u]
      BY <1>0, <2>2, <3>5 DEF TypedInv, RowsOK
    <3>7. RowsCalm
      BY <1>0, <2>2, <3>4, <3>6 DEF RowsCalm, RowCalm, Restatused
    <3>8. QED
      BY <1>a, <3>3, <3>7
  <2>3. QED
    BY <2>1, <2>2
<1>22. CASE Reconcile
  BY <1>0, <1>22, <1>a, <1>d, ReconcileDoes, StillCalm
<1>23. ASSUME NEW r \in Runners, TickCrawls(r)
       PROVE  QueueInv'
  <2>1. PICK batch \in SUBSET Crawls :
          row' = Send(batch, {}) /\ Moves(r, "crawls", NoId, batch, Idle.seen)
    BY <1>0, <1>23, TickCrawlsDoes
  <2>2. r \in Procs /\ waiting' = waiting
    BY <1>0, <1>23, TickCrawlsDoes
  <2>3. RowsCalm
    BY <1>0, <2>1, <2>2, SendsCalm
  <2>4. QED
    BY <1>a, <1>g, <2>1, <2>2, <2>3
<1>24. ASSUME NEW a \in Requests, RunAllNow(a)
       PROVE  QueueInv'
  <2>1. PICK some \in SUBSET Crawls : \E batch \in SUBSET some :
          row' = Send(batch, some) /\ Moves(a, "crawls", NoId, batch, Idle.seen)
    BY <1>0, <1>24, RunAllNowDoes
  <2>2. PICK batch \in SUBSET Crawls :
          row' = Send(batch, some) /\ Moves(a, "crawls", NoId, batch, Idle.seen)
    BY <2>1
  <2>3. a \in Procs /\ waiting' = waiting
    BY <1>0, <1>24, RunAllNowDoes
  <2>4. RowsCalm
    BY <1>0, <2>1, <2>2, <2>3, SendsCalm
  <2>5. QED
    BY <1>a, <1>g, <2>2, <2>3, <2>4
<1>25. ASSUME NEW r \in Runners, ReadDue(r)
       PROVE  QueueInv'
  <2>1. /\ r \in Procs /\ waiting' = waiting
        /\ \E over \in SUBSET Orphans : Restatused(over, "failed")
        /\ \E batch \in SUBSET Autos : Moves(r, "due", NoId, batch, proc[r].seen)
    BY <1>0, <1>25, ReadDueDoes
  <2>2. HandsCalm
    BY <1>e, <2>1
  <2>3. PICK over \in SUBSET Orphans : Restatused(over, "failed")
    BY <2>1
  <2>4. ASSUME NEW t \in Manual, t \in over
        PROVE  ~OnWay(t) /\ row[t].status \in InFlight
    BY <2>4 DEF Orphans, UnderWay, HasJob, OnWay
  <2>5. RowsCalm
    BY <1>0, <2>1, <2>3, <2>4 DEF RowsCalm, RowCalm, Restatused, InFlight
  <2>6. QED
    BY <1>a, <2>2, <2>5
<1>26. ASSUME NEW r \in Runners, NEW t \in Schedules, ExecuteDue(r, t)
       PROVE  QueueInv'
  <2>1. /\ r \in Procs /\ t \notin Manual /\ Only(t) /\ waiting' = waiting
        /\ \/ Moves(r, "run", t, proc[r].todo \ {t}, proc[r].seen)
           \/ Moves(r, "due", NoId, proc[r].todo \ {t}, proc[r].seen)
    BY <1>0, <1>26, ExecuteDueDoes
  <2>2. QED
    BY <1>a, <1>b, <1>e, <1>f, <2>1
<1>27. ASSUME NEW r \in Runners, EndDue(r)
       PROVE  QueueInv'
  BY <1>0, <1>27, <1>a, <1>c, <1>e, EndDueDoes
<1>28. ASSUME NEW p \in Procs, Crash(p)
       PROVE  QueueInv'
  BY <1>0, <1>28, <1>a, <1>c, <1>e, CrashDoes
<1>29. ASSUME NEW t \in Schedules, Abandon(t)
       PROVE  QueueInv'
  BY <1>29, <1>a, <1>c, StillCalm DEF Abandon
<1>30. QED
  BY <1>2, <1>11, <1>12, <1>13, <1>14, <1>15, <1>16, <1>17, <1>18, <1>19, <1>20, <1>21, <1>22,
     <1>23, <1>24, <1>25, <1>26, <1>27, <1>28, <1>29 DEF SchedNext

(* OneInFlight: one manual task of a store is idle (dispatched) or running   *)
(* at a time, over any number of dispatchers, crashes, failed enqueues and   *)
(* recoveries of orphans, while the dispatch transactions do not overlap and *)
(* nobody executes a manual task past the queue.                             *)
THEOREM OneTaskOfAStore == QueueKept => (SchedSpec => []OneInFlight)
<1>1. SchedInit => QueueInv
  BY QueueInit
<1>2. QueueKept /\ QueueInv /\ [SchedNext]_schedVars => QueueInv'
  BY QueueStep
<1>3. QueueInv => OneInFlight
  BY DEF QueueInv
<1> SUFFICES ASSUME QueueKept
             PROVE  SchedSpec => []OneInFlight
  OBVIOUS
<1>4. QueueInv /\ [SchedNext]_schedVars => QueueInv'
  BY <1>2
<1>5. QED
  BY <1>1, <1>3, <1>4, PTL DEF SchedSpec

-----------------------------------------------------------------------------
(* What has come due, or was asked for, is answered at most once.           *)

(* A due schedule is a token that moves on: from the row (or the hands of a *)
(* runner) to those who send it, to a job that waits, to an execution that  *)
(* has not created its tasks, and is spent with them.                       *)
Runs(h, t) == h.pc = "run" /\ h.id = t
Executed(t) == {p \in Procs : Runs(proc[p], t)}
Held(t) == \E r \in Runners : t \in proc[r].todo
Pending(t) ==
  \/ t \in Manual /\ row[t].status = "queued" /\ row[t].due
  \/ t \in Crawls /\ row[t].due
  \/ t \in Autos /\ (row[t].due \/ Held(t))
Ind(b) == IF b THEN 1 ELSE 0
Owes(t) ==
  made[t] + Cardinality(Executed(t)) + Cardinality(About(t)) + waiting[t] + Ind(Pending(t)) <= owed[t]
OwesInv == \A t \in Schedules : Owes(t)

(* Before it exists a manual task owes nothing; an automatic schedule comes *)
(* due only while it is enabled; one runner has its round at a time.        *)
NoneOwed == \A t \in Manual : row[t].status = "none" => owed[t] = 0
DueOn == \A t \in Autos : row[t].due => row[t].enabled
OneRound == \A r, q \in Runners : proc[r].pc # "idle" /\ proc[q].pc # "idle" => r = q
RoundInv == NoneOwed /\ DueOn /\ OneRound
OnceInv == QueueInv /\ RoundInv /\ OwesInv

LEMMA CountMove ==
  ASSUME NEW S, NEW T, NEW p, IsFiniteSet(S), IsFiniteSet(T), S \ {p} = T \ {p}
  PROVE  /\ Cardinality(S) \in Nat /\ Cardinality(T) \in Nat
         /\ Cardinality(T) + Ind(p \in S) = Cardinality(S) + Ind(p \in T)
<1>1. Cardinality(S) \in Nat /\ Cardinality(T) \in Nat
  BY FS_CardinalityType
<1>2. /\ Cardinality(S \ {p}) = IF p \in S THEN Cardinality(S) - 1 ELSE Cardinality(S)
      /\ Cardinality(T \ {p}) = IF p \in T THEN Cardinality(T) - 1 ELSE Cardinality(T)
  BY FS_RemoveElement
<1>3. QED
  BY <1>1, <1>2 DEF Ind

LEMMA FiniteHands ==
  ASSUME NEW t
  PROVE  /\ IsFiniteSet(Executed(t)) /\ IsFiniteSet(About(t))
         /\ IsFiniteSet(Executed(t)') /\ IsFiniteSet(About(t)')
<1>1. IsFiniteSet(Procs)
  <2>1. IsFiniteSet(Runners \cup RqWorkers)
    BY FS_Union, ScheduleAssumption
  <2>2. QED
    BY <2>1, FS_Union, ScheduleAssumption DEF Procs
<1>2. /\ Executed(t) \in SUBSET Procs /\ About(t) \in SUBSET Procs
      /\ Executed(t)' \in SUBSET Procs /\ About(t)' \in SUBSET Procs
  BY DEF Executed, About
<1>3. QED
  BY <1>1, <1>2, FS_Subset

(* What one process does to the executions and the sendings of a schedule.  *)
LEMMA CountHands ==
  ASSUME NEW t, NEW p \in Procs, NEW pc, NEW id, NEW todo, NEW seen, Moves(p, pc, id, todo, seen)
  PROVE  /\ Cardinality(Executed(t)) \in Nat /\ Cardinality(Executed(t)') \in Nat
         /\ Cardinality(About(t)) \in Nat /\ Cardinality(About(t)') \in Nat
         /\ Cardinality(Executed(t)') + Ind(Runs(proc[p], t))
              = Cardinality(Executed(t)) + Ind(pc = "run" /\ id = t)
         /\ Cardinality(About(t)') + Ind(Sends(proc[p], t))
              = Cardinality(About(t)) + Ind(pc \in Sending /\ t \in todo)
<1>1. /\ Runs(proc'[p], t) <=> (pc = "run" /\ id = t)
      /\ Sends(proc'[p], t) <=> (pc \in Sending /\ t \in todo)
  BY DEF Moves, Has, Runs, Sends
<1>2. /\ Executed(t)' = {q \in Procs : Runs(proc'[q], t)}
      /\ \A q \in Procs \ {p} : proc'[q] = proc[q]
  BY DEF Executed, Runs, Moves
<1>3. /\ Executed(t) \ {p} = Executed(t)' \ {p}
      /\ p \in Executed(t) <=> Runs(proc[p], t)
      /\ p \in Executed(t)' <=> (pc = "run" /\ id = t)
  BY <1>1, <1>2 DEF Executed
<1>4. /\ About(t) \ {p} = About(t)' \ {p}
      /\ p \in About(t) <=> Sends(proc[p], t)
      /\ p \in About(t)' <=> (pc \in Sending /\ t \in todo)
  BY <1>1, <1>2, AboutIs
<1>5. /\ Cardinality(Executed(t)) \in Nat /\ Cardinality(Executed(t)') \in Nat
      /\ Cardinality(Executed(t)') + Ind(p \in Executed(t))
           = Cardinality(Executed(t)) + Ind(p \in Executed(t)')
  BY <1>3, FiniteHands, CountMove
<1>6. /\ Cardinality(About(t)) \in Nat /\ Cardinality(About(t)') \in Nat
      /\ Cardinality(About(t)') + Ind(p \in About(t))
           = Cardinality(About(t)) + Ind(p \in About(t)')
  BY <1>4, FiniteHands, CountMove
<1>7. QED
  BY <1>3, <1>4, <1>5, <1>6 DEF Ind

(* Tokens gained are owed, tokens spent may be lost.                        *)
Balance(t, ran, sent, runs, sends) ==
  made'[t] + Ind(runs) + Ind(sends) + waiting'[t] + Ind(Pending(t)') + owed[t]
    <= made[t] + Ind(ran) + Ind(sent) + waiting[t] + Ind(Pending(t)) + owed'[t]

LEMMA OwesMoves ==
  ASSUME TypedInv, TypedInv', NEW t \in Schedules, Owes(t),
         NEW p \in Procs, NEW pc, NEW id, NEW todo, NEW seen, Moves(p, pc, id, todo, seen),
         Balance(t, Runs(proc[p], t), Sends(proc[p], t), pc = "run" /\ id = t, pc \in Sending /\ t \in todo)
  PROVE  Owes(t)'
<1> DEFINE e == Cardinality(Executed(t))  e1 == Cardinality(Executed(t)')
           a == Cardinality(About(t))     a1 == Cardinality(About(t)')
           r == Ind(Runs(proc[p], t))     r1 == Ind(pc = "run" /\ id = t)
           s == Ind(Sends(proc[p], t))    s1 == Ind(pc \in Sending /\ t \in todo)
           w == Ind(Pending(t))           w1 == Ind(Pending(t)')
<1>1. e \in Nat /\ e1 \in Nat /\ a \in Nat /\ a1 \in Nat /\ e1 + r = e + r1 /\ a1 + s = a + s1
  BY CountHands
<1>2. r \in Nat /\ r1 \in Nat /\ s \in Nat /\ s1 \in Nat /\ w \in Nat /\ w1 \in Nat
  BY DEF Ind
<1>3. /\ made[t] \in Nat /\ waiting[t] \in Nat /\ owed[t] \in Nat
      /\ made'[t] \in Nat /\ waiting'[t] \in Nat /\ owed'[t] \in Nat
  BY DEF TypedInv, RowsOK
<1>4. made'[t] + r1 + s1 + waiting'[t] + w1 + owed[t] <= made[t] + r + s + waiting[t] + w + owed'[t]
  BY DEF Balance
<1>5. made[t] + e + a + waiting[t] + w <= owed[t]
  BY DEF Owes
<1>6. Owes(t)' = (made'[t] + e1 + a1 + waiting'[t] + w1 <= owed'[t])
  BY DEF Owes, Ind
<1> HIDE DEF e, e1, a, a1, r, r1, s, s1, w, w1
<1>7. made'[t] + e1 + a1 + waiting'[t] + w1 <= owed'[t]
  BY <1>1, <1>2, <1>3, <1>4, <1>5
<1>8. QED
  BY <1>6, <1>7

LEMMA OwesStill ==
  ASSUME TypedInv, TypedInv', NEW t \in Schedules, Owes(t), proc' = proc,
         Balance(t, FALSE, FALSE, FALSE, FALSE)
  PROVE  Owes(t)'
<1> DEFINE e == Cardinality(Executed(t))
           a == Cardinality(About(t))
           w == Ind(Pending(t))
           w1 == Ind(Pending(t)')
<1>1. e \in Nat /\ a \in Nat
  BY FiniteHands, FS_CardinalityType
<1>2. w \in Nat /\ w1 \in Nat
  BY DEF Ind
<1>3. /\ made[t] \in Nat /\ waiting[t] \in Nat /\ owed[t] \in Nat
      /\ made'[t] \in Nat /\ waiting'[t] \in Nat /\ owed'[t] \in Nat
  BY DEF TypedInv, RowsOK
<1>4. made'[t] + waiting'[t] + w1 + owed[t] <= made[t] + waiting[t] + w + owed'[t]
  <2>1. Ind(FALSE) = 0
    BY DEF Ind
  <2> HIDE DEF w, w1
  <2>2. made'[t] + 0 + 0 + waiting'[t] + w1 + owed[t] <= made[t] + 0 + 0 + waiting[t] + w + owed'[t]
    BY <2>1 DEF Balance, w, w1
  <2>3. QED
    BY <1>2, <1>3, <2>2
<1>5. made[t] + e + a + waiting[t] + w <= owed[t]
  BY DEF Owes
<1>6. Executed(t)' = Executed(t) /\ About(t)' = About(t)
  BY DEF Executed, Runs, About
<1>7. Owes(t)' = (made'[t] + e + a + waiting'[t] + w1 <= owed'[t])
  BY <1>6 DEF Owes, Ind
<1> HIDE DEF e, a, w, w1
<1>8. made'[t] + e + a + waiting'[t] + w1 <= owed'[t]
  BY <1>1, <1>2, <1>3, <1>4, <1>5
<1>9. QED
  BY <1>7, <1>8

-----------------------------------------------------------------------------
LEMMA KindsApart ==
  ASSUME TypedInv, NEW t \in Schedules
  PROVE  /\ t \in Manual \cup Autos \cup Crawls
         /\ t \in Manual => t \notin Autos /\ t \notin Crawls
         /\ t \in Autos => t \notin Crawls
BY KindFacts DEF TypedInv

LEMMA RunnersApart ==
  /\ \A a \in Requests : a \in Procs /\ a \notin Runners
  /\ \A w \in RqWorkers : w \in Procs /\ w \notin Runners
BY ScheduleAssumption DEF Procs

LEMMA HeldMoves ==
  ASSUME NEW t, NEW p \in Procs, NEW pc, NEW id, NEW todo, NEW seen, Moves(p, pc, id, todo, seen),
         p \notin Runners \/ t \notin todo \/ t \in proc[p].todo
  PROVE  Held(t)' => Held(t)
BY DEF Held, Moves, Has, Procs

LEMMA HeldStill ==
  ASSUME NEW t, proc' = proc
  PROVE  Held(t)' => Held(t)
BY DEF Held

LEMMA RoundMoves ==
  ASSUME OneRound, NEW p \in Procs, NEW pc, NEW id, NEW todo, NEW seen, Moves(p, pc, id, todo, seen),
         p \in Runners /\ pc # "idle" => proc[p].pc # "idle"
  PROVE  OneRound'
<1>1. \A r \in Runners : proc'[r].pc # "idle" => proc[r].pc # "idle"
  BY DEF Moves, Has, Procs
<1>2. QED
  BY <1>1 DEF OneRound

LEMMA PendingFades ==
  ASSUME kind' = kind, NEW t, row'[t].due => row[t].due,
         t \in Manual /\ row'[t].status = "queued" => row[t].status = "queued",
         Held(t)' => Held(t)
  PROVE  Pending(t)' => Pending(t)
BY KindsStay DEF Pending

(* Who sends or executes nothing more creates no token.                     *)
LEMMA QuietMoves ==
  ASSUME TypedInv, TypedInv', NEW t \in Schedules, Owes(t),
         NEW p \in Procs, NEW pc, NEW id, NEW todo, NEW seen, Moves(p, pc, id, todo, seen),
         pc = "run" => id # t,
         pc \in Sending /\ t \in todo => Sends(proc[p], t),
         made'[t] = made[t], waiting'[t] = waiting[t], owed'[t] = owed[t],
         Pending(t)' => Pending(t)
  PROVE  Owes(t)'
<1>1. /\ made[t] \in Nat /\ waiting[t] \in Nat /\ owed[t] \in Nat
  BY DEF TypedInv, RowsOK
<1>2. Ind(pc = "run" /\ id = t) = 0 /\ Ind(Runs(proc[p], t)) \in {0, 1}
  BY DEF Ind
<1>3. Ind(pc \in Sending /\ t \in todo) <= Ind(Sends(proc[p], t))
      /\ Ind(pc \in Sending /\ t \in todo) \in {0, 1} /\ Ind(Sends(proc[p], t)) \in {0, 1}
  BY DEF Ind
<1>4. Ind(Pending(t)') <= Ind(Pending(t)) /\ Ind(Pending(t)') \in {0, 1} /\ Ind(Pending(t)) \in {0, 1}
  BY DEF Ind
<1>5. Balance(t, Runs(proc[p], t), Sends(proc[p], t), pc = "run" /\ id = t, pc \in Sending /\ t \in todo)
  <2> DEFINE r == Ind(Runs(proc[p], t))  r1 == Ind(pc = "run" /\ id = t)
             s == Ind(Sends(proc[p], t)) s1 == Ind(pc \in Sending /\ t \in todo)
             w == Ind(Pending(t))        w1 == Ind(Pending(t)')
  <2> HIDE DEF r, r1, s, s1, w, w1
  <2>1. made'[t] + r1 + s1 + waiting'[t] + w1 + owed[t] <= made[t] + r + s + waiting[t] + w + owed'[t]
    BY <1>1, <1>2, <1>3, <1>4 DEF r, r1, s, s1, w, w1
  <2>2. QED
    BY <2>1 DEF Balance, r, r1, s, s1, w, w1
<1>6. QED
  BY <1>5, OwesMoves

LEMMA QuietStill ==
  ASSUME TypedInv, TypedInv', NEW t \in Schedules, Owes(t), proc' = proc,
         made'[t] = made[t], waiting'[t] = waiting[t], owed'[t] = owed[t],
         Pending(t)' => Pending(t)
  PROVE  Owes(t)'
<1>1. /\ made[t] \in Nat /\ waiting[t] \in Nat /\ owed[t] \in Nat
  BY DEF TypedInv, RowsOK
<1>2. Balance(t, FALSE, FALSE, FALSE, FALSE)
  BY <1>1 DEF Balance, Ind
<1>3. QED
  BY <1>2, OwesStill

LEMMA OnceInit == SchedInit => OnceInv
<1> SUFFICES ASSUME SchedInit
             PROVE  OnceInv
  OBVIOUS
<1>1. QueueInv /\ TypedInv /\ Manual \subseteq Schedules /\ Autos \subseteq Schedules
  BY QueueInit DEF QueueInv, Manual, Autos, OfKind
<1>2. \A p \in Procs : proc[p].pc = "idle" /\ proc[p].todo = {}
  BY IdleHas DEF SchedInit, Has
<1>3. \A t \in Schedules : ~row[t].due /\ owed[t] = 0 /\ made[t] = 0 /\ waiting[t] = 0
  BY DEF SchedInit, NoRow
<1>4. RoundInv
  BY <1>1, <1>2, <1>3 DEF RoundInv, NoneOwed, DueOn, OneRound, Procs
<1>5. ASSUME NEW t \in Schedules
      PROVE  Owes(t)
  <2>1. Executed(t) = {} /\ About(t) = {}
    BY <1>2 DEF Executed, Runs, About
  <2>2. ~Pending(t)
    BY <1>2, <1>3 DEF Pending, Held, Procs
  <2>3. Cardinality({}) = 0
    BY FS_EmptySet
  <2>4. QED
    BY <1>3, <2>1, <2>2, <2>3 DEF Owes, Ind
<1>6. QED
  BY <1>1, <1>4, <1>5 DEF OnceInv, OwesInv

OnceKept == QueueKept /\ OneTick

LEMMA RoundStep ==
  ASSUME OnceKept, QueueInv, RoundInv, [SchedNext]_schedVars
  PROVE  RoundInv'
<1>0. /\ TypedInv /\ kind' = kind /\ Manual' = Manual /\ Autos' = Autos
      /\ Manual \subseteq Schedules /\ Autos \subseteq Schedules
      /\ \A t \in Manual : t \notin Crawls /\ t \notin Autos
      /\ \A t \in Autos : t \notin Crawls /\ t \notin Manual
      /\ owed \in [Schedules -> Nat]
  <2>1. TypedInv /\ kind' = kind
    BY DEF QueueInv, SchedNext, schedVars
  <2>2. QED
    BY <2>1, KindsStay, KindFacts DEF TypedInv, RowsOK, Manual, Autos, OfKind
<1>h. \A t \in Manual : row[t].status = "none" => owed[t] = 0 /\ ~row[t].enabled
  BY DEF QueueInv, SentInv, Sent, RoundInv, NoneOwed
<1>i. \A t \in Autos : row[t].due => row[t].enabled
  BY DEF RoundInv, DueOn
<1>j. OneRound
  BY DEF RoundInv
<1> DEFINE ManualKept(t) == t \in Manual /\ row'[t].status = "none" =>
                              row[t].status = "none" /\ owed'[t] = owed[t]
           AutoKept(t) == t \in Autos /\ row'[t].due => row'[t].enabled
<1>a. ASSUME \A t \in Schedules : ManualKept(t) /\ AutoKept(t), OneRound'
      PROVE  RoundInv'
  BY <1>0, <1>h, <1>a DEF RoundInv, NoneOwed, DueOn
<1>b. ASSUME NEW u \in Schedules, Only(u), \A t \in Schedules \ {u} : owed'[t] = owed[t],
             ManualKept(u), AutoKept(u), OneRound'
      PROVE  RoundInv'
  <2>1. \A t \in Schedules \ {u} : ManualKept(t) /\ AutoKept(t)
    BY <1>i, <1>b DEF Only
  <2>2. QED
    BY <1>a, <1>b, <2>1
<1>c. ASSUME NEW S, NEW status, Restatused(S, status), status # "none", owed' = owed, OneRound'
      PROVE  RoundInv'
  <2>1. \A t \in Schedules : ManualKept(t) /\ AutoKept(t)
    BY <1>i, <1>c DEF Restatused
  <2>2. QED
    BY <1>a, <1>c, <2>1
<1>d. ASSUME row' = row, owed' = owed, OneRound'
      PROVE  RoundInv'
  <2>1. \A t \in Schedules : ManualKept(t) /\ AutoKept(t)
    BY <1>i, <1>d
  <2>2. QED
    BY <1>a, <1>d, <2>1
<1>e. ASSUME proc' = proc
      PROVE  OneRound'
  BY <1>e, <1>j DEF OneRound
<1>f. ASSUME NEW p \in Procs, NEW pc, NEW id, NEW todo, NEW seen, Moves(p, pc, id, todo, seen),
             p \notin Runners \/ proc[p].pc # "idle" \/ pc = "idle"
      PROVE  OneRound'
  BY <1>f, <1>j, RoundMoves
<1>1. CASE UNCHANGED schedVars
  BY <1>1, <1>d, <1>e DEF schedVars, stepVars
<1>2. SUFFICES ASSUME SchedNext
               PROVE  RoundInv'
  BY <1>1
<1>11. ASSUME NEW a \in Requests, NEW t \in Schedules, CreateManual(a, t)
       PROVE  RoundInv'
  <2>1. OneRound'
    BY <1>0, <1>11, <1>e, <1>f, RunnersApart, CreateManualDoes
  <2>2. /\ t \in Manual /\ Only(t) /\ row'[t].status = "queued"
        /\ owed' = [owed EXCEPT ![t] = IF kind[t] = "manual" THEN 1 ELSE 0]
    BY <1>0, <1>11, CreateManualDoes
  <2>3. ManualKept(t) /\ AutoKept(t)
    BY <1>0, <2>2
  <2>4. \A u \in Schedules \ {t} : owed'[u] = owed[u]
    BY <1>0, <2>2
  <2>5. QED
    BY <1>b, <2>1, <2>2, <2>3, <2>4
<1>12. ASSUME NEW t \in Schedules, NEW on \in BOOLEAN, Save(t, on)
       PROVE  RoundInv'
  <2>1. /\ Only(t) /\ row'[t].status # "none" /\ ~row'[t].due /\ owed' = owed /\ proc' = proc
    BY <1>0, <1>12, SaveDoes
  <2>2. QED
    BY <1>b, <1>e, <2>1
<1>13. ASSUME NEW t \in Schedules, Delete(t)
       PROVE  RoundInv'
  <2>1. /\ Only(t) /\ row'[t].status # "none" /\ ~row'[t].due /\ owed' = owed /\ proc' = proc
    BY <1>0, <1>13, DeleteDoes
  <2>2. QED
    BY <1>b, <1>e, <2>1
<1>14. ASSUME NEW t \in Schedules, ComesDue(t)
       PROVE  RoundInv'
  <2>1. /\ row[t].enabled /\ Only(t) /\ row'[t].status = row[t].status /\ row'[t].enabled = row[t].enabled
        /\ owed' = [owed EXCEPT ![t] = @ + 1] /\ proc' = proc
    BY <1>0, <1>14, ComesDueDoes
  <2>2. ManualKept(t) /\ AutoKept(t)
    BY <1>h, <2>1
  <2>3. \A u \in Schedules \ {t} : owed'[u] = owed[u]
    BY <1>0, <2>1
  <2>4. QED
    BY <1>b, <1>e, <2>1, <2>2, <2>3
<1>15. ASSUME NEW a \in Requests, NEW t \in Schedules, RunNow(a, t)
       PROVE  RoundInv'
  <2>1. /\ Only(t) /\ row'[t].status = "running" /\ row'[t].enabled = row[t].enabled
        /\ row'[t].due = row[t].due /\ owed' = [owed EXCEPT ![t] = @ + 1]
        /\ Moves(a, "run", t, {}, proc[a].seen)
    BY <1>0, <1>15, RunNowDoes
  <2>2. ManualKept(t) /\ AutoKept(t)
    BY <1>i, <2>1
  <2>3. \A u \in Schedules \ {t} : owed'[u] = owed[u]
    BY <1>0, <2>1
  <2>4. OneRound'
    BY <1>f, <2>1, RunnersApart
  <2>5. QED
    BY <1>b, <2>1, <2>2, <2>3, <2>4
<1>16. ASSUME NEW w \in RqWorkers, NEW t \in Schedules, TakeJob(w, t)
       PROVE  RoundInv'
  <2>1. /\ Only(t) /\ row'[t].due = row[t].due /\ owed' = owed
        /\ \/ /\ row'[t].status = "running" /\ (t \notin Manual => row'[t].enabled = row[t].enabled)
              /\ Moves(w, "run", t, {}, proc[w].seen)
           \/ row' = row /\ (proc' = proc \/ Moves(w, "next", NoId, {}, Idle.seen))
    BY <1>0, <1>16, TakeJobDoes
  <2>2. OneRound'
    BY <1>e, <1>f, <2>1, RunnersApart
  <2>3. ManualKept(t) /\ AutoKept(t)
    BY <1>0, <1>i, <2>1
  <2>4. QED
    BY <1>b, <2>1, <2>2, <2>3
<1>17. ASSUME NEW p \in Procs, MakeTasks(p)
       PROVE  RoundInv'
  <2>1. PICK pc \in {"made", "raised"} : Moves(p, pc, proc[p].id, proc[p].todo, proc[p].seen)
    BY <1>0, <1>17, MakeTasksDoes
  <2>2. proc[p].pc = "run" /\ row' = row /\ owed' = owed
    BY <1>0, <1>17, MakeTasksDoes
  <2>3. QED
    BY <1>d, <1>f, <2>1, <2>2
<1>18. ASSUME NEW p \in Procs, Finish(p)
       PROVE  RoundInv'
  <2>1. /\ proc[p].id \in Schedules /\ Only(proc[p].id) /\ owed' = owed /\ proc[p].pc # "idle"
        /\ \/ p \in Runners /\ Moves(p, "due", NoId, proc[p].todo, proc[p].seen)
           \/ p \notin Runners /\ \E pc \in {"idle", "next"} : Moves(p, pc, NoId, {}, Idle.seen)
    BY <1>0, <1>18, FinishDoes
  <2>2. OneRound'
    BY <1>f, <2>1
  <2>3. \/ row' = row
        \/ /\ row'[proc[p].id].status \in {"failed", "completed", "idle", "disabled"}
           /\ row'[proc[p].id].enabled = row[proc[p].id].enabled
           /\ row'[proc[p].id].due = (row[proc[p].id].due /\ proc[p].id \notin Crawls)
    BY <1>0, <1>18, FinishDoes
  <2>4. ManualKept(proc[p].id) /\ AutoKept(proc[p].id)
    BY <1>i, <2>1, <2>3
  <2>5. QED
    BY <1>b, <2>1, <2>2, <2>4
<1>19. ASSUME NEW p \in Procs, ReadQueue(p)
       PROVE  RoundInv'
  <2>1. proc[p].pc = "next" /\ Moves(p, "read", NoId, {}, row) /\ row' = row /\ owed' = owed
    BY <1>0, <1>19, ReadQueueDoes
  <2>2. QED
    BY <1>d, <1>f, <2>1
<1>20. ASSUME NEW p \in Procs, DispatchQueued(p)
       PROVE  RoundInv'
  <2>1. proc[p].pc = "read" /\ owed' = owed
        /\ \E chosen : Restatused(chosen, "idle")
                       /\ \E pc \in {"idle", "enqueue"} : Moves(p, pc, NoId, chosen, Idle.seen)
    BY <1>0, <1>20, DispatchQueuedDoes
  <2>2. PICK chosen : Restatused(chosen, "idle")
                      /\ \E pc \in {"idle", "enqueue"} : Moves(p, pc, NoId, chosen, Idle.seen)
    BY <2>1
  <2>3. OneRound'
    BY <1>f, <2>1, <2>2
  <2>4. QED
    BY <1>c, <2>1, <2>2, <2>3
<1>21. ASSUME NEW p \in Procs, NEW t \in Schedules, Enqueue(p, t)
       PROVE  RoundInv'
  <2>1. PICK pc \in {"idle", proc[p].pc} :
          /\ Moves(p, pc, proc[p].id, proc[p].todo \ {t}, proc[p].seen)
          /\ pc = "idle" => proc[p].todo \ {t} = {}
    BY <1>0, <1>21, EnqueueDoes
  <2>2. proc[p].pc # "idle"
    BY <1>0, <1>21, EnqueueDoes DEF Sending
  <2>3. (row' = row \/ Restatused({t}, "failed")) /\ owed' = owed
    BY <1>0, <1>21, EnqueueDoes
  <2>4. OneRound'
    BY <1>f, <2>1, <2>2
  <2>5. QED
    BY <1>c, <1>d, <2>3, <2>4
<1>22. CASE Reconcile
  BY <1>0, <1>22, <1>c, <1>e, ReconcileDoes
<1>23. ASSUME NEW r \in Runners, TickCrawls(r)
       PROVE  RoundInv'
  <2>1. PICK batch \in SUBSET Crawls :
          row' = Send(batch, {}) /\ Moves(r, "crawls", NoId, batch, Idle.seen)
    BY <1>0, <1>23, TickCrawlsDoes
  <2>2. r \in Procs /\ owed' = owed /\ \A o \in Runners : proc[o].pc = "idle"
    BY <1>0, <1>23, TickCrawlsDoes DEF OnceKept
  <2>3. OneRound'
    BY <2>1, <2>2 DEF OneRound, Moves, Procs
  <2>4. \A u \in Manual \cup Autos : row'[u].enabled = row[u].enabled /\ row'[u].due = row[u].due
                                     /\ row'[u].status = row[u].status
    BY <1>0, <2>1, SendLeaves
  <2>5. \A u \in Schedules : ManualKept(u) /\ AutoKept(u)
    BY <1>i, <2>2, <2>4
  <2>6. QED
    BY <1>a, <2>3, <2>5
<1>24. ASSUME NEW a \in Requests, RunAllNow(a)
       PROVE  RoundInv'
  <2>1. PICK some \in SUBSET Crawls :
          /\ owed' = [t \in Schedules |-> IF t \in some THEN owed[t] + 1 ELSE owed[t]]
          /\ \E batch \in SUBSET some :
               row' = Send(batch, some) /\ Moves(a, "crawls", NoId, batch, Idle.seen)
    BY <1>0, <1>24, RunAllNowDoes
  <2>2. PICK batch \in SUBSET Crawls :
          row' = Send(batch, some) /\ Moves(a, "crawls", NoId, batch, Idle.seen)
    BY <2>1
  <2>3. OneRound'
    BY <1>f, <2>2, RunnersApart
  <2>4. \A u \in Manual \cup Autos : row'[u].enabled = row[u].enabled /\ row'[u].due = row[u].due
                                     /\ row'[u].status = row[u].status
    BY <1>0, <2>1, <2>2, SendLeaves
  <2>5. \A u \in Manual : owed'[u] = owed[u]
    BY <1>0, <2>1
  <2>6. \A u \in Schedules : ManualKept(u) /\ AutoKept(u)
    BY <1>i, <2>4, <2>5
  <2>7. QED
    BY <1>a, <2>3, <2>6
<1>25. ASSUME NEW r \in Runners, ReadDue(r)
       PROVE  RoundInv'
  <2>1. /\ r \in Procs /\ proc[r].pc = "crawls" /\ owed' = owed
        /\ \E over \in SUBSET Orphans : Restatused(over, "failed")
        /\ \E batch \in SUBSET Autos : Moves(r, "due", NoId, batch, proc[r].seen)
    BY <1>0, <1>25, ReadDueDoes
  <2>2. OneRound'
    BY <1>f, <2>1
  <2>3. QED
    BY <1>c, <2>1, <2>2
<1>26. ASSUME NEW r \in Runners, NEW t \in Schedules, ExecuteDue(r, t)
       PROVE  RoundInv'
  <2>1. /\ r \in Procs /\ proc[r].pc = "due" /\ t \notin Manual /\ t \in Autos /\ Only(t) /\ owed' = owed
        /\ \/ Moves(r, "run", t, proc[r].todo \ {t}, proc[r].seen)
           \/ Moves(r, "due", NoId, proc[r].todo \ {t}, proc[r].seen)
    BY <1>0, <1>26, ExecuteDueDoes
  <2>2. \/ row'[t].enabled = row[t].enabled /\ row'[t].due = (row[t].due /\ ~row[t].enabled)
        \/ row' = row
    BY <1>0, <1>26, ExecuteDueDoes
  <2>3. OneRound'
    BY <1>f, <2>1
  <2>4. ManualKept(t) /\ AutoKept(t)
    BY <1>i, <2>1, <2>2
  <2>5. QED
    BY <1>b, <2>1, <2>3, <2>4
<1>27. ASSUME NEW r \in Runners, EndDue(r)
       PROVE  RoundInv'
  <2>1. /\ r \in Procs /\ proc[r].pc = "due" /\ row' = row /\ owed' = owed
        /\ Moves(r, "next", NoId, {}, Idle.seen)
    BY <1>0, <1>27, EndDueDoes
  <2>2. QED
    BY <1>d, <1>f, <2>1
<1>28. ASSUME NEW p \in Procs, Crash(p)
       PROVE  RoundInv'
  BY <1>0, <1>28, <1>d, <1>f, CrashDoes
<1>29. ASSUME NEW t \in Schedules, Abandon(t)
       PROVE  RoundInv'
  BY <1>29, <1>d, <1>e DEF Abandon
<1>30. QED
  BY <1>2, <1>11, <1>12, <1>13, <1>14, <1>15, <1>16, <1>17, <1>18, <1>19, <1>20, <1>21, <1>22,
     <1>23, <1>24, <1>25, <1>26, <1>27, <1>28, <1>29 DEF SchedNext

LEMMA SendDue ==
  ASSUME TypedInv, NEW batch, NEW due, row' = Send(batch, due), NEW t \in Schedules
  PROVE  /\ t \in batch => ~row'[t].due
         /\ t \notin batch \cup due => row'[t].due = row[t].due
<1>1. \A u \in Schedules :
        /\ row'[u].enabled = row[u].enabled
        /\ row'[u].due = IF u \in batch THEN FALSE ELSE IF u \in due THEN TRUE ELSE row[u].due
        /\ u \in batch => row'[u].status = "running"
        /\ u \notin batch \cup due =>
             row'[u].status = IF u \in Interrupted THEN "failed" ELSE row[u].status
        /\ u \in due \ batch => row'[u].status = row[u].status
  BY SendRow
<1>2. QED
  BY <1>1

(* Each step keeps the balance of every schedule.                           *)
LEMMA OwesStep ==
  ASSUME OnceKept, OnceInv, [SchedNext]_schedVars
  PROVE  OwesInv'
<1>0. /\ TypedInv /\ TypedInv' /\ kind' = kind
      /\ Manual \subseteq Schedules /\ NoId \notin Schedules
      /\ owed \in [Schedules -> Nat] /\ made \in [Schedules -> Nat] /\ waiting \in [Schedules -> Nat]
  <2>1. TypedInv /\ kind' = kind
    BY DEF OnceInv, QueueInv, SchedNext, schedVars
  <2>2. QED
    BY <2>1, TypedStep, ScheduleAssumption DEF TypedInv, RowsOK, Manual, OfKind
<1>1. SUFFICES ASSUME NEW t \in Schedules
               PROVE  Owes(t)'
  BY DEF OwesInv
<1>2. Owes(t) /\ made[t] \in Nat /\ waiting[t] \in Nat /\ owed[t] \in Nat
  BY <1>0 DEF OnceInv, OwesInv
<1>3. /\ t \in Manual \cup Autos \cup Crawls
      /\ t \in Manual => t \notin Autos /\ t \notin Crawls
      /\ t \in Autos => t \notin Crawls
  BY <1>0, KindsApart
<1>4. Pending(t)' <=> \/ t \in Manual /\ row'[t].status = "queued" /\ row'[t].due
                      \/ t \in Crawls /\ row'[t].due
                      \/ t \in Autos /\ (row'[t].due \/ Held(t)')
  BY <1>0, KindsStay DEF Pending
<1> DEFINE Same == made'[t] = made[t] /\ waiting'[t] = waiting[t] /\ owed'[t] = owed[t]
<1>a. ASSUME proc' = proc, Same, row'[t].due => row[t].due,
             t \in Manual /\ row'[t].status = "queued" => row[t].status = "queued"
      PROVE  Owes(t)'
  BY <1>0, <1>2, <1>a, QuietStill, PendingFades, HeldStill
<1>b. ASSUME NEW p \in Procs, NEW pc, NEW id, NEW todo, NEW seen, Moves(p, pc, id, todo, seen),
             pc = "run" => id # t, pc \in Sending /\ t \in todo => Sends(proc[p], t),
             p \notin Runners \/ t \notin todo \/ t \in proc[p].todo,
             Same, row'[t].due => row[t].due,
             t \in Manual /\ row'[t].status = "queued" => row[t].status = "queued"
      PROVE  Owes(t)'
  <2>1. Pending(t)' => Pending(t)
    BY <1>0, <1>b, PendingFades, HeldMoves
  <2>2. QED
    BY <1>0, <1>2, <1>b, <2>1, QuietMoves
<1>c. ASSUME NEW p \in Procs, NEW pc \in {"idle", "next", "read", "due"}, NEW todo, NEW seen,
             Moves(p, pc, NoId, todo, seen),
             p \notin Runners \/ t \notin todo \/ t \in proc[p].todo,
             Same, row'[t].due => row[t].due,
             t \in Manual /\ row'[t].status = "queued" => row[t].status = "queued"
      PROVE  Owes(t)'
  <2>1. pc # "run" /\ pc \notin Sending
    BY DEF Sending
  <2>2. QED
    BY <1>c, <1>b, <2>1
<1>d. ASSUME NEW p \in Procs, NEW pc, NEW id, NEW todo, NEW seen, Moves(p, pc, id, todo, seen),
             Balance(t, Runs(proc[p], t), Sends(proc[p], t), pc = "run" /\ id = t, pc \in Sending /\ t \in todo)
      PROVE  Owes(t)'
  BY <1>0, <1>2, <1>d, OwesMoves
<1>e. Ind(Pending(t)) \in {0, 1} /\ Ind(Pending(t)') \in {0, 1}
      /\ \A p \in Procs : Ind(Runs(proc[p], t)) \in {0, 1} /\ Ind(Sends(proc[p], t)) \in {0, 1}
  BY DEF Ind
<1>10. CASE UNCHANGED schedVars
  BY <1>10, <1>a DEF schedVars, stepVars
<1>20. SUFFICES ASSUME SchedNext
                PROVE  Owes(t)'
  BY <1>10
<1>11. ASSUME NEW a \in Requests, NEW u \in Schedules, CreateManual(a, u)
       PROVE  Owes(t)'
  <2>1. /\ a \in Procs /\ u \in Manual /\ row[u].status = "none" /\ Only(u)
        /\ row'[u].status = "queued" /\ row'[u].due = (kind[u] = "manual")
        /\ owed' = [owed EXCEPT ![u] = IF kind[u] = "manual" THEN 1 ELSE 0]
        /\ made' = made /\ waiting' = waiting
    BY <1>0, <1>11, CreateManualDoes
  <2>2. Moves(a, "next", NoId, {}, Idle.seen) \/ proc' = proc
    BY <1>0, <1>11, CreateManualDoes
  <2>3. CASE t # u
    <3>1. row'[t] = row[t] /\ Same
      BY <1>0, <2>1, <2>3 DEF Only
    <3>2. QED
      BY <1>a, <1>c, <2>1, <2>2, <3>1
  <2>4. CASE t = u
    <3>1. owed[t] = 0 /\ owed'[t] = IF kind[t] = "manual" THEN 1 ELSE 0
      BY <1>0, <2>1, <2>4 DEF OnceInv, RoundInv, NoneOwed
    <3>2. Pending(t)' => kind[t] = "manual"
      BY <1>3, <1>4, <2>1, <2>4
    <3>3. Ind(Pending(t)') <= owed'[t]
      BY <1>e, <3>1, <3>2 DEF Ind
    <3>4. made'[t] = made[t] /\ waiting'[t] = waiting[t] /\ owed'[t] \in Nat
      BY <2>1, <3>1
    <3>5. CASE proc' = proc
      <4>1. Balance(t, FALSE, FALSE, FALSE, FALSE)
        BY <1>2, <1>e, <3>1, <3>3, <3>4 DEF Balance, Ind
      <4>2. QED
        BY <1>0, <1>2, <3>5, <4>1, OwesStill
    <3>6. CASE Moves(a, "next", NoId, {}, Idle.seen)
      <4>1. "next" \notin Sending
        BY DEF Sending
      <4>2. Ind("next" = "run" /\ NoId = t) = 0 /\ Ind("next" \in Sending /\ t \in {}) = 0
        BY <4>1 DEF Ind
      <4>3. Balance(t, Runs(proc[a], t), Sends(proc[a], t), "next" = "run" /\ NoId = t,
                    "next" \in Sending /\ t \in {})
        BY <1>2, <1>e, <2>1, <3>1, <3>3, <3>4, <4>2 DEF Balance
      <4>4. QED
        BY <1>d, <2>1, <3>6, <4>3
    <3>7. QED
      BY <2>2, <3>5, <3>6
  <2>5. QED
    BY <2>3, <2>4
<1>12. ASSUME NEW u \in Schedules, NEW on \in BOOLEAN, Save(u, on)
       PROVE  Owes(t)'
  <2>1. /\ Only(u) /\ row'[u].status # "queued" /\ ~row'[u].due
        /\ UNCHANGED <<owed, made, waiting, proc>>
    BY <1>0, <1>12, SaveDoes
  <2>2. QED
    BY <1>a, <2>1 DEF Only
<1>13. ASSUME NEW u \in Schedules, Delete(u)
       PROVE  Owes(t)'
  <2>1. /\ Only(u) /\ row'[u].status # "queued" /\ ~row'[u].due
        /\ UNCHANGED <<owed, made, waiting, proc>>
    BY <1>0, <1>13, DeleteDoes
  <2>2. QED
    BY <1>a, <2>1 DEF Only
<1>14. ASSUME NEW u \in Schedules, ComesDue(u)
       PROVE  Owes(t)'
  <2>1. /\ Only(u) /\ owed' = [owed EXCEPT ![u] = @ + 1] /\ UNCHANGED <<made, waiting, proc>>
    BY <1>0, <1>14, ComesDueDoes
  <2>2. CASE t # u
    <3>1. row'[t] = row[t] /\ Same
      BY <1>0, <2>1, <2>2 DEF Only
    <3>2. QED
      BY <1>a, <2>1, <3>1
  <2>3. CASE t = u
    <3>1. owed'[t] = owed[t] + 1 /\ made'[t] = made[t] /\ waiting'[t] = waiting[t]
      BY <1>0, <2>1, <2>3
    <3>2. Balance(t, FALSE, FALSE, FALSE, FALSE)
      BY <1>2, <1>e, <3>1 DEF Balance, Ind
    <3>3. QED
      BY <1>0, <1>2, <2>1, <3>2, OwesStill
  <2>4. QED
    BY <2>2, <2>3
<1>15. ASSUME NEW a \in Requests, NEW u \in Schedules, RunNow(a, u)
       PROVE  Owes(t)'
  <2>1. /\ a \in Procs /\ a \notin Runners /\ Only(u) /\ row'[u].status = "running"
        /\ row'[u].due = row[u].due /\ owed' = [owed EXCEPT ![u] = @ + 1]
        /\ Moves(a, "run", u, {}, proc[a].seen) /\ made' = made /\ waiting' = waiting
    BY <1>0, <1>15, RunNowDoes, RunnersApart
  <2>2. CASE t # u
    <3>1. row'[t] = row[t] /\ Same
      BY <1>0, <2>1, <2>2 DEF Only
    <3>2. QED
      BY <1>b, <2>1, <2>2, <3>1
  <2>3. CASE t = u
    <3>1. owed'[t] = owed[t] + 1 /\ made'[t] = made[t] /\ waiting'[t] = waiting[t]
      BY <1>0, <2>1, <2>3
    <3>2. Pending(t)' => Pending(t)
      BY <1>0, <2>1, <2>3, PendingFades, HeldMoves
    <3>3. Ind(Pending(t)') <= Ind(Pending(t))
      BY <3>2 DEF Ind
    <3>4. "run" \notin Sending
      BY DEF Sending
    <3>5. Ind("run" = "run" /\ u = t) = 1 /\ Ind("run" \in Sending /\ t \in {}) = 0
      BY <2>3, <3>4 DEF Ind
    <3>6. Balance(t, Runs(proc[a], t), Sends(proc[a], t), "run" = "run" /\ u = t, "run" \in Sending /\ t \in {})
      BY <1>2, <1>e, <2>1, <3>1, <3>3, <3>5 DEF Balance
    <3>7. QED
      BY <1>d, <2>1, <3>6
  <2>4. QED
    BY <2>2, <2>3
<1>16. ASSUME NEW w \in RqWorkers, NEW u \in Schedules, TakeJob(w, u)
       PROVE  Owes(t)'
  <2>1. /\ w \in Procs /\ w \notin Runners /\ waiting[u] > 0 /\ waiting' = [waiting EXCEPT ![u] = @ - 1]
        /\ Only(u) /\ row'[u].due = row[u].due /\ owed' = owed /\ made' = made
    BY <1>0, <1>16, TakeJobDoes, RunnersApart
  <2>2. \/ row'[u].status = "running" /\ Moves(w, "run", u, {}, proc[w].seen)
        \/ row' = row /\ proc' = proc
        \/ row' = row /\ Moves(w, "next", NoId, {}, Idle.seen)
    BY <1>0, <1>16, TakeJobDoes
  <2>3. CASE t # u
    <3>1. row'[t] = row[t] /\ Same
      BY <1>0, <2>1, <2>3 DEF Only
    <3>2. QED
      BY <1>a, <1>b, <1>c, <2>1, <2>2, <2>3, <3>1
  <2>4. CASE t = u
    <3>1. waiting'[t] = waiting[t] - 1 /\ made'[t] = made[t] /\ owed'[t] = owed[t]
      BY <1>0, <2>1, <2>4
    <3>2. Pending(t)' => Pending(t)
      BY <1>0, <2>1, <2>2, <2>4, PendingFades, HeldMoves, HeldStill
    <3>3. Ind(Pending(t)') <= Ind(Pending(t))
      BY <3>2 DEF Ind
    <3>4. "run" \notin Sending /\ "next" \notin Sending
      BY DEF Sending
    <3>5. CASE Moves(w, "run", u, {}, proc[w].seen)
      <4>1. Ind("run" = "run" /\ u = t) = 1 /\ Ind("run" \in Sending /\ t \in {}) = 0
        BY <2>4, <3>4 DEF Ind
      <4>2. Balance(t, Runs(proc[w], t), Sends(proc[w], t), "run" = "run" /\ u = t,
                    "run" \in Sending /\ t \in {})
        BY <1>2, <1>e, <2>1, <3>1, <3>3, <4>1 DEF Balance
      <4>3. QED
        BY <1>d, <2>1, <3>5, <4>2
    <3>6. CASE Moves(w, "next", NoId, {}, Idle.seen)
      <4>1. Ind("next" = "run" /\ NoId = t) = 0 /\ Ind("next" \in Sending /\ t \in {}) = 0
        BY <3>4 DEF Ind
      <4>2. Balance(t, Runs(proc[w], t), Sends(proc[w], t), "next" = "run" /\ NoId = t,
                    "next" \in Sending /\ t \in {})
        BY <1>2, <1>e, <2>1, <3>1, <3>3, <4>1 DEF Balance
      <4>3. QED
        BY <1>d, <2>1, <3>6, <4>2
    <3>7. CASE proc' = proc
      <4>1. Balance(t, FALSE, FALSE, FALSE, FALSE)
        BY <1>2, <1>e, <3>1, <3>3 DEF Balance, Ind
      <4>2. QED
        BY <1>0, <1>2, <3>7, <4>1, OwesStill
    <3>8. QED
      BY <2>2, <3>5, <3>6, <3>7
  <2>5. QED
    BY <2>3, <2>4
<1>17. ASSUME NEW p \in Procs, MakeTasks(p)
       PROVE  Owes(t)'
  <2>1. PICK pc \in {"made", "raised"} : Moves(p, pc, proc[p].id, proc[p].todo, proc[p].seen)
    BY <1>0, <1>17, MakeTasksDoes
  <2>2. /\ proc[p].pc = "run" /\ proc[p].id \in Schedules
        /\ made' = made \/ made' = [made EXCEPT ![proc[p].id] = @ + 1]
        /\ UNCHANGED <<row, owed, waiting>>
    BY <1>0, <1>17, MakeTasksDoes
  <2>3. pc # "run" /\ pc \notin Sending
    BY DEF Sending
  <2>4. CASE t # proc[p].id
    <3>1. Same
      BY <1>0, <2>2, <2>4
    <3>2. QED
      BY <1>b, <2>1, <2>2, <2>3, <2>4, <3>1
  <2>5. CASE t = proc[p].id
    <3>1. /\ made'[t] \in Nat /\ made'[t] <= made[t] + 1
          /\ waiting'[t] = waiting[t] /\ owed'[t] = owed[t] /\ Runs(proc[p], t)
      BY <1>0, <2>2, <2>5 DEF Runs
    <3>2. Pending(t)' => Pending(t)
      BY <1>0, <2>1, <2>2, PendingFades, HeldMoves
    <3>3. Ind(Pending(t)') <= Ind(Pending(t)) /\ Ind(Runs(proc[p], t)) = 1
          /\ Ind(pc = "run" /\ proc[p].id = t) = 0 /\ Ind(pc \in Sending /\ t \in proc[p].todo) = 0
      BY <2>3, <3>1, <3>2 DEF Ind
    <3>4. Balance(t, Runs(proc[p], t), Sends(proc[p], t), pc = "run" /\ proc[p].id = t,
                  pc \in Sending /\ t \in proc[p].todo)
      <4>1. Ind(Sends(proc[p], t)) \in {0, 1}
        BY <1>e
      <4>2. made'[t] + 0 + 0 + waiting'[t] + Ind(Pending(t)') + owed[t]
              <= made[t] + 1 + Ind(Sends(proc[p], t)) + waiting[t] + Ind(Pending(t)) + owed'[t]
        BY <1>2, <1>e, <3>1, <3>3, <4>1
      <4>3. QED
        BY <3>3, <4>2 DEF Balance
    <3>5. QED
      BY <1>d, <2>1, <3>4
  <2>6. QED
    BY <2>4, <2>5
<1>18. ASSUME NEW p \in Procs, Finish(p)
       PROVE  Owes(t)'
  <2>1. /\ Only(proc[p].id) /\ UNCHANGED <<owed, made, waiting>>
        /\ \/ p \in Runners /\ Moves(p, "due", NoId, proc[p].todo, proc[p].seen)
           \/ p \notin Runners /\ \E pc \in {"idle", "next"} : Moves(p, pc, NoId, {}, Idle.seen)
    BY <1>0, <1>18, FinishDoes
  <2>2. \/ row' = row
        \/ /\ row'[proc[p].id].status \in {"failed", "completed", "idle", "disabled"}
           /\ row'[proc[p].id].due = (row[proc[p].id].due /\ proc[p].id \notin Crawls)
    BY <1>0, <1>18, FinishDoes
  <2>3. (row'[t].due => row[t].due) /\ (row'[t].status = "queued" => row[t].status = "queued")
    BY <2>1, <2>2 DEF Only
  <2>4. Same
    BY <2>1
  <2>5. QED
    BY <1>c, <2>1, <2>3, <2>4
<1>19. ASSUME NEW p \in Procs, ReadQueue(p)
       PROVE  Owes(t)'
  <2>1. Moves(p, "read", NoId, {}, row) /\ UNCHANGED <<row, owed, made, waiting>>
    BY <1>0, <1>19, ReadQueueDoes
  <2>2. QED
    BY <1>c, <2>1
<1>20a. ASSUME NEW p \in Procs, DispatchQueued(p)
        PROVE  Owes(t)'
  <2>1. /\ proc[p].pc = "read" /\ UNCHANGED <<owed, made, waiting>>
        /\ \E chosen \in SUBSET Eligible(p) :
             /\ Restatused(chosen, "idle")
             /\ \E pc \in {"idle", "enqueue"} : Moves(p, pc, NoId, chosen, Idle.seen)
    BY <1>0, <1>20a, DispatchQueuedDoes
  <2>2. PICK chosen \in SUBSET Eligible(p) :
          /\ Restatused(chosen, "idle")
          /\ \E pc \in {"idle", "enqueue"} : Moves(p, pc, NoId, chosen, Idle.seen)
    BY <2>1
  <2>3. PICK pc \in {"idle", "enqueue"} : Moves(p, pc, NoId, chosen, Idle.seen)
    BY <2>2
  <2>4. Same
    BY <2>1
  <2>5. CASE t \notin chosen
    BY <1>b, <2>2, <2>3, <2>4, <2>5 DEF Restatused
  <2>6. CASE t \in chosen
    <3>1. t \in Manual /\ Knows(p, t) /\ proc[p].seen[t].status = "queued" /\ proc[p].seen[t].due
          /\ row[t].status # "deleted"
      BY <2>1, <2>6 DEF Eligible, Exists, OnceInv, QueueInv, ReadInv
    <3>2. Pending(t)
      BY <3>1 DEF Knows, Pending
    <3>3. row'[t].status = "idle"
      BY <2>2, <2>6 DEF Restatused
    <3>4. ~Pending(t)'
      BY <1>3, <1>4, <3>1, <3>3
    <3>5. Ind(Pending(t)) = 1 /\ Ind(Pending(t)') = 0 /\ Ind(pc = "run" /\ NoId = t) = 0
          /\ Ind(pc \in Sending /\ t \in chosen) \in {0, 1}
      BY <3>2, <3>4 DEF Ind
    <3>6. Balance(t, Runs(proc[p], t), Sends(proc[p], t), pc = "run" /\ NoId = t,
                  pc \in Sending /\ t \in chosen)
      BY <1>2, <1>e, <2>4, <3>5 DEF Balance
    <3>7. QED
      BY <1>d, <2>3, <3>6
  <2>7. QED
    BY <2>5, <2>6
<1>21. ASSUME NEW p \in Procs, NEW u \in Schedules, Enqueue(p, u)
       PROVE  Owes(t)'
  <2>1. PICK pc \in {"idle", proc[p].pc} :
          /\ Moves(p, pc, proc[p].id, proc[p].todo \ {u}, proc[p].seen)
          /\ pc = "idle" => proc[p].todo \ {u} = {}
    BY <1>0, <1>21, EnqueueDoes
  <2>2. proc[p].pc \in Sending /\ u \in proc[p].todo
    BY <1>0, <1>21, EnqueueDoes
  <2>3. pc # "run" /\ (pc \in Sending => pc = proc[p].pc)
    BY <2>1, <2>2 DEF Sending
  <2>4. (row' = row \/ Restatused({u}, "failed")) /\ UNCHANGED <<owed, made>>
    BY <1>0, <1>21, EnqueueDoes
  <2>5. waiting' = waiting \/ waiting' = [waiting EXCEPT ![u] = @ + 1]
    BY <1>0, <1>21, EnqueueDoes
  <2>6. (row'[t].due => row[t].due) /\ (row'[t].status = "queued" => row[t].status = "queued")
    BY <2>4 DEF Restatused
  <2>7. CASE t # u
    <3>1. Same
      BY <1>0, <2>4, <2>5, <2>7
    <3>2. QED
      BY <1>b, <2>1, <2>3, <2>6, <3>1 DEF Sends
  <2>8. CASE t = u
    <3>1. waiting'[t] \in {waiting[t], waiting[t] + 1} /\ made'[t] = made[t] /\ owed'[t] = owed[t]
      BY <1>0, <2>4, <2>5, <2>8
    <3>2. Pending(t)' => Pending(t)
      BY <1>0, <2>1, <2>6, PendingFades, HeldMoves
    <3>3. Sends(proc[p], t)
      BY <2>2, <2>8 DEF Sends
    <3>4. Ind(Pending(t)') <= Ind(Pending(t)) /\ Ind(Sends(proc[p], t)) = 1
          /\ Ind(pc = "run" /\ proc[p].id = t) = 0
          /\ Ind(pc \in Sending /\ t \in proc[p].todo \ {u}) = 0
      BY <2>3, <2>8, <3>2, <3>3 DEF Ind
    <3>5. Balance(t, Runs(proc[p], t), Sends(proc[p], t), pc = "run" /\ proc[p].id = t,
                  pc \in Sending /\ t \in proc[p].todo \ {u})
      BY <1>2, <1>e, <3>1, <3>4 DEF Balance
    <3>6. QED
      BY <1>d, <2>1, <3>5
  <2>9. QED
    BY <2>7, <2>8
<1>22. CASE Reconcile
  <2>1. Restatused(Interrupted, "failed") /\ UNCHANGED <<owed, made, waiting, proc>>
    BY <1>0, <1>22, ReconcileDoes
  <2>2. QED
    BY <1>a, <2>1 DEF Restatused
<1>23. ASSUME NEW r \in Runners, TickCrawls(r)
       PROVE  Owes(t)'
  <2>1. PICK batch \in SUBSET {c \in Crawls : row[c].enabled /\ row[c].due /\ row[c].status # "running"} :
          row' = Send(batch, {}) /\ Moves(r, "crawls", NoId, batch, Idle.seen)
    BY <1>0, <1>23, TickCrawlsDoes
  <2>2. r \in Procs /\ UNCHANGED <<owed, made, waiting>>
    BY <1>0, <1>23, TickCrawlsDoes
  <2>3. /\ batch \in SUBSET Crawls
        /\ t \in batch => ~row'[t].due
        /\ t \notin batch => row'[t].due = row[t].due
        /\ t \in Manual => row'[t].status = row[t].status
    <3>1. batch \in SUBSET Crawls /\ {} \in SUBSET Crawls
      BY <2>1
    <3>2. (t \in batch => ~row'[t].due) /\ (t \notin batch \cup {} => row'[t].due = row[t].due)
      BY <1>0, <2>1, SendDue
    <3>3. QED
      BY <1>0, <2>1, <3>1, <3>2, SendLeaves
  <2>4. Same
    BY <2>2
  <2>5. CASE t \notin batch
    BY <1>b, <2>1, <2>2, <2>3, <2>4, <2>5
  <2>6. CASE t \in batch
    <3>1. t \in Crawls /\ Pending(t) /\ ~row'[t].due
      BY <2>1, <2>3, <2>6 DEF Pending
    <3>2. ~Pending(t)'
      BY <1>3, <1>4, <3>1
    <3>3. Ind(Pending(t)) = 1 /\ Ind(Pending(t)') = 0 /\ Ind("crawls" = "run" /\ NoId = t) = 0
          /\ Ind("crawls" \in Sending /\ t \in batch) \in {0, 1}
      BY <3>1, <3>2 DEF Ind
    <3>4. Balance(t, Runs(proc[r], t), Sends(proc[r], t), "crawls" = "run" /\ NoId = t,
                  "crawls" \in Sending /\ t \in batch)
      BY <1>2, <1>e, <2>2, <2>4, <3>3 DEF Balance
    <3>5. QED
      BY <1>d, <2>1, <2>2, <3>4
  <2>7. QED
    BY <2>5, <2>6
<1>24. ASSUME NEW a \in Requests, RunAllNow(a)
       PROVE  Owes(t)'
  <2>1. PICK some \in SUBSET Crawls :
          /\ owed' = [c \in Schedules |-> IF c \in some THEN owed[c] + 1 ELSE owed[c]]
          /\ \E batch \in SUBSET some :
               row' = Send(batch, some) /\ Moves(a, "crawls", NoId, batch, Idle.seen)
    BY <1>0, <1>24, RunAllNowDoes
  <2>2. PICK batch \in SUBSET some :
          row' = Send(batch, some) /\ Moves(a, "crawls", NoId, batch, Idle.seen)
    BY <2>1
  <2>3. a \in Procs /\ a \notin Runners /\ UNCHANGED <<made, waiting>>
    BY <1>0, <1>24, RunAllNowDoes, RunnersApart
  <2>4. (t \in batch => ~row'[t].due) /\ (t \notin batch \cup some => row'[t].due = row[t].due)
    <3>1. TypedInv /\ row' = Send(batch, some)
      BY <1>0, <2>2
    <3>2. QED
      BY <3>1, SendDue
  <2>5. t \in Manual => row'[t].status = row[t].status
    BY <1>0, <2>1, <2>2, SendLeaves
  <2>6. CASE t \notin some
    <3>1. Same /\ t \notin batch
      BY <2>1, <2>2, <2>3, <2>6
    <3>2. QED
      BY <1>b, <2>2, <2>3, <2>4, <2>5, <2>6, <3>1
  <2>7. CASE t \in some
    <3>1. owed'[t] = owed[t] + 1 /\ made'[t] = made[t] /\ waiting'[t] = waiting[t] /\ t \in Crawls
      BY <2>1, <2>3, <2>7
    <3>2. Ind("crawls" = "run" /\ NoId = t) = 0
      BY DEF Ind
    <3>3. CASE t \in batch
      <4>1. ~Pending(t)'
        BY <1>3, <1>4, <2>4, <3>1, <3>3
      <4>2. Ind(Pending(t)') = 0 /\ Ind("crawls" \in Sending /\ t \in batch) \in {0, 1}
        BY <4>1 DEF Ind
      <4>3. Balance(t, Runs(proc[a], t), Sends(proc[a], t), "crawls" = "run" /\ NoId = t,
                    "crawls" \in Sending /\ t \in batch)
        BY <1>2, <1>e, <2>3, <3>1, <3>2, <4>2 DEF Balance
      <4>4. QED
        BY <1>d, <2>2, <2>3, <4>3
    <3>4. CASE t \notin batch
      <4>1. Ind("crawls" \in Sending /\ t \in batch) = 0
        BY <3>4 DEF Ind
      <4>2. Balance(t, Runs(proc[a], t), Sends(proc[a], t), "crawls" = "run" /\ NoId = t,
                    "crawls" \in Sending /\ t \in batch)
        BY <1>2, <1>e, <2>3, <3>1, <3>2, <4>1 DEF Balance
      <4>3. QED
        BY <1>d, <2>2, <2>3, <4>2
    <3>5. QED
      BY <3>3, <3>4
  <2>8. QED
    BY <2>6, <2>7
<1>25. ASSUME NEW r \in Runners, ReadDue(r)
       PROVE  Owes(t)'
  <2>1. /\ r \in Procs /\ UNCHANGED <<owed, made, waiting>>
        /\ \E over \in SUBSET Orphans : Restatused(over, "failed")
        /\ \E batch \in SUBSET {c \in Autos : row[c].enabled /\ row[c].due /\ row[c].status # "running"} :
             Moves(r, "due", NoId, batch, proc[r].seen)
    BY <1>0, <1>25, ReadDueDoes
  <2>2. PICK batch \in SUBSET {c \in Autos : row[c].enabled /\ row[c].due /\ row[c].status # "running"} :
          Moves(r, "due", NoId, batch, proc[r].seen)
    BY <2>1
  <2>3. (row'[t].due => row[t].due) /\ (row'[t].status = "queued" => row[t].status = "queued") /\ Same
    BY <2>1 DEF Restatused
  <2>4. CASE t \notin batch
    BY <1>c, <2>1, <2>2, <2>3, <2>4
  <2>5. CASE t \in batch
    <3>1. Pending(t)
      BY <2>2, <2>5 DEF Pending
    <3>2. "due" # "run" /\ "due" \notin Sending
      BY DEF Sending
    <3>3. QED
      BY <1>0, <1>2, <2>1, <2>2, <2>3, <3>1, <3>2, QuietMoves
  <2>6. QED
    BY <2>4, <2>5
<1>26. ASSUME NEW r \in Runners, NEW u \in Schedules, ExecuteDue(r, u)
       PROVE  Owes(t)'
  <2>1. /\ r \in Procs /\ proc[r].pc = "due" /\ u \in proc[r].todo /\ u \in Autos /\ Only(u)
        /\ UNCHANGED <<owed, made, waiting>>
    BY <1>0, <1>26, ExecuteDueDoes
  <2>2. \/ /\ row'[u].due = (row[u].due /\ ~row[u].enabled)
           /\ Moves(r, "run", u, proc[r].todo \ {u}, proc[r].seen)
        \/ row' = row /\ Moves(r, "due", NoId, proc[r].todo \ {u}, proc[r].seen)
    BY <1>0, <1>26, ExecuteDueDoes
  <2>3. Same
    BY <2>1
  <2>4. CASE t # u
    <3>1. row'[t] = row[t]
      BY <2>1, <2>4 DEF Only
    <3>2. "run" \notin Sending
      BY DEF Sending
    <3>3. QED
      BY <1>b, <1>c, <2>1, <2>2, <2>3, <2>4, <3>1, <3>2
  <2>5. CASE t = u
    <3>1. Pending(t)
      BY <2>1, <2>5 DEF Pending, Held
    <3>2. CASE row' = row /\ Moves(r, "due", NoId, proc[r].todo \ {u}, proc[r].seen)
      BY <1>c, <2>1, <2>3, <3>2
    <3>3. CASE /\ row'[u].due = (row[u].due /\ ~row[u].enabled)
               /\ Moves(r, "run", u, proc[r].todo \ {u}, proc[r].seen)
      <4>1. ~row'[t].due
        BY <2>1, <2>5, <3>3 DEF OnceInv, RoundInv, DueOn
      <4>2. \A q \in Runners \ {r} : q \in Procs /\ proc[q].pc = "idle" /\ proc[q].todo = {}
        <5>1. TAKE q \in Runners \ {r}
        <5>2. q \in Procs /\ proc[q].pc = "idle"
          BY <2>1 DEF OnceInv, RoundInv, OneRound, Procs
        <5>3. QED
          BY <1>0, <5>2, HandFacts DEF HandOK, Fits
      <4>3. ~Held(t)'
        BY <2>5, <3>3, <4>2 DEF Held, Moves, Has
      <4>4. ~Pending(t)'
        BY <1>3, <1>4, <2>1, <2>5, <4>1, <4>3
      <4>5. "run" \notin Sending
        BY DEF Sending
      <4>6. Ind(Pending(t)) = 1 /\ Ind(Pending(t)') = 0 /\ Ind("run" = "run" /\ u = t) \in {0, 1}
            /\ Ind("run" \in Sending /\ t \in proc[r].todo \ {u}) = 0
        BY <3>1, <4>4, <4>5 DEF Ind
      <4>7. Balance(t, Runs(proc[r], t), Sends(proc[r], t), "run" = "run" /\ u = t,
                    "run" \in Sending /\ t \in proc[r].todo \ {u})
        BY <1>2, <1>e, <2>1, <2>3, <4>6 DEF Balance
      <4>8. QED
        BY <1>d, <2>1, <3>3, <4>7
    <3>4. QED
      BY <2>2, <3>2, <3>3
  <2>6. QED
    BY <2>4, <2>5
<1>27. ASSUME NEW r \in Runners, EndDue(r)
       PROVE  Owes(t)'
  <2>1. r \in Procs /\ Moves(r, "next", NoId, {}, Idle.seen) /\ UNCHANGED <<row, owed, made, waiting>>
    BY <1>0, <1>27, EndDueDoes
  <2>2. QED
    BY <1>c, <2>1
<1>28. ASSUME NEW p \in Procs, Crash(p)
       PROVE  Owes(t)'
  <2>1. Moves(p, "idle", NoId, {}, Idle.seen) /\ UNCHANGED <<row, owed, made, waiting>>
    BY <1>0, <1>28, CrashDoes
  <2>2. QED
    BY <1>c, <2>1
<1>29. ASSUME NEW u \in Schedules, Abandon(u)
       PROVE  Owes(t)'
  BY <1>29, <1>a DEF Abandon
<1>30. QED
  BY <1>20, <1>11, <1>12, <1>13, <1>14, <1>15, <1>16, <1>17, <1>18, <1>19, <1>20a, <1>21, <1>22,
     <1>23, <1>24, <1>25, <1>26, <1>27, <1>28, <1>29 DEF SchedNext

(* RunsOnce: what comes due once, or is asked for once, creates its tasks    *)
(* once at most, whichever process executes it and whatever crashes, while   *)
(* one runner has its round at a time and the queue is kept as above.        *)
THEOREM DueRunsOnce == OnceKept => (SchedSpec => []RunsOnce)
<1> SUFFICES ASSUME OnceKept
             PROVE  SchedSpec => []RunsOnce
  OBVIOUS
<1>1. SchedInit => OnceInv
  BY OnceInit
<1>2. OnceInv /\ [SchedNext]_schedVars => OnceInv'
  BY QueueStep, RoundStep, OwesStep DEF OnceInv, OnceKept
<1>3. OnceInv => RunsOnce
  <2>1. SUFFICES ASSUME OnceInv, NEW t \in Schedules
                 PROVE  made[t] <= owed[t]
    BY DEF RunsOnce
  <2>2. Owes(t) /\ made[t] \in Nat /\ waiting[t] \in Nat /\ owed[t] \in Nat
    BY <2>1 DEF OnceInv, OwesInv, QueueInv, TypedInv, RowsOK
  <2>3. Cardinality(Executed(t)) \in Nat /\ Cardinality(About(t)) \in Nat
    BY FiniteHands, FS_CardinalityType
  <2>4. QED
    BY <2>2, <2>3 DEF Owes, Ind
<1>4. QED
  BY <1>1, <1>2, <1>3, PTL DEF SchedSpec

-----------------------------------------------------------------------------
(* Each part of the run of listing tasks is an instance of ListingTasks, of *)
(* which its theorems speak.                                                *)
LEMMA OverlapListings ==
  ListingsSpec => /\ [](part = "overlap" => /\ Overlap!TypeOK /\ Overlap!RunningFits /\ Overlap!OneLister
                                     /\ Overlap!NothingForgotten /\ Overlap!SuccessIsListed)
              /\ [][part = "overlap" => Overlap!StaysCancelled]_<<part, memory>>
<1>1. ListingsInit /\ part = "overlap" => Overlap!Init
  BY DEF ListingsInit
<1>2. part = "overlap" /\ [ListingsNext]_<<part, memory>> => [Overlap!Next]_Overlap!vars
  BY DEF ListingsNext, Overlap!vars, memory
<1>3. [ListingsNext]_<<part, memory>> => ((part = "overlap")' <=> part = "overlap")
  BY DEF ListingsNext
<1>4. Overlap!Spec => [](Overlap!TypeOK /\ Overlap!RunningFits /\ Overlap!OneLister
                     /\ Overlap!NothingForgotten /\ Overlap!SuccessIsListed) /\ Overlap!CancelSticks
  <2>1. Overlap!Spec => []Overlap!TypeOK
    BY ListingsAssumption, Overlap!ListingTyping
  <2>2. Overlap!Spec => []Overlap!RunningFits
    BY ListingsAssumption, Overlap!RunningTasksFit
  <2>3. Overlap!Spec => []Overlap!OneLister
    <3>1. \A t, u \in 1..2 : t # u /\ OneProduct[t] \cap OneProduct[u] # {} =>
            /\ OneOwner[t] = OneOwner[u]
            /\ NoGroups[t] = NoGroup \/ NoGroups[t] # NoGroups[u]
      BY ListingsAssumption DEF OneOwner, OneProduct, NoGroups
    <3>2. QED
      BY ListingsAssumption, <3>1, Overlap!ProductHasOneLister DEF Overlap!Tasks
  <2>4. Overlap!Spec => []Overlap!NothingForgotten
    BY ListingsAssumption, Overlap!NoProductForgotten
  <2>5. Overlap!Spec => []Overlap!SuccessIsListed
    BY ListingsAssumption, Overlap!ReportedIsListed
  <2>6. Overlap!Spec => Overlap!CancelSticks
    BY ListingsAssumption, Overlap!CancellationLasts
  <2>7. QED
    BY <2>1, <2>2, <2>3, <2>4, <2>5, <2>6, PTL
<1>5. part = "overlap" /\ [ListingsNext]_<<part, memory>> /\ [Overlap!StaysCancelled]_Overlap!vars
        => [part = "overlap" => Overlap!StaysCancelled]_<<part, memory>>
  BY DEF ListingsNext, Overlap!vars, memory
<1>6. QED
  BY <1>1, <1>2, <1>3, <1>4, <1>5, PTL DEF ListingsSpec, Overlap!Spec, Overlap!CancelSticks

LEMMA GroupsListings ==
  ListingsSpec => /\ [](part = "groups" => /\ Groups!TypeOK /\ Groups!RunningFits /\ Groups!OneLister
                                     /\ Groups!NothingForgotten /\ Groups!SuccessIsListed)
              /\ [][part = "groups" => Groups!StaysCancelled]_<<part, memory>>
<1>1. ListingsInit /\ part = "groups" => Groups!Init
  BY DEF ListingsInit
<1>2. part = "groups" /\ [ListingsNext]_<<part, memory>> => [Groups!Next]_Groups!vars
  BY DEF ListingsNext, Groups!vars, memory
<1>3. [ListingsNext]_<<part, memory>> => ((part = "groups")' <=> part = "groups")
  BY DEF ListingsNext
<1>4. Groups!Spec => [](Groups!TypeOK /\ Groups!RunningFits /\ Groups!OneLister
                     /\ Groups!NothingForgotten /\ Groups!SuccessIsListed) /\ Groups!CancelSticks
  <2>1. Groups!Spec => []Groups!TypeOK
    BY ListingsAssumption, Groups!ListingTyping
  <2>2. Groups!Spec => []Groups!RunningFits
    BY ListingsAssumption, Groups!RunningTasksFit
  <2>3. Groups!Spec => []Groups!OneLister
    <3>1. \A t, u \in 1..2 : t # u /\ OneEach[t] \cap OneEach[u] # {} =>
            /\ OneOwner[t] = OneOwner[u]
            /\ OneGroup[t] = NoGroup \/ OneGroup[t] # OneGroup[u]
      BY ListingsAssumption DEF OneOwner, OneEach, OneGroup
    <3>2. QED
      BY ListingsAssumption, <3>1, Groups!ProductHasOneLister DEF Groups!Tasks
  <2>4. Groups!Spec => []Groups!NothingForgotten
    BY ListingsAssumption, Groups!NoProductForgotten
  <2>5. Groups!Spec => []Groups!SuccessIsListed
    BY ListingsAssumption, Groups!ReportedIsListed
  <2>6. Groups!Spec => Groups!CancelSticks
    BY ListingsAssumption, Groups!CancellationLasts
  <2>7. QED
    BY <2>1, <2>2, <2>3, <2>4, <2>5, <2>6, PTL
<1>5. part = "groups" /\ [ListingsNext]_<<part, memory>> /\ [Groups!StaysCancelled]_Groups!vars
        => [part = "groups" => Groups!StaysCancelled]_<<part, memory>>
  BY DEF ListingsNext, Groups!vars, memory
<1>6. QED
  BY <1>1, <1>2, <1>3, <1>4, <1>5, PTL DEF ListingsSpec, Groups!Spec, Groups!CancelSticks

LEMMA ResultsListings ==
  ListingsSpec => /\ [](part = "results" => /\ Results!TypeOK /\ Results!RunningFits /\ Results!OneLister
                                     /\ Results!NothingForgotten /\ Results!SuccessIsListed)
              /\ [][part = "results" => Results!StaysCancelled]_<<part, memory>>
<1>1. ListingsInit /\ part = "results" => Results!Init
  BY DEF ListingsInit
<1>2. part = "results" /\ [ListingsNext]_<<part, memory>> => [Results!Next]_Results!vars
  BY DEF ListingsNext, Results!vars, memory
<1>3. [ListingsNext]_<<part, memory>> => ((part = "results")' <=> part = "results")
  BY DEF ListingsNext
<1>4. Results!Spec => [](Results!TypeOK /\ Results!RunningFits /\ Results!OneLister
                     /\ Results!NothingForgotten /\ Results!SuccessIsListed) /\ Results!CancelSticks
  <2>1. Results!Spec => []Results!TypeOK
    BY ListingsAssumption, Results!ListingTyping
  <2>2. Results!Spec => []Results!RunningFits
    BY ListingsAssumption, Results!RunningTasksFit
  <2>3. Results!Spec => []Results!OneLister
    BY ListingsAssumption, Results!ProductHasOneLister DEF Results!Tasks
  <2>4. Results!Spec => []Results!NothingForgotten
    BY ListingsAssumption, Results!NoProductForgotten
  <2>5. Results!Spec => []Results!SuccessIsListed
    BY ListingsAssumption, Results!ReportedIsListed
  <2>6. Results!Spec => Results!CancelSticks
    BY ListingsAssumption, Results!CancellationLasts
  <2>7. QED
    BY <2>1, <2>2, <2>3, <2>4, <2>5, <2>6, PTL
<1>5. part = "results" /\ [ListingsNext]_<<part, memory>> /\ [Results!StaysCancelled]_Results!vars
        => [part = "results" => Results!StaysCancelled]_<<part, memory>>
  BY DEF ListingsNext, Results!vars, memory
<1>6. QED
  BY <1>1, <1>2, <1>3, <1>4, <1>5, PTL DEF ListingsSpec, Results!Spec, Results!CancelSticks

(* run_listing_product_attempt, as the run checks it: no two workers list   *)
(* one product at a time, in any of the three instances.                    *)
THEOREM ListingsOnce == ListingsSpec => []OneLister
<1>1. /\ part = "overlap" => Overlap!OneLister
      /\ part = "groups" => Groups!OneLister
      /\ part = "results" => Results!OneLister
      => OneLister
  BY DEF OneLister
<1>2. QED
  BY <1>1, OverlapListings, GroupsListings, ResultsListings, PTL

(* listing_task_start_wait_reason, as the run checks it: every variable     *)
(* holds values of its kind, and the running tasks keep to the limits.      *)
THEOREM ListingLimits == ListingsSpec => []LimitsKept
<1>1. /\ part = "overlap" => Overlap!TypeOK /\ Overlap!RunningFits
      /\ part = "groups" => Groups!TypeOK /\ Groups!RunningFits
      /\ part = "results" => Results!TypeOK /\ Results!RunningFits
      => LimitsKept
  BY DEF LimitsKept
<1>2. QED
  BY <1>1, OverlapListings, GroupsListings, ResultsListings, PTL

(* _run_listing_task, as the run checks it: a crashed or retried            *)
(* task takes up every product it has not listed, and reports as listed     *)
(* what is listed in some store.                                            *)
THEOREM ListingsForgetNothing == ListingsSpec => []ProductsKept
<1>1. /\ part = "overlap" => Overlap!NothingForgotten /\ Overlap!SuccessIsListed
      /\ part = "groups" => Groups!NothingForgotten /\ Groups!SuccessIsListed
      /\ part = "results" => Results!NothingForgotten /\ Results!SuccessIsListed
      => ProductsKept
  BY DEF ProductsKept
<1>2. QED
  BY <1>1, OverlapListings, GroupsListings, ResultsListings, PTL

(* request_task_cancel, as the run checks it: a cancelled task stays        *)
(* cancelled until its owner retries or deletes it.                         *)
THEOREM ListingsStayCancelled == ListingsSpec => CancelSticks
<1>1. [part = "overlap" => Overlap!StaysCancelled]_<<part, memory>>
      /\ [part = "groups" => Groups!StaysCancelled]_<<part, memory>>
      /\ [part = "results" => Results!StaysCancelled]_<<part, memory>>
      => [/\ part = "overlap" => Overlap!StaysCancelled
          /\ part = "groups" => Groups!StaysCancelled
          /\ part = "results" => Results!StaysCancelled]_<<part, memory>>
  OBVIOUS
<1>2. QED
  BY <1>1, OverlapListings, GroupsListings, ResultsListings, PTL DEF CancelSticks
=============================================================================
