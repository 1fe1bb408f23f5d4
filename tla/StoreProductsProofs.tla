------------------------ MODULE StoreProductsProofs ------------------------
(***************************************************************************)
(* Proofs about StoreProducts, for every set of products, stores, workers  *)
(* and replacements: a mark of a product stands for a row of the store,    *)
(* items that are shown have their images, and a store sync leaves the     *)
(* rows of its store as Rakuten is.                                        *)
(***************************************************************************)
EXTENDS StoreProducts, TLAPS

-----------------------------------------------------------------------------
(* The types. *)

Kinds == {"none", "list", "swap", "delete", "sync"}
Places == {"idle", "upload", "put", "call", "fetch", "commit"}
SwapStates == {"none", "ready", "queued", "running", "done", "failed", "cancelled"}
Parents == Masters \cup {NoMaster}

WorkRows == [kind : Kinds, pc : Places, item : Items, who : Parents \cup Swaps,
             marks : [Masters -> SUBSET Stores], parents : [Items -> Parents],
             got : SUBSET Items]
SwapRows == [state : SwapStates, draft : Parents, target : Items]

(* What a task is about exists: the product of a listing, the task and the  *)
(* pending product of a replacement.                                        *)
TypedInv ==
  /\ day \in 1..MaxDays
  /\ master \in [Masters -> MasterRows] /\ row \in [Items -> ItemRows]
  /\ live \subseteq Items /\ files \subseteq Items /\ trash \subseteq Items
  /\ swap \in [Swaps -> SwapRows] /\ work \in [Procs -> WorkRows]
  /\ \A p \in Procs : /\ work[p].kind = "list" => work[p].who \in Masters
                      /\ work[p].kind = "swap" =>
                           work[p].who \in Swaps /\ swap[work[p].who].state # "none"
  /\ \A q \in Swaps : swap[q].state # "none" => swap[q].draft \in Masters

(* The parts of a manage number. *)
LEMMA ItemParts ==
  ASSUME TypedInv, NEW m \in Masters, NEW s \in Stores
  PROVE  NumberFor(m, s) \in Items /\ StoreOf(NumberFor(m, s)) = s /\ NumberFor(m, s)[1] = CodeOf[m]
  BY DEF TypedInv, NumberFor, Items, StoreOf

LEMMA StoreOfItem == \A i \in Items : StoreOf(i) \in Stores
  BY DEF Items, StoreOf

LEMMA FirstIsItem ==
  ASSUME ProductConstants
  PROVE  FirstItem \in Items
<1>1. PICK m \in Masters, s \in Stores : TRUE
  BY DEF ProductConstants
<1>2. <<CodeOf[m], s, 1>> \in Items
  BY DEF ProductConstants, Items
<1>3. QED
  BY <1>2 DEF FirstItem

LEMMA RestTyped ==
  ASSUME ProductConstants
  PROVE  /\ Rest \in WorkRows /\ Rest.kind = "none" /\ Rest.pc = "idle"
         /\ NoSwap \in SwapRows /\ NoSwap.state = "none"
         /\ NoRow \in ItemRows /\ NoRow.status = "none" /\ NoRow.parent = NoMaster
<1>1. FirstItem \in Items
  BY FirstIsItem
<1> DEFINE marks == [m \in Masters |-> {}]
           parents == [i \in Items |-> NoMaster]
<1>2. marks \in [Masters -> SUBSET Stores] /\ parents \in [Items -> Parents]
  BY DEF Parents
<1>3. Rest \in WorkRows /\ Rest.kind = "none" /\ Rest.pc = "idle"
  <2>1. NoMaster \in Parents \cup Swaps
    BY DEF Parents
  <2>2. Rest = [kind |-> "none", pc |-> "idle", item |-> FirstItem, who |-> NoMaster,
                marks |-> marks, parents |-> parents, got |-> {}]
    BY DEF Rest
  <2> HIDE DEF marks, parents
  <2>3. QED
    BY <1>1, <1>2, <2>1, <2>2 DEF WorkRows, Kinds, Places
<1>4. NoSwap \in SwapRows /\ NoSwap.state = "none"
  BY <1>1 DEF NoSwap, SwapRows, SwapStates, Parents
<1>5. NoRow \in ItemRows /\ NoRow.status = "none" /\ NoRow.parent = NoMaster
  BY DEF NoRow, ItemRows
<1>6. QED
  BY <1>3, <1>4, <1>5

LEMMA InitTyped ==
  ASSUME ProductConstants
  PROVE  Init => TypedInv
<1> SUFFICES ASSUME Init PROVE TypedInv
  OBVIOUS
<1>1. day \in 1..MaxDays
  BY DEF Init, ProductConstants
<1>2. master \in [Masters -> MasterRows]
  BY DEF Init, MasterRows
<1>3. row \in [Items -> ItemRows] /\ swap \in [Swaps -> SwapRows] /\ work \in [Procs -> WorkRows]
  BY RestTyped DEF Init
<1>4. \A p \in Procs : work[p].kind = "none"
  BY RestTyped DEF Init
<1>5. \A q \in Swaps : swap[q].state = "none"
  BY RestTyped DEF Init
<1>6. QED
  BY <1>1, <1>2, <1>3, <1>4, <1>5 DEF TypedInv, Init

(* The records of the workers, when one of them changes. *)
LEMMA WorkTyped ==
  ASSUME TypedInv, NEW p \in Procs, NEW w \in WorkRows, work' = [work EXCEPT ![p] = w],
         w.kind = "list" => w.who \in Masters,
         w.kind = "swap" => w.who \in Swaps /\ swap'[w.who].state # "none",
         \A q \in Swaps : swap[q].state # "none" => swap'[q].state # "none"
  PROVE  /\ work' \in [Procs -> WorkRows]
         /\ \A q \in Procs : /\ work'[q].kind = "list" => work'[q].who \in Masters
                             /\ work'[q].kind = "swap" =>
                                  work'[q].who \in Swaps /\ swap'[work'[q].who].state # "none"
  BY DEF TypedInv

(* Reading marks and parents. *)
LEMMA ReadTyped ==
  ASSUME TypedInv, NEW ms
  PROVE  /\ Read(ms) \in [Masters -> SUBSET Stores]
         /\ \A m \in Masters : m \in ms => Read(ms)[m] = master[m].marks
<1>1. \A m \in Masters : master[m].marks \in SUBSET Stores
  BY DEF TypedInv, MasterRows
<1>2. QED
  BY <1>1 DEF Read

(* The record of a task that begins, and its fields. *)
ListTask(m, s) == [Rest EXCEPT !.kind = "list", !.pc = "upload", !.item = NumberFor(m, s),
                       !.who = m, !.marks = Read({m})]
SwapTask(q, i) == [Rest EXCEPT !.kind = "swap", !.pc = "upload", !.item = i, !.who = q,
                       !.parents = [Rest.parents EXCEPT ![i] = row[i].parent]]
DeleteTask(i) == [Rest EXCEPT !.kind = "delete", !.pc = "call", !.item = i,
                       !.marks = Read({row[i].parent}),
                       !.parents = [Rest.parents EXCEPT ![i] = row[i].parent]]
SyncTask(s, i) == [Rest EXCEPT !.kind = "sync", !.pc = "fetch", !.item = i,
                       !.marks = Read({row[j].parent : j \in RowsIn(s)}),
                       !.parents = [j \in Items |-> IF j \in RowsIn(s)
                                                    THEN row[j].parent ELSE NoMaster]]

LEMMA ListRecord ==
  ASSUME ProductConstants, TypedInv, NEW m \in Masters, NEW s \in Stores, NEW w,
         w = ListTask(m, s)
  PROVE  /\ w \in WorkRows /\ w.kind = "list" /\ w.pc = "upload"
         /\ w.item = NumberFor(m, s) /\ w.who = m /\ w.marks[m] = master[m].marks
<1> DEFINE read == Read({m})
<1>1. /\ NumberFor(m, s) \in Items /\ m \in Parents \cup Swaps
      /\ read \in [Masters -> SUBSET Stores] /\ read[m] = master[m].marks
  BY ItemParts, ReadTyped DEF Parents
<1>2. w = [Rest EXCEPT !.kind = "list", !.pc = "upload", !.item = NumberFor(m, s),
                       !.who = m, !.marks = read]
  BY DEF ListTask
<1> HIDE DEF read
<1>3. QED
  BY <1>1, <1>2, RestTyped DEF WorkRows, Kinds, Places

LEMMA SwapRecord ==
  ASSUME ProductConstants, TypedInv, NEW q \in Swaps, NEW i \in Items, NEW w,
         w = SwapTask(q, i)
  PROVE  /\ w \in WorkRows /\ w.kind = "swap" /\ w.pc = "upload"
         /\ w.item = i /\ w.who = q /\ w.parents[i] = row[i].parent
<1>1. row[i].parent \in Parents
  BY DEF TypedInv, ItemRows, Parents
<1>2. /\ [Rest.parents EXCEPT ![i] = row[i].parent] \in [Items -> Parents]
      /\ [Rest.parents EXCEPT ![i] = row[i].parent][i] = row[i].parent
  BY <1>1, RestTyped DEF WorkRows
<1>3. QED
  BY <1>2, RestTyped DEF SwapTask, WorkRows, Kinds, Places

LEMMA DeleteRecord ==
  ASSUME ProductConstants, TypedInv, NEW i \in Items, NEW w,
         w = DeleteTask(i)
  PROVE  /\ w \in WorkRows /\ w.kind = "delete" /\ w.pc = "call" /\ w.item = i
         /\ w.parents[i] = row[i].parent
         /\ row[i].parent \in Masters => w.marks[row[i].parent] = master[row[i].parent].marks
<1> DEFINE read == Read({row[i].parent})
           parents == [Rest.parents EXCEPT ![i] = row[i].parent]
<1>1. /\ row[i].parent \in Parents /\ read \in [Masters -> SUBSET Stores]
      /\ row[i].parent \in Masters => read[row[i].parent] = master[row[i].parent].marks
  BY ReadTyped DEF TypedInv, ItemRows, Parents
<1>2. parents \in [Items -> Parents] /\ parents[i] = row[i].parent
  BY <1>1, RestTyped DEF WorkRows
<1>3. w = [Rest EXCEPT !.kind = "delete", !.pc = "call", !.item = i, !.marks = read, !.parents = parents]
  BY DEF DeleteTask
<1> HIDE DEF read, parents
<1>4. QED
  BY <1>1, <1>2, <1>3, RestTyped DEF WorkRows, Kinds, Places

LEMMA SyncRecord ==
  ASSUME ProductConstants, TypedInv, NEW s \in Stores, NEW i \in Items, NEW w,
         w = SyncTask(s, i)
  PROVE  /\ w \in WorkRows /\ w.kind = "sync" /\ w.pc = "fetch" /\ w.item = i
         /\ \A j \in Items : j \in RowsIn(s) =>
              /\ w.parents[j] = row[j].parent
              /\ row[j].parent \in Masters => w.marks[row[j].parent] = master[row[j].parent].marks
<1> DEFINE read == Read({row[j].parent : j \in RowsIn(s)})
           parents == [j \in Items |-> IF j \in RowsIn(s) THEN row[j].parent ELSE NoMaster]
<1>1. /\ read \in [Masters -> SUBSET Stores]
      /\ \A j \in Items : j \in RowsIn(s) /\ row[j].parent \in Masters =>
           read[row[j].parent] = master[row[j].parent].marks
  BY ReadTyped
<1>2. \A j \in Items : row[j].parent \in Parents
  BY DEF TypedInv, ItemRows, Parents
<1>3. /\ parents \in [Items -> Parents]
      /\ \A j \in Items : j \in RowsIn(s) => parents[j] = row[j].parent
  BY <1>2 DEF Parents
<1>4. w = [Rest EXCEPT !.kind = "sync", !.pc = "fetch", !.item = i, !.marks = read, !.parents = parents]
  BY DEF SyncTask
<1> HIDE DEF read, parents
<1>5. w \in WorkRows /\ w.kind = "sync" /\ w.pc = "fetch" /\ w.item = i /\ w.marks = read /\ w.parents = parents
  BY <1>1, <1>3, <1>4, RestTyped DEF WorkRows, Kinds, Places
<1>6. QED
  BY <1>1, <1>3, <1>5

(* A task on its way only changes its place, or what it was given. *)
LEMMA Moved ==
  ASSUME TypedInv, NEW p \in Procs, NEW place \in Places, NEW w,
         w = [work[p] EXCEPT !.pc = place]
  PROVE  /\ w \in WorkRows /\ w.pc = place /\ w.kind = work[p].kind /\ w.item = work[p].item
         /\ w.who = work[p].who /\ w.marks = work[p].marks /\ w.parents = work[p].parents
         /\ w.got = work[p].got
  BY DEF TypedInv, WorkRows

(* Marks that come and go. *)
LEMMA MarkTyped ==
  ASSUME NEW r \in MasterRows, NEW S \in SUBSET Stores
  PROVE  /\ Marked(r, S) \in MasterRows /\ Unmarked(r, S) \in MasterRows
         /\ Marked(r, S).marks = S /\ Marked(r, S).status = "listed"
         /\ Unmarked(r, S).marks = S
         /\ S # {} => Unmarked(r, S).status = "listed"
  BY DEF MasterRows, Marked, Unmarked

LEMMA UnmarkTyped ==
  ASSUME TypedInv, NEW p \in Procs, NEW ms \in SUBSET Masters, NEW s \in Stores
  PROVE  /\ Unmark(p, ms, s) \in [Masters -> MasterRows]
         /\ \A m \in ms : /\ Unmark(p, ms, s)[m].marks = work[p].marks[m] \ {s}
                          /\ Unmark(p, ms, s)[m].marks # {} => Unmark(p, ms, s)[m].status = "listed"
         /\ \A m \in Masters \ ms : Unmark(p, ms, s)[m] = master[m]
<1>1. \A m \in Masters : work[p].marks[m] \ {s} \in SUBSET Stores
  BY DEF TypedInv, WorkRows
<1>2. ASSUME NEW m \in Masters
      PROVE  /\ Unmarked(master[m], work[p].marks[m] \ {s}) \in MasterRows
             /\ Unmarked(master[m], work[p].marks[m] \ {s}).marks = work[p].marks[m] \ {s}
             /\ Unmarked(master[m], work[p].marks[m] \ {s}).marks # {} =>
                  Unmarked(master[m], work[p].marks[m] \ {s}).status = "listed"
  <2>1. master[m] \in MasterRows /\ work[p].marks[m] \ {s} \in SUBSET Stores
    BY <1>1 DEF TypedInv
  <2>2. QED
    BY <2>1, MarkTyped
<1>3. QED
  BY <1>2 DEF Unmark, TypedInv

(* What the end of a task does to the replacement task. *)
LEMMA SwapEnded ==
  ASSUME TypedInv, NEW p \in Procs, SwapEnds(p, "failed")
  PROVE  /\ swap' \in [Swaps -> SwapRows]
         /\ \A q \in Swaps : /\ swap'[q].draft = swap[q].draft /\ swap'[q].target = swap[q].target
                             /\ \/ swap'[q].state = swap[q].state
                                \/ /\ work[p].kind = "swap" /\ work[p].who = q
                                   /\ swap[q].state # "none" /\ swap'[q].state = "failed"
  BY DEF TypedInv, SwapEnds, SwapRows, SwapStates

(* The steps in which a replacement changes its state alone. *)
LEMMA SwapState ==
  ASSUME TypedInv, NEW q \in Swaps, NEW state \in SwapStates, swap' = [swap EXCEPT ![q].state = state]
  PROVE  /\ swap' \in [Swaps -> SwapRows] /\ swap'[q].state = state
         /\ \A o \in Swaps : /\ swap'[o].draft = swap[o].draft /\ swap'[o].target = swap[o].target
                             /\ o # q => swap'[o] = swap[o]
  BY DEF TypedInv, SwapRows

(* The first read of a task keeps the types. *)
LEMMA BeginTyped ==
  ASSUME ProductConstants, TypedInv, NEW p \in Procs,
         \/ \E m \in Masters, s \in Stores : StartList(p, m, s)
         \/ \E i \in Items : StartDelete(p, i)
         \/ \E s \in Stores : StartSync(p, s)
         \/ \E q \in Swaps : StartSwap(p, q)
  PROVE  TypedInv'
<1>1. ASSUME NEW m \in Masters, NEW s \in Stores, StartList(p, m, s)
      PROVE  TypedInv'
  <2>1. PICK w : w = ListTask(m, s)
    OBVIOUS
  <2>2. work' = [work EXCEPT ![p] = w] /\ UNCHANGED <<day, master, row, live, files, trash, swap>>
    BY <1>1, <2>1 DEF StartList, Take, ListTask
  <2>3. w \in WorkRows /\ w.kind = "list" /\ w.who = m
    BY <2>1, ListRecord
  <2>4. QED
    BY <2>2, <2>3, WorkTyped DEF TypedInv
<1>2. ASSUME NEW i \in Items, StartDelete(p, i)
      PROVE  TypedInv'
  <2>1. PICK w : w = DeleteTask(i)
    OBVIOUS
  <2>2. work' = [work EXCEPT ![p] = w] /\ UNCHANGED <<day, master, row, live, files, trash, swap>>
    BY <1>2, <2>1 DEF StartDelete, Take, DeleteTask
  <2>3. w \in WorkRows /\ w.kind = "delete"
    BY <2>1, DeleteRecord
  <2>4. QED
    BY <2>2, <2>3, WorkTyped DEF TypedInv
<1>3. ASSUME NEW s \in Stores, StartSync(p, s)
      PROVE  TypedInv'
  <2>1. PICK i \in ItemsIn(s) :
          Take(p, SyncTask(s, i))
    BY <1>3 DEF StartSync, SyncTask
  <2>2. PICK w : w = SyncTask(s, i)
    OBVIOUS
  <2>3. work' = [work EXCEPT ![p] = w] /\ UNCHANGED <<day, master, row, live, files, trash, swap>>
    BY <1>3, <2>1, <2>2 DEF StartSync, Take
  <2>4. w \in WorkRows /\ w.kind = "sync"
    BY <2>2, SyncRecord DEF ItemsIn
  <2>5. QED
    BY <2>3, <2>4, WorkTyped DEF TypedInv
<1>4. ASSUME NEW q \in Swaps, StartSwap(p, q)
      PROVE  TypedInv'
  <2>1. PICK i \in Items : i = swap[q].target
    BY DEF TypedInv, SwapRows
  <2>2. PICK w : w = SwapTask(q, i)
    OBVIOUS
  <2>3. /\ work' = [work EXCEPT ![p] = w] /\ UNCHANGED <<day, master, row, live, files, trash>>
        /\ swap' = [swap EXCEPT ![q].state = "running"] /\ swap[q].state = "queued"
    BY <1>4, <2>1, <2>2 DEF StartSwap, Take, SwapTask
  <2>4. w \in WorkRows /\ w.kind = "swap" /\ w.who = q
    BY <2>2, SwapRecord
  <2>5. /\ swap' \in [Swaps -> SwapRows] /\ swap'[q].state = "running"
        /\ \A o \in Swaps : swap'[o].draft = swap[o].draft /\ (o # q => swap'[o] = swap[o])
    BY <2>3, SwapState DEF SwapStates
  <2>6. QED
    BY <2>3, <2>4, <2>5, WorkTyped DEF TypedInv
<1>5. QED
  BY <1>1, <1>2, <1>3, <1>4

(* So do the calls, ... *)
LEMMA MoveTyped ==
  ASSUME TypedInv, NEW p \in Procs,
         Upload(p) \/ Put(p) \/ DeleteCall(p) \/ \E got \in SUBSET live : Fetch(p, got)
  PROVE  TypedInv'
<1>a. work[p].item \in Items
  BY DEF TypedInv, WorkRows
<1>1. ASSUME NEW place \in Places, work' = [work EXCEPT ![p].pc = place], UNCHANGED <<day, master, row, trash, swap>>,
             live' \subseteq Items, files' \subseteq Items
      PROVE  TypedInv'
  <2>1. PICK w : w = [work[p] EXCEPT !.pc = place]
    OBVIOUS
  <2>2. work' = [work EXCEPT ![p] = w]
    BY <1>1, <2>1 DEF TypedInv
  <2>3. w \in WorkRows /\ w.kind = work[p].kind /\ w.who = work[p].who
    BY <2>1, Moved
  <2>4. QED
    BY <1>1, <2>2, <2>3, WorkTyped DEF TypedInv
<1>2. CASE Upload(p)
  BY <1>2, <1>1, <1>a DEF Upload, TypedInv, Places
<1>3. CASE Put(p)
  BY <1>3, <1>1, <1>a DEF Put, TypedInv, Places
<1>4. CASE DeleteCall(p)
  BY <1>4, <1>1, <1>a DEF DeleteCall, TypedInv, Places
<1>5. ASSUME NEW got \in SUBSET live, Fetch(p, got)
      PROVE  TypedInv'
  <2>1. PICK w : w = [[work[p] EXCEPT !.pc = "commit"] EXCEPT !.got = got]
    OBVIOUS
  <2>2. work' = [work EXCEPT ![p] = w] /\ UNCHANGED <<day, master, row, live, files, trash, swap>>
    BY <1>5, <2>1 DEF Fetch, TypedInv
  <2>3. w \in WorkRows /\ w.kind = work[p].kind /\ w.who = work[p].who
    BY <2>1 DEF TypedInv, WorkRows, Places
  <2>4. QED
    BY <2>2, <2>3, WorkTyped DEF TypedInv
<1>6. QED
  BY <1>2, <1>3, <1>4, <1>5

(* What the last transactions write. *)
LEMMA ListCommitted ==
  ASSUME TypedInv, NEW p \in Procs, CommitList(p), NEW w, w = work[p]
  PROVE  /\ w \in WorkRows /\ w.kind = "list" /\ w.pc = "commit" /\ w.who \in Masters /\ w.item \in Items
         /\ UNCHANGED <<day, live, files, trash, swap>> /\ work' = [work EXCEPT ![p] = Rest]
         /\ row' \in [Items -> ItemRows] /\ master' \in [Masters -> MasterRows]
         /\ row'[w.item].status = "active" /\ row'[w.item].parent = w.who
         /\ \A i \in Items \ {w.item} : row'[i] = row[i]
         /\ master[w.who].status \in Usable
         /\ NoLostUpdates => master[w.who].marks = w.marks[w.who]
         /\ master'[w.who].marks = w.marks[w.who] \cup {StoreOf(w.item)}
         /\ master'[w.who].status = "listed"
         /\ \A m \in Masters \ {w.who} : master'[m] = master[m]
<1>1. w \in WorkRows /\ w.kind = "list" /\ w.who \in Masters /\ w.item \in Items
  BY DEF CommitList, TypedInv, WorkRows
<1>2. w.marks[w.who] \cup {StoreOf(w.item)} \in SUBSET Stores /\ master[w.who] \in MasterRows
  BY <1>1, StoreOfItem DEF TypedInv, WorkRows
<1>3. PICK r : r = Marked(master[w.who], w.marks[w.who] \cup {StoreOf(w.item)})
  OBVIOUS
<1>4. r \in MasterRows /\ r.marks = w.marks[w.who] \cup {StoreOf(w.item)} /\ r.status = "listed"
  BY <1>2, <1>3, MarkTyped
<1>5. [status |-> "active", parent |-> w.who] \in ItemRows
  BY <1>1 DEF ItemRows
<1>6. /\ master' = [master EXCEPT ![w.who] = r]
      /\ row' = [row EXCEPT ![w.item] = [status |-> "active", parent |-> w.who]]
  BY <1>1, <1>3 DEF CommitList, TypedInv
<1>7. /\ w.pc = "commit" /\ UNCHANGED <<day, live, files, trash, swap>> /\ work' = [work EXCEPT ![p] = Rest]
      /\ master[w.who].status \in Usable /\ (NoLostUpdates => master[w.who].marks = w.marks[w.who])
  BY <1>1 DEF CommitList, Leave, MayWrite
<1>8. QED
  BY <1>1, <1>4, <1>5, <1>6, <1>7 DEF TypedInv

LEMMA SwapCommitted ==
  ASSUME TypedInv, NEW p \in Procs, CommitSwap(p), NEW w, w = work[p], NEW q, q = swap[w.who].draft
  PROVE  /\ w \in WorkRows /\ w.kind = "swap" /\ w.pc = "commit" /\ w.who \in Swaps /\ w.item \in Items
         /\ q \in Masters /\ master[q].status = "pending"
         /\ UNCHANGED <<day, live, files, trash>> /\ work' = [work EXCEPT ![p] = Rest]
         /\ row' \in [Items -> ItemRows] /\ master' \in [Masters -> MasterRows]
         /\ swap' = [swap EXCEPT ![w.who].state = "done"]
         /\ row[w.item].status # "none"
         /\ row'[w.item].status = row[w.item].status /\ row'[w.item].parent = q
         /\ \A i \in Items \ {w.item} : row'[i] = row[i]
         /\ master'[q].marks = {StoreOf(w.item)} /\ master'[q].status = "listed"
         /\ \A m \in Masters \ {q} :
              IF m \in OldParents(p)
              THEN /\ master'[m].marks = master[m].marks \ {StoreOf(w.item)}
                   /\ master'[m].marks # {} => master'[m].status = "listed"
              ELSE master'[m] = master[m]
<1> DEFINE store == StoreOf(w.item)
           without == [m \in Masters |->
                    IF m \in OldParents(p) THEN Unmarked(master[m], master[m].marks \ {store}) ELSE master[m]]
<1>1. w \in WorkRows /\ w.kind = "swap" /\ w.who \in Swaps /\ w.item \in Items /\ q \in Masters
  BY DEF CommitSwap, TypedInv, WorkRows
<1>2. store \in Stores
  BY <1>1, StoreOfItem
<1>3. ASSUME NEW m \in Masters
      PROVE  /\ Unmarked(master[m], master[m].marks \ {store}) \in MasterRows
             /\ Unmarked(master[m], master[m].marks \ {store}).marks = master[m].marks \ {store}
             /\ master[m].marks \ {store} # {} =>
                  Unmarked(master[m], master[m].marks \ {store}).status = "listed"
  <2>1. master[m] \in MasterRows /\ master[m].marks \ {store} \in SUBSET Stores
    BY DEF TypedInv, MasterRows
  <2>2. QED
    BY <2>1, MarkTyped
<1>4. PICK r : r = Marked(without[q], {store})
  OBVIOUS
<1> HIDE DEF store
<1>5. /\ without \in [Masters -> MasterRows]
      /\ \A m \in Masters :
           IF m \in OldParents(p)
           THEN /\ without[m].marks = master[m].marks \ {store}
                /\ without[m].marks # {} => without[m].status = "listed"
           ELSE without[m] = master[m]
  BY <1>3 DEF TypedInv
<1>6. /\ master' = [without EXCEPT ![q] = Marked(without[q], {store})]
      /\ row' = [row EXCEPT ![w.item].parent = q]
  BY <1>1 DEF CommitSwap, store
<1> HIDE DEF without
<1>7. r \in MasterRows /\ r.marks = {store} /\ r.status = "listed"
  BY <1>1, <1>2, <1>4, <1>5, MarkTyped
<1>8. /\ master' \in [Masters -> MasterRows] /\ master'[q].marks = {store} /\ master'[q].status = "listed"
      /\ \A m \in Masters \ {q} : master'[m] = without[m]
  BY <1>1, <1>4, <1>5, <1>6, <1>7
<1>9. /\ row' \in [Items -> ItemRows]
      /\ row'[w.item].status = row[w.item].status /\ row'[w.item].parent = q
      /\ \A i \in Items \ {w.item} : row'[i] = row[i]
  BY <1>1, <1>6 DEF TypedInv, ItemRows
<1>10. /\ w.pc = "commit" /\ master[q].status = "pending" /\ row[w.item].status # "none"
       /\ UNCHANGED <<day, live, files, trash>> /\ work' = [work EXCEPT ![p] = Rest]
       /\ swap' = [swap EXCEPT ![w.who].state = "done"]
  BY DEF CommitSwap, Leave
<1>11. QED
  BY <1>1, <1>5, <1>8, <1>9, <1>10 DEF store

LEMMA DeleteCommitted ==
  ASSUME ProductConstants, TypedInv, NEW p \in Procs, CommitDelete(p), NEW w, w = work[p], NEW i, i = w.item
  PROVE  /\ w \in WorkRows /\ w.kind = "delete" /\ w.pc = "commit" /\ i \in Items
         /\ UNCHANGED <<day, live, files, swap>> /\ work' = [work EXCEPT ![p] = Rest]
         /\ trash' = trash \cup {i}
         /\ row' \in [Items -> ItemRows] /\ master' \in [Masters -> MasterRows]
         /\ row'[i].status = "none" /\ row'[i].parent = NoMaster
         /\ \A j \in Items \ {i} : row'[j] = row[j]
         /\ \A m \in Masters :
              IF m = w.parents[i] /\ StoreOf(i) \in w.marks[m]
              THEN /\ NoLostUpdates => master[m].marks = w.marks[m]
                   /\ master'[m].marks = w.marks[m] \ {StoreOf(i)}
                   /\ master'[m].marks # {} => master'[m].status = "listed"
              ELSE master'[m] = master[m]
<1> DEFINE marked == {m \in Masters : m = w.parents[i] /\ StoreOf(i) \in w.marks[m]}
<1>1. w \in WorkRows /\ w.kind = "delete" /\ i \in Items
  BY DEF CommitDelete, TypedInv, WorkRows
<1>2. StoreOf(i) \in Stores
  BY <1>1, StoreOfItem
<1>3. /\ w.pc = "commit" /\ trash' = trash \cup {i}
      /\ UNCHANGED <<day, live, files, swap>> /\ work' = [work EXCEPT ![p] = Rest]
      /\ row' = [row EXCEPT ![i] = NoRow] /\ master' = Unmark(p, marked, StoreOf(i))
      /\ \A m \in marked : NoLostUpdates => master[m].marks = w.marks[m]
  BY DEF CommitDelete, Leave, MayWrite
<1>4. marked \in SUBSET Masters
  OBVIOUS
<1>5. /\ row' \in [Items -> ItemRows] /\ row'[i].status = "none" /\ row'[i].parent = NoMaster
      /\ \A j \in Items \ {i} : row'[j] = row[j]
  BY <1>1, <1>3, RestTyped DEF TypedInv
<1>7. \A m \in Masters : m \in marked <=> m = w.parents[i] /\ StoreOf(i) \in w.marks[m]
  OBVIOUS
<1> HIDE DEF marked
<1>6. /\ master' \in [Masters -> MasterRows]
      /\ \A m \in marked : /\ master'[m].marks = w.marks[m] \ {StoreOf(i)}
                           /\ master'[m].marks # {} => master'[m].status = "listed"
      /\ \A m \in Masters \ marked : master'[m] = master[m]
  <2>1. master' = Unmark(p, marked, StoreOf(i))
    BY <1>3
  <2>2. /\ Unmark(p, marked, StoreOf(i)) \in [Masters -> MasterRows]
        /\ \A m \in marked :
             /\ Unmark(p, marked, StoreOf(i))[m].marks = work[p].marks[m] \ {StoreOf(i)}
             /\ Unmark(p, marked, StoreOf(i))[m].marks # {} =>
                  Unmark(p, marked, StoreOf(i))[m].status = "listed"
        /\ \A m \in Masters \ marked : Unmark(p, marked, StoreOf(i))[m] = master[m]
    BY <1>2, <1>4, UnmarkTyped, Zenon
  <2>3. QED
    BY <2>1, <2>2
<1>8. QED
  BY <1>1, <1>3, <1>5, <1>6, <1>7

(* The products whose marks a sync takes. *)
Loses(w, s, m) == s \in w.marks[m] /\ \E i \in RowsIn(s) \ w.got : w.parents[i] = m

LEMMA SyncCommitted ==
  ASSUME TypedInv, NEW p \in Procs, CommitSync(p), NEW w, w = work[p], NEW s, s = StoreOf(w.item)
  PROVE  /\ w \in WorkRows /\ w.kind = "sync" /\ w.pc = "commit" /\ s \in Stores
         /\ UNCHANGED <<day, live, files, trash, swap>> /\ work' = [work EXCEPT ![p] = Rest]
         /\ row' \in [Items -> ItemRows] /\ master' \in [Masters -> MasterRows]
         /\ \A i \in Items :
              /\ row'[i].parent = row[i].parent
              /\ i \notin RowsIn(s) /\ i \notin w.got => row'[i] = row[i]
              /\ i \in RowsIn(s) \ w.got => row'[i].status = "removed"
              /\ i \in w.got => row'[i].status = "active"
         /\ \A m \in Masters :
              IF Loses(w, s, m)
              THEN /\ NoLostUpdates => master[m].marks = w.marks[m]
                   /\ master'[m].marks = w.marks[m] \ {s}
                   /\ master'[m].marks # {} => master'[m].status = "listed"
              ELSE master'[m] = master[m]
<1> DEFINE missing == RowsIn(s) \ w.got
           marked == {m \in Masters : s \in w.marks[m] /\ \E i \in missing : w.parents[i] = m}
<1>1. w \in WorkRows /\ w.kind = "sync" /\ w.item \in Items /\ s \in Stores
  BY StoreOfItem DEF CommitSync, TypedInv, WorkRows
<1>2. /\ w.pc = "commit" /\ UNCHANGED <<day, live, files, trash, swap>> /\ work' = [work EXCEPT ![p] = Rest]
      /\ row' = [i \in Items |-> IF i \in missing THEN [row[i] EXCEPT !.status = "removed"]
                                 ELSE IF i \in w.got THEN [row[i] EXCEPT !.status = "active"]
                                 ELSE row[i]]
      /\ master' = Unmark(p, marked, s)
      /\ \A m \in marked : NoLostUpdates => master[m].marks = w.marks[m]
  BY DEF CommitSync, Leave, MayWrite, Missing
<1>3. marked \in SUBSET Masters
  OBVIOUS
<1>4. /\ row' \in [Items -> ItemRows]
      /\ \A i \in Items :
              /\ row'[i].parent = row[i].parent
              /\ i \notin missing /\ i \notin w.got => row'[i] = row[i]
              /\ i \in missing => row'[i].status = "removed"
              /\ i \in w.got => row'[i].status = "active"
  <2>1. \A i \in Items : row[i] \in ItemRows
    BY DEF TypedInv
  <2>2. \A i \in Items : /\ [row[i] EXCEPT !.status = "removed"] \in ItemRows
                         /\ [row[i] EXCEPT !.status = "active"] \in ItemRows
                         /\ [row[i] EXCEPT !.status = "removed"].parent = row[i].parent
                         /\ [row[i] EXCEPT !.status = "active"].parent = row[i].parent
                         /\ [row[i] EXCEPT !.status = "removed"].status = "removed"
                         /\ [row[i] EXCEPT !.status = "active"].status = "active"
    BY <2>1 DEF ItemRows
  <2>3. QED
    BY <1>2, <2>1, <2>2
<1>6. \A m \in Masters :
        m \in marked <=> Loses(w, s, m)
  BY DEF Loses
<1> HIDE DEF marked
<1>5. /\ master' \in [Masters -> MasterRows]
      /\ \A m \in marked : /\ master'[m].marks = w.marks[m] \ {s}
                           /\ master'[m].marks # {} => master'[m].status = "listed"
      /\ \A m \in Masters \ marked : master'[m] = master[m]
  <2>1. master' = Unmark(p, marked, s)
    BY <1>2
  <2>2. /\ Unmark(p, marked, s) \in [Masters -> MasterRows]
        /\ \A m \in marked : /\ Unmark(p, marked, s)[m].marks = work[p].marks[m] \ {s}
                             /\ Unmark(p, marked, s)[m].marks # {} => Unmark(p, marked, s)[m].status = "listed"
        /\ \A m \in Masters \ marked : Unmark(p, marked, s)[m] = master[m]
    BY <1>1, <1>3, UnmarkTyped, Zenon
  <2>3. QED
    BY <2>1, <2>2
<1>7. QED
  BY <1>1, <1>2, <1>4, <1>5, <1>6

(* A deleted product: its marks go, and its rows lose their parent. *)
LEMMA MasterDeleted ==
  ASSUME TypedInv, NEW m \in Masters, DeleteMaster(m)
  PROVE  /\ UNCHANGED <<day, live, files, trash, work>>
         /\ row' \in [Items -> ItemRows] /\ master' \in [Masters -> MasterRows]
         /\ swap' \in [Swaps -> SwapRows]
         /\ master'[m].marks = {}
         /\ \A n \in Masters \ {m} : master'[n] = master[n]
         /\ \A i \in Items : /\ row'[i].status = row[i].status
                             /\ \/ row'[i].parent = row[i].parent
                                \/ row[i].parent = m /\ row'[i].parent = NoMaster
         /\ \A q \in Swaps : /\ swap'[q].draft = swap[q].draft /\ swap'[q].target = swap[q].target
                             /\ \/ swap'[q].state = swap[q].state
                                \/ swap[q].state \in {"ready", "failed"} /\ swap'[q].state = "cancelled"
<1>1. UNCHANGED <<day, live, files, trash, work>>
  BY DEF DeleteMaster
<1>2. [status |-> "gone", marks |-> {}] \in MasterRows
  BY DEF MasterRows
<1>3. /\ master' \in [Masters -> MasterRows] /\ master'[m].marks = {}
      /\ \A n \in Masters \ {m} : master'[n] = master[n]
  BY <1>2 DEF DeleteMaster, TypedInv
<1>4. /\ row' \in [Items -> ItemRows]
      /\ \A i \in Items : /\ row'[i].status = row[i].status
                          /\ \/ row'[i].parent = row[i].parent
                             \/ row[i].parent = m /\ row'[i].parent = NoMaster
  <2>1. \A i \in Items : row[i] \in ItemRows
    BY DEF TypedInv
  <2>2. \A i \in Items : /\ [row[i] EXCEPT !.parent = NoMaster] \in ItemRows
                         /\ [row[i] EXCEPT !.parent = NoMaster].status = row[i].status
                         /\ [row[i] EXCEPT !.parent = NoMaster].parent = NoMaster
    BY <2>1 DEF ItemRows
  <2>3. CASE row' = row
    BY <2>1, <2>3 DEF TypedInv
  <2>4. CASE row' = [i \in Items |-> IF i \in Children(m) THEN [row[i] EXCEPT !.parent = NoMaster]
                                                          ELSE row[i]]
    BY <2>1, <2>2, <2>4 DEF Children
  <2>5. QED
    BY <2>3, <2>4 DEF DeleteMaster
<1>5. /\ swap' \in [Swaps -> SwapRows]
      /\ \A q \in Swaps : /\ swap'[q].draft = swap[q].draft /\ swap'[q].target = swap[q].target
                          /\ \/ swap'[q].state = swap[q].state
                             \/ swap[q].state \in {"ready", "failed"} /\ swap'[q].state = "cancelled"
  <2>1. \A q \in Swaps : swap[q] \in SwapRows
    BY DEF TypedInv
  <2>2. \A q \in Swaps : /\ [swap[q] EXCEPT !.state = "cancelled"] \in SwapRows
                         /\ [swap[q] EXCEPT !.state = "cancelled"].state = "cancelled"
                         /\ [swap[q] EXCEPT !.state = "cancelled"].draft = swap[q].draft
                         /\ [swap[q] EXCEPT !.state = "cancelled"].target = swap[q].target
    BY <2>1 DEF SwapRows, SwapStates
  <2>3. QED
    BY <2>1, <2>2 DEF DeleteMaster
<1>6. QED
  BY <1>1, <1>3, <1>4, <1>5

(* The ends of a task keep the types, ... *)
LEMMA EndTyped ==
  ASSUME ProductConstants, TypedInv, NEW p \in Procs,
         \/ FailEarly(p) \/ FailLate(p) \/ GiveUp(p)
         \/ CommitList(p) \/ CommitSwap(p) \/ CommitDelete(p) \/ CommitSync(p)
  PROVE  TypedInv'
<1>a. PICK w : w = work[p]
  OBVIOUS
<1>b. w \in WorkRows /\ w.item \in Items
  BY <1>a DEF TypedInv, WorkRows
<1>c. ASSUME work' = [work EXCEPT ![p] = Rest], swap' \in [Swaps -> SwapRows],
             master' \in [Masters -> MasterRows], row' \in [Items -> ItemRows],
             live' \subseteq Items, files' \subseteq Items, trash' \subseteq Items, day' = day,
             \A q \in Swaps : /\ swap[q].state # "none" => swap'[q].state # "none"
                              /\ swap'[q].state # "none" => swap[q].state # "none"
                              /\ swap'[q].draft = swap[q].draft
      PROVE  TypedInv'
  <2>1. Rest \in WorkRows /\ Rest.kind # "list" /\ Rest.kind # "swap"
    BY RestTyped
  <2>2. /\ work' \in [Procs -> WorkRows]
        /\ \A q \in Procs : /\ work'[q].kind = "list" => work'[q].who \in Masters
                            /\ work'[q].kind = "swap" =>
                                 work'[q].who \in Swaps /\ swap'[work'[q].who].state # "none"
    <3>1. work' \in [Procs -> WorkRows] /\ work'[p] = Rest /\ \A q \in Procs \ {p} : work'[q] = work[q]
      <4>1. work \in [Procs -> WorkRows] /\ work' = [work EXCEPT ![p] = Rest]
        BY <1>c DEF TypedInv
      <4>2. QED
        BY <4>1, <2>1
    <3>2. \A q \in Swaps : swap[q].state # "none" => swap'[q].state # "none"
      BY <1>c
    <3>3. \A q \in Procs : /\ work[q].kind = "list" => work[q].who \in Masters
                           /\ work[q].kind = "swap" =>
                                work[q].who \in Swaps /\ swap[work[q].who].state # "none"
      BY DEF TypedInv
    <3>4. QED
      BY <3>1, <3>2, <3>3, <2>1
  <2>3. \A q \in Swaps : swap'[q].state # "none" => swap'[q].draft \in Masters
    BY <1>c DEF TypedInv
  <2>4. day' \in 1..MaxDays
    BY <1>c DEF TypedInv
  <2>5. QED
    BY <2>2, <2>3, <2>4, <1>c DEF TypedInv
<1>1. CASE FailEarly(p) \/ FailLate(p) \/ GiveUp(p)
  <2>1. /\ SwapEnds(p, "failed") /\ work' = [work EXCEPT ![p] = Rest] /\ UNCHANGED <<day, master, row, trash>>
    BY <1>1 DEF FailEarly, FailLate, GiveUp, Leave
  <2>2. live' \subseteq Items /\ files' \subseteq Items
    BY <1>1, <1>a, <1>b DEF FailEarly, FailLate, GiveUp, RollBack, TypedInv
  <2>3. QED
    BY <2>1, <2>2, <1>c, SwapEnded DEF TypedInv
<1>2. CASE CommitList(p)
  BY <1>2, <1>a, <1>c, ListCommitted DEF TypedInv
<1>3. CASE CommitSwap(p)
  <2>1. PICK q : q = swap[w.who].draft
    OBVIOUS
  <2>2. /\ w.who \in Swaps /\ swap' = [swap EXCEPT ![w.who].state = "done"]
        /\ master' \in [Masters -> MasterRows] /\ row' \in [Items -> ItemRows]
        /\ UNCHANGED <<day, live, files, trash>> /\ work' = [work EXCEPT ![p] = Rest]
        /\ w.kind = "swap"
    BY <2>1, <1>3, <1>a, SwapCommitted
  <2>3. /\ swap' \in [Swaps -> SwapRows] /\ swap'[w.who].state = "done"
        /\ \A o \in Swaps : swap'[o].draft = swap[o].draft /\ (o # w.who => swap'[o] = swap[o])
    BY <2>2, SwapState DEF SwapStates
  <2>4. swap[w.who].state # "none"
    BY <2>2, <1>a DEF TypedInv
  <2>5. QED
    BY <2>2, <2>3, <2>4, <1>c DEF TypedInv
<1>4. CASE CommitDelete(p)
  <2>1. PICK i : i = w.item
    OBVIOUS
  <2>2. QED
    BY <2>1, <1>4, <1>a, <1>b, <1>c, DeleteCommitted DEF TypedInv
<1>5. CASE CommitSync(p)
  <2>1. PICK s : s = StoreOf(w.item)
    OBVIOUS
  <2>2. QED
    BY <2>1, <1>5, <1>a, <1>c, SyncCommitted DEF TypedInv
<1>6. QED
  BY <1>1, <1>2, <1>3, <1>4, <1>5

(* A product that changes its review status alone. *)
LEMMA Reviewed ==
  ASSUME TypedInv, NEW m \in Masters, NEW status \in {"pending", "gone"}, master[m].status # "listed",
         master' = [master EXCEPT ![m].status = status]
  PROVE  /\ master' \in [Masters -> MasterRows]
         /\ \A n \in Masters : /\ master'[n].marks = master[n].marks
                               /\ master[n].status = "listed" => master'[n].status = "listed"
<1>1. PICK r : r = [master[m] EXCEPT !.status = status]
  OBVIOUS
<1>2. r \in MasterRows /\ r.marks = master[m].marks
  BY <1>1 DEF TypedInv, MasterRows
<1>3. master' = [master EXCEPT ![m] = r]
  BY <1>1 DEF TypedInv
<1>4. QED
  BY <1>2, <1>3 DEF TypedInv

(* The requests leave marks, rows and what is under way alone. *)
LEMMA RequestEffects ==
  ASSUME ProductConstants, TypedInv,
         \/ \E q \in Swaps, m \in Drafts, i \in Items : Preview(q, m, i)
         \/ \E q \in Swaps : \/ Confirm(q) \/ CancelSwap(q)
                             \/ \E o \in Swaps : ConfirmAgain(q, o)
  PROVE  /\ UNCHANGED <<day, row, live, files, trash, work>>
         /\ master' \in [Masters -> MasterRows] /\ swap' \in [Swaps -> SwapRows]
         /\ \A m \in Masters : /\ master'[m].marks = master[m].marks
                               /\ master[m].status = "listed" => master'[m].status = "listed"
         /\ \A q \in Swaps :
              /\ swap'[q].state # "none" => swap'[q].draft \in Masters
              /\ swap[q].state # "none" =>
                   /\ swap'[q].target = swap[q].target /\ swap'[q].draft = swap[q].draft
                   /\ swap'[q].state # "none"
                   /\ swap[q].state # "done" => swap'[q].state # "done"
                   /\ swap[q].state = "running" => swap'[q].state = "running"
<1>1. ASSUME NEW q \in Swaps, NEW m \in Drafts, NEW i \in Items, Preview(q, m, i)
      PROVE  /\ UNCHANGED <<day, row, live, files, trash, work>>
             /\ m \in Masters /\ master[m].status = "none" /\ swap[q].state = "none"
             /\ master' = [master EXCEPT ![m].status = "pending"]
             /\ swap' = [swap EXCEPT ![q] = [state |-> "ready", draft |-> m, target |-> i]]
             /\ [state |-> "ready", draft |-> m, target |-> i] \in SwapRows
  BY <1>1 DEF Preview, ProductConstants, SwapRows, SwapStates, Parents
<1>2. ASSUME NEW q \in Swaps, Confirm(q)
      PROVE  /\ UNCHANGED <<day, master, row, live, files, trash, work>>
             /\ swap[q].state \in {"ready", "failed", "cancelled"}
             /\ swap' = [swap EXCEPT ![q].state = "queued"]
  BY <1>2 DEF Confirm
<1>3. ASSUME NEW q \in Swaps, CancelSwap(q)
      PROVE  /\ UNCHANGED <<day, row, live, files, trash, work>>
             /\ swap[q].state \in {"ready", "failed"} /\ swap[q].draft \in Masters
             /\ swap' = [swap EXCEPT ![q].state = "cancelled"]
             /\ \/ master' = master
                \/ master[swap[q].draft].status = "pending" /\ master' = [master EXCEPT ![swap[q].draft].status = "gone"]
  BY <1>3 DEF CancelSwap, TypedInv
<1>4. ASSUME NEW q \in Swaps, NEW o \in Swaps, ConfirmAgain(q, o)
      PROVE  /\ UNCHANGED <<day, master, row, live, files, trash, work>>
             /\ swap[q].state \in {"failed", "cancelled"} /\ swap[o].state = "none"
             /\ swap' = [swap EXCEPT ![o] = [swap[q] EXCEPT !.state = "queued"]]
  BY <1>4 DEF ConfirmAgain
<1>5. CASE \E q \in Swaps, m \in Drafts, i \in Items : Preview(q, m, i)
  <2>1. PICK q \in Swaps, m \in Drafts, i \in Items : Preview(q, m, i)
    BY <1>5
  <2>2. /\ m \in Masters /\ UNCHANGED <<day, row, live, files, trash, work>>
        /\ master' \in [Masters -> MasterRows]
        /\ \A n \in Masters : /\ master'[n].marks = master[n].marks
                              /\ master[n].status = "listed" => master'[n].status = "listed"
    BY <2>1, <1>1, Reviewed
  <2>3. /\ swap' \in [Swaps -> SwapRows] /\ swap[q].state = "none"
        /\ swap'[q].state = "ready" /\ swap'[q].draft = m
        /\ \A o \in Swaps \ {q} : swap'[o] = swap[o]
    <3>1. PICK r : r = [state |-> "ready", draft |-> m, target |-> i]
      OBVIOUS
    <3>2. r \in SwapRows /\ r.state = "ready" /\ r.draft = m
      BY <3>1, <2>1, <1>1
    <3>3. swap' = [swap EXCEPT ![q] = r] /\ swap[q].state = "none"
      BY <3>1, <2>1, <1>1
    <3>4. QED
      BY <3>2, <3>3 DEF TypedInv
  <2>4. QED
    BY <2>2, <2>3 DEF TypedInv
<1>6. CASE \E q \in Swaps : Confirm(q)
  <2>1. PICK q \in Swaps : Confirm(q)
    BY <1>6
  <2>2. /\ swap' \in [Swaps -> SwapRows] /\ swap'[q].state = "queued"
        /\ \A o \in Swaps : /\ swap'[o].draft = swap[o].draft /\ swap'[o].target = swap[o].target
                            /\ o # q => swap'[o] = swap[o]
    BY <2>1, <1>2, SwapState DEF SwapStates
  <2>3. QED
    BY <2>1, <2>2, <1>2 DEF TypedInv
<1>7. CASE \E q \in Swaps : CancelSwap(q)
  <2>1. PICK q \in Swaps : CancelSwap(q)
    BY <1>7
  <2>2. /\ swap' \in [Swaps -> SwapRows] /\ swap'[q].state = "cancelled"
        /\ \A o \in Swaps : /\ swap'[o].draft = swap[o].draft /\ swap'[o].target = swap[o].target
                            /\ o # q => swap'[o] = swap[o]
    BY <2>1, <1>3, SwapState DEF SwapStates
  <2>3. /\ master' \in [Masters -> MasterRows]
        /\ \A n \in Masters : /\ master'[n].marks = master[n].marks
                              /\ master[n].status = "listed" => master'[n].status = "listed"
    <3>1. CASE master' = master
      BY <3>1 DEF TypedInv
    <3>2. CASE master' # master
      BY <3>2, <2>1, <1>3, Reviewed
    <3>3. QED
      BY <3>1, <3>2
  <2>4. QED
    BY <2>1, <2>2, <2>3, <1>3 DEF TypedInv
<1>8. CASE \E q, o \in Swaps : ConfirmAgain(q, o)
  <2>1. PICK q \in Swaps, o \in Swaps : ConfirmAgain(q, o)
    BY <1>8
  <2>2. PICK r : r = [swap[q] EXCEPT !.state = "queued"]
    OBVIOUS
  <2>3. r \in SwapRows /\ r.state = "queued" /\ r.draft = swap[q].draft /\ r.draft \in Masters
    BY <2>1, <2>2, <1>4 DEF TypedInv, SwapRows, SwapStates
  <2>4. swap' = [swap EXCEPT ![o] = r] /\ swap[o].state = "none" /\ UNCHANGED <<day, master, row, live, files, trash, work>>
    BY <2>1, <2>2, <1>4
  <2>5. QED
    BY <2>3, <2>4 DEF TypedInv
<1>9. QED
  BY <1>5, <1>6, <1>7, <1>8

LEMMA RequestTyped ==
  ASSUME ProductConstants, TypedInv,
         \/ \E i \in Items : Clean(i)
         \/ \E q \in Swaps, m \in Drafts, i \in Items : Preview(q, m, i)
         \/ \E q \in Swaps : Confirm(q) \/ CancelSwap(q) \/ \E o \in Swaps : ConfirmAgain(q, o)
         \/ \E m \in Masters : DeleteMaster(m)
         \/ NextDay
  PROVE  TypedInv'
<1>1. CASE \E i \in Items : Clean(i)
  BY <1>1 DEF Clean, TypedInv
<1>2. CASE \/ \E q \in Swaps, m \in Drafts, i \in Items : Preview(q, m, i)
           \/ \E q \in Swaps : Confirm(q) \/ CancelSwap(q) \/ \E o \in Swaps : ConfirmAgain(q, o)
  BY <1>2, RequestEffects DEF TypedInv
<1>3. CASE \E m \in Masters : DeleteMaster(m)
  <2>1. PICK m \in Masters : DeleteMaster(m)
    BY <1>3
  <2>2. QED
    BY <2>1, MasterDeleted DEF TypedInv
<1>4. CASE NextDay
  BY <1>4 DEF NextDay, TypedInv, ProductConstants
<1>5. QED
  BY <1>1, <1>2, <1>3, <1>4

LEMMA TypedStep ==
  ASSUME ProductConstants, TypedInv, [Next]_vars
  PROVE  TypedInv'
<1>1. CASE UNCHANGED vars
  BY <1>1 DEF vars, TypedInv
<1>2. CASE Next
  BY <1>2, BeginTyped, MoveTyped, EndTyped, RequestTyped DEF Next
<1>3. QED
  BY <1>1, <1>2

(* The variables keep their types. *)
THEOREM ProductTyping ==
  ASSUME ProductConstants
  PROVE  Spec => []ProductsTypeOK
<1>1. TypedInv => ProductsTypeOK
  BY DEF TypedInv, ProductsTypeOK, SwapRows, WorkRows, Parents
<1>2. TypedInv /\ [Next]_vars => TypedInv'
  BY TypedStep
<1>3. QED
  BY <1>1, <1>2, InitTyped, PTL DEF Spec

-----------------------------------------------------------------------------
(* What every task may rely on while it runs. *)

(* A replacement that runs works on its target. *)
SwapRuns(w) == w.kind = "swap" => swap[w.who].state = "running" /\ swap[w.who].target = w.item

(* A task that is about a row finds it to the end, a listing finds none.    *)
RowThere(w) ==
  /\ w.kind \in {"delete", "swap"} => row[w.item].status # "none"
  /\ w.kind = "list" => row[w.item].status = "none" /\ w.item \notin trash /\ w.item[1] = CodeOf[w.who]

(* What the calls have done to Rakuten is still so. *)
CallHolds(w) ==
  /\ w.kind = "delete" /\ w.pc = "commit" => w.item \notin live
  /\ w.kind = "sync" /\ w.pc = "commit" =>
       \A i \in Items : /\ i \in w.got => i \in live /\ StoreOf(i) = StoreOf(w.item)
                        /\ ~ShortListings /\ i \in live /\ StoreOf(i) = StoreOf(w.item) => i \in w.got
  /\ w.kind \in Putting /\ w.pc \in {"put", "commit"} => w.item \in files

(* A parent that was read may have been deleted since, it is no other; and  *)
(* it has no mark of the store that was not read.                           *)
Works(w, i) == \/ w.kind = "delete" /\ i = w.item
               \/ w.kind = "sync" /\ StoreOf(i) = StoreOf(w.item)
ReadHolds(w) ==
  /\ \A i \in Items : Works(w, i) =>
       /\ row[i].parent \in {w.parents[i], NoMaster}
       /\ row[i].parent \in Masters /\ StoreOf(i) \in master[row[i].parent].marks =>
            StoreOf(i) \in w.marks[row[i].parent]
  /\ w.kind = "swap" => row[w.item].parent \in {w.parents[w.item], NoMaster}

WorkHolds(w) == SwapRuns(w) /\ RowThere(w) /\ CallHolds(w) /\ ReadHolds(w)

(* What Admits gives two tasks, in terms that later steps do not disturb.   *)
Apart(v, w) ==
  /\ v.kind \in {"delete", "swap"} /\ w.kind \in {"delete", "swap"} => v.item # w.item
  /\ v.kind = "list" /\ w.kind = "list" => v.who # w.who
  /\ v.kind = "sync" /\ w.kind # "none" => StoreOf(v.item) # StoreOf(w.item)
  /\ v.kind = "list" /\ w.kind \in {"delete", "swap"} => row[w.item].parent # v.who
  /\ v.kind = "swap" /\ w.kind \in {"delete", "swap"} => row[w.item].parent # swap[v.who].draft

WorkInv ==
  /\ \A p \in Procs : \A w \in WorkRows : w = work[p] => WorkHolds(w)
  /\ \A p, q \in Procs : \A v, w \in WorkRows : p # q /\ v = work[p] /\ w = work[q] => Apart(v, w)

(* The exception of ProductsHaveImages. *)
Pending(i) == \E q \in Swaps : swap[q].target = i /\ swap[q].state \notin {"none", "done"}

(* A row that is gone has no parent, an item whose images wait for cleanup  *)
(* is gone, a product with marks is listed; a row with a parent has images. *)
Shown(i) ==
  /\ row[i].status = "none" => row[i].parent = NoMaster
  /\ i \in trash => row[i].status = "none" /\ i \notin live
  /\ row[i].parent # NoMaster => i \in files \/ Pending(i)
Witness(m, s, i) ==
  /\ row[i].status # "none" /\ row[i].parent = m /\ StoreOf(i) = s
  /\ row[i].status = "active" \/ Targeted(i)
DataInv ==
  /\ \A i \in Items : Shown(i)
  /\ \A m \in Masters : master[m].marks # {} => master[m].status = "listed"
  /\ \A m \in Masters, s \in Stores : s \in master[m].marks => \E i \in Items : Witness(m, s, i)

ProductInv == TypedInv /\ WorkInv /\ DataInv

(* What a step leaves to a task that does not take it. *)
Kept(v) ==
  /\ v.kind = "swap" => /\ swap'[v.who].state = swap[v.who].state
                        /\ swap'[v.who].target = swap[v.who].target
                        /\ swap'[v.who].draft = swap[v.who].draft
  /\ v.kind \in {"delete", "swap"} /\ row[v.item].status # "none" => row'[v.item].status # "none"
  /\ v.kind = "list" => /\ row[v.item].status = "none" => row'[v.item].status = "none"
                        /\ v.item \in trash' => v.item \in trash
  /\ v.kind = "delete" /\ v.item \in live' => v.item \in live
  /\ v.kind = "sync" => \A i \in Items : StoreOf(i) = StoreOf(v.item) => (i \in live' <=> i \in live)
  /\ v.kind \in Putting /\ v.item \in files => v.item \in files'
  /\ \A i \in Items : Works(v, i) \/ (v.kind = "swap" /\ i = v.item) =>
       row'[i].parent \in {row[i].parent, NoMaster}
  /\ \A i \in Items : Works(v, i) /\ row[i].parent \in Masters =>
       (StoreOf(i) \in master'[row[i].parent].marks => StoreOf(i) \in master[row[i].parent].marks)

(* A task that no step disturbs may rely on the same. *)
LEMMA KeptHolds ==
  ASSUME ProductConstants, TypedInv, NEW v \in WorkRows, WorkHolds(v), Kept(v)
  PROVE  WorkHolds(v)'
<1>0. v.item \in Items /\ NoMaster \notin Masters
  BY DEF WorkRows, ProductConstants
<1>1. SwapRuns(v)'
  BY DEF SwapRuns, WorkHolds, Kept
<1>2. RowThere(v)'
  BY DEF RowThere, WorkHolds, Kept
<1>3. CallHolds(v)'
  BY <1>0 DEF CallHolds, WorkHolds, Kept
<1>4. ReadHolds(v)'
  <2>1. ASSUME NEW i \in Items, Works(v, i)
        PROVE  /\ row'[i].parent \in {v.parents[i], NoMaster}
               /\ row'[i].parent \in Masters /\ StoreOf(i) \in master'[row'[i].parent].marks =>
                    StoreOf(i) \in v.marks[row'[i].parent]
    <3>1. /\ row[i].parent \in {v.parents[i], NoMaster}
          /\ row[i].parent \in Masters /\ StoreOf(i) \in master[row[i].parent].marks =>
               StoreOf(i) \in v.marks[row[i].parent]
      BY <2>1 DEF WorkHolds, ReadHolds
    <3>2. /\ row'[i].parent \in {row[i].parent, NoMaster}
          /\ row[i].parent \in Masters =>
               (StoreOf(i) \in master'[row[i].parent].marks => StoreOf(i) \in master[row[i].parent].marks)
      BY <2>1 DEF Kept
    <3>3. QED
      BY <3>1, <3>2, <1>0
  <2>2. v.kind = "swap" => row'[v.item].parent \in {v.parents[v.item], NoMaster}
    BY <1>0 DEF WorkHolds, ReadHolds, Kept
  <2>3. QED
    BY <2>1, <2>2 DEF ReadHolds, Works
<1>5. QED
  BY <1>1, <1>2, <1>3, <1>4 DEF WorkHolds

LEMMA KeptApart ==
  ASSUME ProductConstants, TypedInv, NEW v \in WorkRows, NEW w \in WorkRows,
         Apart(v, w), Kept(v), Kept(w),
         v.kind = "list" => v.who \in Masters,
         v.kind = "swap" => swap[v.who].draft \in Masters
  PROVE  Apart(v, w)'
<1>1. v.item \in Items /\ w.item \in Items /\ NoMaster \notin Masters
  BY DEF WorkRows, ProductConstants
<1>2. w.kind \in {"delete", "swap"} => row'[w.item].parent \in {row[w.item].parent, NoMaster}
  BY <1>1 DEF Kept, Works
<1>3. v.kind = "swap" => swap'[v.who].draft = swap[v.who].draft
  BY DEF Kept
<1>4. QED
  BY <1>1, <1>2, <1>3 DEF Apart

(* A step of one worker, with the others undisturbed. *)
LEMMA OthersKept ==
  ASSUME ProductConstants, TypedInv, WorkInv, NEW p \in Procs, NEW w \in WorkRows,
         work' = [work EXCEPT ![p] = w],
         \A q \in Procs \ {p} : \A v \in WorkRows : v = work[q] => Kept(v),
         WorkHolds(w)',
         \A q \in Procs \ {p} : \A v \in WorkRows : v = work[q] => Apart(v, w)' /\ Apart(w, v)'
  PROVE  WorkInv'
<1>1. work'[p] = w /\ \A q \in Procs \ {p} : work'[q] = work[q]
  BY DEF TypedInv
<1>2. ASSUME NEW q \in Procs, NEW v \in WorkRows, v = work'[q]
      PROVE  WorkHolds(v)'
  <2>1. CASE q = p
    BY <2>1, <1>1, <1>2
  <2>2. CASE q # p
    <3>1. v = work[q] /\ WorkHolds(v) /\ Kept(v)
      BY <2>2, <1>1, <1>2 DEF WorkInv
    <3>2. QED
      BY <3>1, KeptHolds
  <2>3. QED
    BY <2>1, <2>2
<1>3. ASSUME NEW q \in Procs, NEW r \in Procs, NEW v \in WorkRows, NEW u \in WorkRows,
             q # r, v = work'[q], u = work'[r]
      PROVE  Apart(v, u)'
  <2>1. CASE q = p
    BY <2>1, <1>1, <1>3
  <2>2. CASE r = p
    BY <2>2, <1>1, <1>3
  <2>3. CASE q # p /\ r # p
    <3>1. v = work[q] /\ u = work[r] /\ Kept(v) /\ Kept(u) /\ Apart(v, u)
      BY <2>3, <1>1, <1>3 DEF WorkInv
    <3>2. /\ v.kind = "list" => v.who \in Masters
          /\ v.kind = "swap" => swap[v.who].draft \in Masters
      BY <3>1 DEF TypedInv
    <3>3. QED
      BY <3>1, <3>2, KeptApart
  <2>4. QED
    BY <2>1, <2>2, <2>3
<1>4. QED
  BY <1>2, <1>3 DEF WorkInv

LEMMA AllKept ==
  ASSUME ProductConstants, TypedInv, WorkInv, work' = work,
         \A q \in Procs : \A v \in WorkRows : v = work[q] => Kept(v)
  PROVE  WorkInv'
<1>1. ASSUME NEW q \in Procs, NEW v \in WorkRows, v = work[q]
      PROVE  WorkHolds(v)'
  <2>1. WorkHolds(v) /\ Kept(v)
    BY <1>1 DEF WorkInv
  <2>2. QED
    BY <2>1, KeptHolds
<1>2. ASSUME NEW q \in Procs, NEW r \in Procs, NEW v \in WorkRows, NEW u \in WorkRows,
             q # r, v = work[q], u = work[r]
      PROVE  Apart(v, u)'
  <2>1. Kept(v) /\ Kept(u) /\ Apart(v, u)
    BY <1>2 DEF WorkInv
  <2>2. /\ v.kind = "list" => v.who \in Masters
        /\ v.kind = "swap" => swap[v.who].draft \in Masters
    BY <1>2 DEF TypedInv
  <2>3. QED
    BY <2>1, <2>2, KeptApart
<1>3. QED
  BY <1>1, <1>2 DEF WorkInv

(* A worker that ends its task. *)
LEMMA EndKept ==
  ASSUME ProductConstants, TypedInv, WorkInv, NEW p \in Procs,
         work' = [work EXCEPT ![p] = Rest],
         \A q \in Procs \ {p} : \A v \in WorkRows : v = work[q] => Kept(v)
  PROVE  WorkInv'
<1>1. PICK w : w = Rest
  OBVIOUS
<1>2. w \in WorkRows /\ w.kind = "none" /\ work' = [work EXCEPT ![p] = w]
  BY <1>1, RestTyped
<1>3. WorkHolds(w)'
  BY <1>2 DEF WorkHolds, SwapRuns, RowThere, CallHolds, ReadHolds, Works, Putting
<1>4. \A q \in Procs \ {p} : \A v \in WorkRows : v = work[q] => Apart(v, w)' /\ Apart(w, v)'
  BY <1>2 DEF Apart
<1>5. QED
  BY <1>2, <1>3, <1>4, OthersKept

-----------------------------------------------------------------------------
(* What the steps of a worker leave to the others. *)

OneItem == {"list", "swap", "delete"}
Away(v, i) ==
  /\ v.kind \in OneItem => v.item # i
  /\ v.kind = "sync" => StoreOf(v.item) # StoreOf(i)

LEMMA OthersAway ==
  ASSUME ProductConstants, TypedInv, WorkInv, NEW p \in Procs, NEW q \in Procs \ {p},
         NEW w \in WorkRows, NEW v \in WorkRows, w = work[p], v = work[q], w.kind \in OneItem
  PROVE  /\ Away(v, w.item)
         /\ v.kind = "delete" /\ w.kind = "list" => row[v.item].parent # w.who
         /\ v.kind = "delete" /\ w.kind = "swap" => row[v.item].parent # swap[w.who].draft
         /\ v.kind = "swap" /\ w.kind = "swap" => v.who # w.who
<1>1. Apart(v, w) /\ Apart(w, v) /\ WorkHolds(v) /\ WorkHolds(w)
  BY DEF WorkInv
<1>2. w.kind = "list" /\ v.kind = "list" => v.item # w.item
  BY <1>1 DEF Apart, WorkHolds, RowThere, TypedInv, ProductConstants
<1>3. Away(v, w.item)
  BY <1>1, <1>2 DEF Apart, Away, OneItem, WorkHolds, RowThere
<1>4. v.kind = "swap" /\ w.kind = "swap" => v.who # w.who
  BY <1>1 DEF Apart, WorkHolds, SwapRuns
<1>5. QED
  BY <1>1, <1>3, <1>4 DEF Apart

(* A step that is about one item, and marks at most one product with its    *)
(* store, leaves alone those who are elsewhere.                             *)
LEMMA ElsewhereKept ==
  ASSUME ProductConstants, TypedInv, NEW v \in WorkRows, NEW i \in Items, NEW grown, Away(v, i),
         \A j \in Items \ {i} : /\ row'[j] = row[j] /\ (j \in live' <=> j \in live)
                                /\ j \in files => j \in files'
                                /\ j \in trash' => j \in trash,
         \A m \in Masters, s \in Stores :
           s \in master'[m].marks => s \in master[m].marks \/ (m = grown /\ s = StoreOf(i)),
         v.kind = "delete" => row[v.item].parent # grown \/ grown = NoMaster,
         v.kind = "swap" => /\ swap'[v.who].state = swap[v.who].state
                            /\ swap'[v.who].target = swap[v.who].target
                            /\ swap'[v.who].draft = swap[v.who].draft
  PROVE  Kept(v)
<1>1. v.item \in Items /\ \A j \in Items : StoreOf(j) \in Stores
  BY StoreOfItem DEF WorkRows
<1>2. \A j \in Items : Works(v, j) \/ (v.kind = "swap" /\ j = v.item) => j # i
  BY <1>1 DEF Works, Away, OneItem
<1>3. \A j \in Items : Works(v, j) /\ row[j].parent \in Masters =>
        (StoreOf(j) \in master'[row[j].parent].marks => StoreOf(j) \in master[row[j].parent].marks)
  BY <1>1 DEF Works, Away, OneItem, ProductConstants
<1>4. v.kind \in OneItem => v.item # i
  BY DEF Away
<1>5. v.kind = "sync" => \A j \in Items : StoreOf(j) = StoreOf(v.item) => (j \in live' <=> j \in live)
  BY DEF Away
<1>6. QED
  BY <1>1, <1>2, <1>3, <1>4, <1>5 DEF Kept, OneItem, Putting

(* The end of a replacement is not the end of another. *)
LEMMA OtherSwaps ==
  ASSUME ProductConstants, TypedInv, WorkInv, NEW p \in Procs, NEW q \in Procs \ {p},
         NEW v \in WorkRows, v = work[q], v.kind = "swap", SwapEnds(p, "failed")
  PROVE  /\ swap'[v.who].state = swap[v.who].state
         /\ swap'[v.who].target = swap[v.who].target
         /\ swap'[v.who].draft = swap[v.who].draft
<1>1. PICK w \in WorkRows : w = work[p]
  BY DEF TypedInv
<1>2. w.kind = "swap" => v.who # w.who
  BY <1>1, OthersAway DEF OneItem
<1>3. v.who \in Swaps
  BY DEF TypedInv
<1>4. QED
  BY <1>1, <1>2, <1>3, SwapEnded

(* A task that fails. *)
LEMMA FailWork ==
  ASSUME ProductConstants, TypedInv, WorkInv, NEW p \in Procs,
         FailEarly(p) \/ FailLate(p) \/ GiveUp(p)
  PROVE  WorkInv'
<1>1. PICK w \in WorkRows : w = work[p]
  BY DEF TypedInv
<1>2. SwapEnds(p, "failed") /\ work' = [work EXCEPT ![p] = Rest] /\ UNCHANGED <<master, row, trash>>
  BY DEF FailEarly, FailLate, GiveUp, Leave
<1>3. ASSUME NEW q \in Procs \ {p}, NEW v \in WorkRows, v = work[q]
      PROVE  Kept(v)
  <2>1. v.kind = "swap" => /\ swap'[v.who].state = swap[v.who].state
                           /\ swap'[v.who].target = swap[v.who].target
                           /\ swap'[v.who].draft = swap[v.who].draft
    BY <1>2, <1>3, OtherSwaps
  <2>2. CASE GiveUp(p)
    BY <2>1, <2>2, <1>2 DEF GiveUp, Kept
  <2>3. CASE FailEarly(p) \/ FailLate(p)
    <3>1. /\ w.kind \in OneItem /\ w.item \in Items
          /\ \A j \in Items \ {w.item} : (j \in live' <=> j \in live) /\ (j \in files' <=> j \in files)
      BY <2>3, <1>1 DEF FailEarly, FailLate, RollBack, Putting, OneItem, WorkRows
    <3>2. Away(v, w.item)
      BY <1>1, <1>3, <3>1, OthersAway
    <3>3. QED
      BY <3>1, <3>2, <2>1, <1>2, ElsewhereKept
  <2>4. QED
    BY <2>2, <2>3
<1>4. QED
  BY <1>2, <1>3, EndKept

(* A listing, a replacement or a deletion that is committed. *)
LEMMA CommitWork ==
  ASSUME ProductConstants, TypedInv, WorkInv, NoLostUpdates = TRUE, NEW p \in Procs,
         CommitList(p) \/ CommitSwap(p) \/ CommitDelete(p)
  PROVE  WorkInv'
<1>1. PICK w \in WorkRows : w = work[p]
  BY DEF TypedInv
<1>2. w.item \in Items /\ w.kind \in OneItem
  BY <1>1 DEF CommitList, CommitSwap, CommitDelete, OneItem, WorkRows
<1>3. CASE CommitList(p)
  <2>1. /\ UNCHANGED <<day, live, files, trash, swap>> /\ work' = [work EXCEPT ![p] = Rest]
        /\ w.kind = "list" /\ w.who \in Masters
        /\ \A i \in Items \ {w.item} : row'[i] = row[i]
        /\ master'[w.who].marks = master[w.who].marks \cup {StoreOf(w.item)}
        /\ \A m \in Masters \ {w.who} : master'[m] = master[m]
    BY <1>1, <1>3, ListCommitted
  <2>2. ASSUME NEW q \in Procs \ {p}, NEW v \in WorkRows, v = work[q]
        PROVE  Kept(v)
    <3>1. Away(v, w.item) /\ (v.kind = "delete" => row[v.item].parent # w.who)
      BY <1>1, <1>2, <2>1, <2>2, OthersAway
    <3>2. \A m \in Masters, s \in Stores :
            s \in master'[m].marks => s \in master[m].marks \/ (m = w.who /\ s = StoreOf(w.item))
      BY <2>1
    <3>3. QED
      BY <3>1, <3>2, <1>2, <2>1, ElsewhereKept
  <2>3. QED
    BY <2>1, <2>2, EndKept
<1>4. CASE CommitSwap(p)
  <2>1. PICK n : n = swap[w.who].draft
    OBVIOUS
  <2>2. /\ UNCHANGED <<day, live, files, trash>> /\ work' = [work EXCEPT ![p] = Rest]
        /\ w.kind = "swap" /\ w.who \in Swaps /\ swap' = [swap EXCEPT ![w.who].state = "done"]
        /\ \A i \in Items \ {w.item} : row'[i] = row[i]
        /\ master'[n].marks = {StoreOf(w.item)}
        /\ \A m \in Masters \ {n} :
              IF m \in OldParents(p) THEN master'[m].marks = master[m].marks \ {StoreOf(w.item)}
                                     ELSE master'[m] = master[m]
    BY <1>1, <1>4, <2>1, SwapCommitted
  <2>3. \A o \in Swaps \ {w.who} : swap'[o] = swap[o]
    BY <2>2, SwapState DEF SwapStates
  <2>4. ASSUME NEW q \in Procs \ {p}, NEW v \in WorkRows, v = work[q]
        PROVE  Kept(v)
    <3>1. /\ Away(v, w.item) /\ (v.kind = "delete" => row[v.item].parent # n)
          /\ v.kind = "swap" => v.who # w.who
      BY <1>1, <1>2, <2>1, <2>2, <2>4, OthersAway
    <3>2. \A m \in Masters, s \in Stores :
            s \in master'[m].marks => s \in master[m].marks \/ (m = n /\ s = StoreOf(w.item))
      BY <2>2
    <3>3. v.kind = "swap" => v.who \in Swaps /\ swap'[v.who] = swap[v.who]
      BY <2>3, <2>4, <3>1 DEF TypedInv
    <3>4. QED
      BY <3>1, <3>2, <3>3, <1>2, <2>2, ElsewhereKept
  <2>5. QED
    BY <2>2, <2>4, EndKept
<1>5. CASE CommitDelete(p)
  <2>1. PICK i \in Items : i = w.item
    BY <1>2
  <2>2. /\ UNCHANGED <<day, live, files, swap>> /\ work' = [work EXCEPT ![p] = Rest]
        /\ trash' = trash \cup {i}
        /\ \A j \in Items \ {i} : row'[j] = row[j]
        /\ \A m \in Masters :
              IF m = w.parents[i] /\ StoreOf(i) \in w.marks[m]
              THEN master[m].marks = w.marks[m] /\ master'[m].marks = w.marks[m] \ {StoreOf(i)}
              ELSE master'[m] = master[m]
    BY <1>1, <1>5, <2>1, DeleteCommitted
  <2>3. ASSUME NEW q \in Procs \ {p}, NEW v \in WorkRows, v = work[q]
        PROVE  Kept(v)
    <3>1. Away(v, i)
      BY <1>1, <1>2, <2>1, <2>3, OthersAway
    <3>2. \A m \in Masters, s \in Stores : s \in master'[m].marks => s \in master[m].marks
      BY <2>2
    <3>3. QED
      BY <3>1, <3>2, <2>2, ElsewhereKept
  <2>4. QED
    BY <2>2, <2>3, EndKept
<1>6. QED
  BY <1>3, <1>4, <1>5

(* A store sync that is committed: every other task is about another store. *)
LEMMA SyncWork ==
  ASSUME ProductConstants, TypedInv, WorkInv, NoLostUpdates = TRUE, NEW p \in Procs, CommitSync(p)
  PROVE  WorkInv'
<1>1. PICK w \in WorkRows : w = work[p]
  BY DEF TypedInv
<1>2. PICK s : s = StoreOf(w.item)
  OBVIOUS
<1>3. /\ w.kind = "sync" /\ w.pc = "commit"
      /\ UNCHANGED <<day, live, files, trash, swap>> /\ work' = [work EXCEPT ![p] = Rest]
      /\ \A i \in Items : /\ row'[i].parent = row[i].parent
                          /\ i \notin RowsIn(s) /\ i \notin w.got => row'[i] = row[i]
      /\ \A m \in Masters : master'[m] = master[m] \/ master'[m].marks = master[m].marks \ {s}
  <2>1. /\ w.kind = "sync" /\ w.pc = "commit"
        /\ UNCHANGED <<day, live, files, trash, swap>> /\ work' = [work EXCEPT ![p] = Rest]
        /\ \A i \in Items : /\ row'[i].parent = row[i].parent
                            /\ i \notin RowsIn(s) /\ i \notin w.got => row'[i] = row[i]
    BY <1>1, <1>2, SyncCommitted
  <2>2. \A m \in Masters :
          IF Loses(w, s, m)
          THEN /\ NoLostUpdates => master[m].marks = w.marks[m]
               /\ master'[m].marks = w.marks[m] \ {s}
               /\ master'[m].marks # {} => master'[m].status = "listed"
          ELSE master'[m] = master[m]
    BY <1>1, <1>2, SyncCommitted
  <2>3. \A m \in Masters : master'[m] = master[m] \/ master'[m].marks = master[m].marks \ {s}
    BY <2>2
  <2>4. QED
    BY <2>1, <2>3
<1>4. \A i \in Items : i \in w.got => StoreOf(i) = s
  BY <1>1, <1>2, <1>3 DEF WorkInv, WorkHolds, CallHolds
<1>5. \A i \in Items : StoreOf(i) # s => row'[i] = row[i]
  BY <1>3, <1>4 DEF RowsIn, ItemsIn
<1>6. ASSUME NEW q \in Procs \ {p}, NEW v \in WorkRows, v = work[q]
      PROVE  Kept(v)
  <2>1. v.kind # "none" => StoreOf(v.item) # s
    BY <1>1, <1>2, <1>3, <1>6 DEF WorkInv, Apart
  <2>2. v.item \in Items /\ (v.kind # "none" => row'[v.item] = row[v.item])
    BY <2>1, <1>5 DEF WorkRows
  <2>3. \A i \in Items : row[i].parent \in Masters =>
          (StoreOf(i) \in master'[row[i].parent].marks => StoreOf(i) \in master[row[i].parent].marks)
    BY <1>3
  <2>4. QED
    BY <1>3, <2>2, <2>3 DEF Kept
<1>7. QED
  BY <1>3, <1>6, EndKept

(* The steps on the way: uploads, calls, answers. *)
LEMMA MoveWork ==
  ASSUME ProductConstants, TypedInv, WorkInv, DataInv, NEW p \in Procs,
         Upload(p) \/ Put(p) \/ DeleteCall(p)
  PROVE  WorkInv'
<1>1. PICK w \in WorkRows : w = work[p]
  BY DEF TypedInv
<1>2. w.item \in Items /\ w.kind \in OneItem /\ UNCHANGED <<day, master, row, trash, swap>>
  BY <1>1 DEF Upload, Put, DeleteCall, OneItem, Putting, WorkRows
<1>3. \A j \in Items \ {w.item} : (j \in live' <=> j \in live) /\ (j \in files => j \in files')
  BY <1>1 DEF Upload, Put, DeleteCall
<1>4. \A q \in Procs \ {p} : \A v \in WorkRows : v = work[q] => Kept(v)
  <2>1. ASSUME NEW q \in Procs \ {p}, NEW v \in WorkRows, v = work[q]
        PROVE  Kept(v)
    <3>1. Away(v, w.item)
      BY <1>1, <1>2, <2>1, OthersAway
    <3>2. QED
      BY <3>1, <1>2, <1>3, ElsewhereKept
  <2>2. QED
    BY <2>1
<1>5. PICK place \in Places : /\ work' = [work EXCEPT ![p].pc = place]
                              /\ w.kind = "delete" /\ place = "commit" => w.item \notin live'
                              /\ w.kind \in Putting /\ place \in {"put", "commit"} => w.item \in files'
  <2>1. CASE Upload(p)
    <3>1. "put" \in Places /\ work' = [work EXCEPT ![p].pc = "put"] /\ w.item \in files' /\ w.kind \in Putting
      BY <2>1, <1>1 DEF Upload, Places
    <3>2. QED
      BY <3>1 DEF Putting
  <2>2. CASE Put(p)
    <3>1. /\ "commit" \in Places /\ work' = [work EXCEPT ![p].pc = "commit"] /\ w.kind \in Putting
          /\ w.pc = "put" /\ files' = files
      BY <2>2, <1>1 DEF Put, Places
    <3>2. w.item \in files
      BY <3>1, <1>1 DEF WorkInv, WorkHolds, CallHolds
    <3>3. QED
      BY <3>1, <3>2 DEF Putting
  <2>3. CASE DeleteCall(p)
    <3>1. /\ "commit" \in Places /\ work' = [work EXCEPT ![p].pc = "commit"] /\ w.kind = "delete"
          /\ w.item \notin live'
      BY <2>3, <1>1 DEF DeleteCall, Places
    <3>2. QED
      BY <3>1 DEF Putting
  <2>4. QED
    BY <2>1, <2>2, <2>3
<1>6. PICK u : u = [work[p] EXCEPT !.pc = place]
  OBVIOUS
<1>7. /\ u \in WorkRows /\ u.pc = place /\ u.kind = w.kind /\ u.item = w.item /\ u.who = w.who
      /\ u.marks = w.marks /\ u.parents = w.parents /\ u.got = w.got
  BY <1>1, <1>6, Moved
<1>8. work' = [work EXCEPT ![p] = u]
  BY <1>5, <1>6 DEF TypedInv
<1>9. WorkHolds(u)'
  <2>1. WorkHolds(w)
    BY <1>1 DEF WorkInv
  <2>2. SwapRuns(u)' /\ RowThere(u)' /\ ReadHolds(u)'
    BY <2>1, <1>2, <1>7 DEF WorkHolds, SwapRuns, RowThere, ReadHolds, Works
  <2>3. CallHolds(u)'
    BY <1>2, <1>5, <1>7 DEF CallHolds, OneItem
  <2>4. QED
    BY <2>2, <2>3 DEF WorkHolds
<1>10. \A q \in Procs \ {p} : \A v \in WorkRows : v = work[q] => Apart(v, u)' /\ Apart(u, v)'
  <2>1. ASSUME NEW q \in Procs \ {p}, NEW v \in WorkRows, v = work[q]
        PROVE  Apart(v, u)' /\ Apart(u, v)'
    <3>1. Apart(v, w) /\ Apart(w, v)
      BY <1>1, <2>1 DEF WorkInv
    <3>2. QED
      BY <3>1, <1>2, <1>7 DEF Apart
  <2>2. QED
    BY <2>1
<1>11. QED
  BY <1>4, <1>7, <1>8, <1>9, <1>10, OthersKept

(* Steps that touch nothing a task relies on. *)
LEMMA SameKept ==
  ASSUME NEW v \in WorkRows, UNCHANGED <<row, live>>,
         \A i \in Items : i \in trash' => i \in trash,
         v.kind \in Putting /\ v.item \in files => v.item \in files',
         \A m \in Masters : master'[m].marks = master[m].marks,
         v.kind = "swap" => /\ swap'[v.who].state = swap[v.who].state
                            /\ swap'[v.who].target = swap[v.who].target
                            /\ swap'[v.who].draft = swap[v.who].draft
  PROVE  Kept(v)
<1>1. v.item \in Items
  BY DEF WorkRows
<1>2. QED
  BY <1>1 DEF Kept

LEMMA FetchWork ==
  ASSUME ProductConstants, TypedInv, WorkInv, NEW p \in Procs, NEW got \in SUBSET live, Fetch(p, got)
  PROVE  WorkInv'
<1>1. PICK w \in WorkRows : w = work[p]
  BY DEF TypedInv
<1>2. PICK u : u = [[w EXCEPT !.pc = "commit"] EXCEPT !.got = got]
  OBVIOUS
<1>3. /\ w.kind = "sync" /\ work' = [work EXCEPT ![p] = u]
      /\ UNCHANGED <<day, master, row, live, files, trash, swap>>
  BY <1>1, <1>2 DEF Fetch, TypedInv
<1>4. /\ u \in WorkRows /\ u.pc = "commit" /\ u.kind = w.kind /\ u.item = w.item
      /\ u.who = w.who /\ u.marks = w.marks /\ u.parents = w.parents /\ u.got = got
  BY <1>1, <1>2 DEF TypedInv, WorkRows, Places
<1>5. \A i \in Items : /\ i \in got => i \in live /\ StoreOf(i) = StoreOf(u.item)
                       /\ ~ShortListings /\ i \in live /\ StoreOf(i) = StoreOf(u.item) => i \in got
  BY <1>1, <1>4 DEF Fetch, ItemsIn
<1>6. WorkHolds(u)'
  <2>1. WorkHolds(w)
    BY <1>1 DEF WorkInv
  <2>2. SwapRuns(u)' /\ RowThere(u)' /\ ReadHolds(u)'
    BY <2>1, <1>3, <1>4 DEF WorkHolds, SwapRuns, RowThere, ReadHolds, Works
  <2>3. CallHolds(u)'
    BY <1>3, <1>4, <1>5 DEF CallHolds, Putting
  <2>4. QED
    BY <2>2, <2>3 DEF WorkHolds
<1>7. \A q \in Procs \ {p} : \A v \in WorkRows : v = work[q] => Apart(v, u)' /\ Apart(u, v)'
  <2>1. ASSUME NEW q \in Procs \ {p}, NEW v \in WorkRows, v = work[q]
        PROVE  Apart(v, u)' /\ Apart(u, v)'
    <3>1. Apart(v, w) /\ Apart(w, v)
      BY <1>1, <2>1 DEF WorkInv
    <3>2. QED
      BY <3>1, <1>3, <1>4 DEF Apart
  <2>2. QED
    BY <2>1
<1>8. \A q \in Procs \ {p} : \A v \in WorkRows : v = work[q] => Kept(v)
  BY <1>3, SameKept
<1>9. QED
  BY <1>3, <1>4, <1>6, <1>7, <1>8, OthersKept

(* The tasks that do not conflict are apart. *)
LEMMA NoConflict ==
  ASSUME ProductConstants, TypedInv, NEW v \in WorkRows, NEW u \in WorkRows, ~Conflict(v, u),
         v.kind = "list" => v.who \in Masters, v.kind = "swap" => swap[v.who].draft \in Masters,
         u.kind = "list" => u.who \in Masters, u.kind = "swap" => swap[u.who].draft \in Masters
  PROVE  Apart(v, u) /\ Apart(u, v)
<1>1. /\ v.kind = "list" => v.who \in RootsOf(v)
      /\ v.kind = "delete" => RootOf(v.item) \in RootsOf(v)
      /\ v.kind = "swap" => RootOf(v.item) \in RootsOf(v) /\ swap[v.who].draft \in RootsOf(v)
  BY DEF RootsOf
<1>2. /\ u.kind = "list" => u.who \in RootsOf(u)
      /\ u.kind = "delete" => RootOf(u.item) \in RootsOf(u)
      /\ u.kind = "swap" => RootOf(u.item) \in RootsOf(u) /\ swap[u.who].draft \in RootsOf(u)
  BY DEF RootsOf
<1>3. \A r : r \in RootsOf(v) => r \notin RootsOf(u)
  BY DEF Conflict
<1>4. \A i, m : m \in Masters /\ row[i].parent = m => RootOf(i) = m
  BY DEF RootOf, ProductConstants
<1>5. /\ v.kind = "sync" /\ u.kind # "none" => StoreOf(v.item) # StoreOf(u.item)
      /\ u.kind = "sync" /\ v.kind # "none" => StoreOf(u.item) # StoreOf(v.item)
  BY DEF Conflict
<1>6. Apart(v, u)
  BY <1>1, <1>2, <1>3, <1>4, <1>5 DEF Apart
<1>7. Apart(u, v)
  BY <1>1, <1>2, <1>3, <1>4, <1>5 DEF Apart
<1>8. QED
  BY <1>6, <1>7

(* A task that begins. *)
LEMMA BeginWork ==
  ASSUME ProductConstants, TypedInv, WorkInv, NEW p \in Procs, NEW u \in WorkRows,
         work' = [work EXCEPT ![p] = u], Admits(u),
         UNCHANGED <<day, master, row, live, files, trash>>,
         u.kind = "list" => u.who \in Masters, u.kind = "swap" => swap[u.who].draft \in Masters,
         \A q \in Swaps : /\ swap[q].state = "running" => swap'[q].state = "running"
                          /\ swap'[q].target = swap[q].target /\ swap'[q].draft = swap[q].draft,
         u.kind = "swap" => u.who \in Swaps, WorkHolds(u)'
  PROVE  WorkInv'
<1>1. ASSUME NEW q \in Procs \ {p}, NEW v \in WorkRows, v = work[q]
      PROVE  Kept(v) /\ Apart(v, u)' /\ Apart(u, v)'
  <2>1. v.kind = "swap" => v.who \in Swaps /\ swap[v.who].state = "running" /\ swap[v.who].draft \in Masters
    BY <1>1 DEF TypedInv, WorkInv, WorkHolds, SwapRuns
  <2>2. Kept(v)
    BY <2>1, SameKept
  <2>3. v.kind = "list" => v.who \in Masters
    BY <1>1 DEF TypedInv
  <2>4. ~Conflict(v, u)
    BY <1>1 DEF Admits
  <2>5. Apart(v, u) /\ Apart(u, v)
    BY <2>1, <2>3, <2>4, NoConflict
  <2>6. QED
    BY <2>1, <2>2, <2>5 DEF Apart
<1>2. QED
  BY <1>1, OthersKept

LEMMA StartWork ==
  ASSUME ProductConstants, TypedInv, WorkInv, DataInv, FreshNumbers = TRUE, NEW p \in Procs,
         \/ \E m \in Masters, s \in Stores : StartList(p, m, s)
         \/ \E i \in Items : StartDelete(p, i)
         \/ \E s \in Stores : StartSync(p, s)
         \/ \E q \in Swaps : StartSwap(p, q)
  PROVE  WorkInv'
<1>1. ASSUME NEW m \in Masters, NEW s \in Stores, StartList(p, m, s)
      PROVE  WorkInv'
  <2>1. PICK w : w = ListTask(m, s)
    OBVIOUS
  <2>2. /\ work' = [work EXCEPT ![p] = w] /\ Admits(w)
        /\ UNCHANGED <<day, master, row, live, files, trash, swap>>
        /\ row[NumberFor(m, s)].status = "none" /\ NumberFor(m, s) \notin trash
    BY <1>1, <2>1 DEF StartList, Take, ListTask
  <2>3. /\ w \in WorkRows /\ w.kind = "list" /\ w.who = m /\ w.pc = "upload"
        /\ w.item = NumberFor(m, s) /\ w.item[1] = CodeOf[m]
    BY <2>1, ListRecord, ItemParts
  <2>4. WorkHolds(w)'
    BY <2>2, <2>3 DEF WorkHolds, SwapRuns, RowThere, CallHolds, ReadHolds, Works
  <2>5. QED
    BY <2>2, <2>3, <2>4, BeginWork
<1>2. ASSUME NEW i \in Items, StartDelete(p, i)
      PROVE  WorkInv'
  <2>1. PICK w : w = DeleteTask(i)
    OBVIOUS
  <2>2. /\ work' = [work EXCEPT ![p] = w] /\ Admits(w) /\ row[i].status # "none"
        /\ UNCHANGED <<day, master, row, live, files, trash, swap>>
    BY <1>2, <2>1 DEF StartDelete, Take, DeleteTask
  <2>3. /\ w \in WorkRows /\ w.kind = "delete" /\ w.pc = "call" /\ w.item = i
        /\ w.parents[i] = row[i].parent
        /\ row[i].parent \in Masters => w.marks[row[i].parent] = master[row[i].parent].marks
    BY <2>1, DeleteRecord
  <2>4. WorkHolds(w)'
    BY <2>2, <2>3 DEF WorkHolds, SwapRuns, RowThere, CallHolds, ReadHolds, Works, Putting
  <2>5. QED
    BY <2>2, <2>3, <2>4, BeginWork
<1>3. ASSUME NEW s \in Stores, StartSync(p, s)
      PROVE  WorkInv'
  <2>1. PICK i \in ItemsIn(s) :
          Take(p, SyncTask(s, i))
    BY <1>3 DEF StartSync, SyncTask
  <2>2. PICK w : w = SyncTask(s, i)
    OBVIOUS
  <2>3. /\ work' = [work EXCEPT ![p] = w] /\ Admits(w)
        /\ UNCHANGED <<day, master, row, live, files, trash, swap>>
    BY <1>3, <2>1, <2>2 DEF StartSync, Take
  <2>4. /\ w \in WorkRows /\ w.kind = "sync" /\ w.pc = "fetch" /\ w.item = i
        /\ \A j \in Items : j \in RowsIn(s) =>
              /\ w.parents[j] = row[j].parent
              /\ row[j].parent \in Masters => w.marks[row[j].parent] = master[row[j].parent].marks
    BY <2>2, SyncRecord DEF ItemsIn
  <2>5. \A j \in Items : StoreOf(j) = s /\ j \notin RowsIn(s) => row[j].parent = NoMaster
    BY DEF RowsIn, ItemsIn, DataInv, Shown
  <2>6. StoreOf(i) = s /\ NoMaster \notin Masters
    BY DEF ItemsIn, ProductConstants
  <2>7. ReadHolds(w)'
    BY <2>3, <2>4, <2>5, <2>6 DEF ReadHolds, Works
  <2>8. WorkHolds(w)'
    BY <2>7, <2>4 DEF WorkHolds, SwapRuns, RowThere, CallHolds, Putting
  <2>9. QED
    BY <2>3, <2>4, <2>8, BeginWork
<1>4. ASSUME NEW q \in Swaps, StartSwap(p, q)
      PROVE  WorkInv'
  <2>1. PICK i \in Items : i = swap[q].target
    BY DEF TypedInv, SwapRows
  <2>2. PICK w : w = SwapTask(q, i)
    OBVIOUS
  <2>3. /\ work' = [work EXCEPT ![p] = w] /\ UNCHANGED <<day, master, row, live, files, trash>>
        /\ Admits(w) /\ row[i].status # "none"
        /\ swap' = [swap EXCEPT ![q].state = "running"] /\ swap[q].state = "queued"
    BY <1>4, <2>1, <2>2 DEF StartSwap, Take, SwapTask
  <2>4. w \in WorkRows /\ w.kind = "swap" /\ w.pc = "upload" /\ w.item = i /\ w.who = q /\ w.parents[i] = row[i].parent
    BY <2>2, SwapRecord
  <2>5. /\ swap'[q].state = "running"
        /\ \A o \in Swaps : /\ swap'[o].draft = swap[o].draft /\ swap'[o].target = swap[o].target
                            /\ o # q => swap'[o] = swap[o]
    BY <2>3, SwapState DEF SwapStates
  <2>6. swap[q].draft \in Masters
    BY <2>3 DEF TypedInv
  <2>7. WorkHolds(w)'
    BY <2>1, <2>3, <2>4, <2>5 DEF WorkHolds, SwapRuns, RowThere, CallHolds, ReadHolds, Works
  <2>8. \A o \in Swaps : /\ swap[o].state = "running" => swap'[o].state = "running"
                         /\ swap'[o].target = swap[o].target /\ swap'[o].draft = swap[o].draft
    BY <2>5
  <2>9. QED
    BY <2>3, <2>4, <2>6, <2>7, <2>8, BeginWork
<1>5. QED
  BY <1>1, <1>2, <1>3, <1>4

(* Requests, cleanups and the clock. *)
LEMMA RequestWork ==
  ASSUME ProductConstants, TypedInv, WorkInv, DataInv,
         \/ \E i \in Items : Clean(i)
         \/ \E q \in Swaps, m \in Drafts, i \in Items : Preview(q, m, i)
         \/ \E q \in Swaps : Confirm(q) \/ CancelSwap(q) \/ \E o \in Swaps : ConfirmAgain(q, o)
         \/ \E m \in Masters : DeleteMaster(m)
         \/ NextDay
  PROVE  WorkInv'
<1>1. ASSUME NEW i \in Items, Clean(i)
      PROVE  WorkInv'
  <2>1. UNCHANGED <<day, master, row, live, swap, work>> /\ trash' = trash \ {i} /\ files' = files \ {i} /\ i \in trash
    BY <1>1 DEF Clean, FilesOf
  <2>2. ASSUME NEW q \in Procs, NEW v \in WorkRows, v = work[q]
        PROVE  Kept(v)
    <3>1. v.kind \in Putting => v.item # i
      BY <2>1, <2>2 DEF WorkInv, WorkHolds, RowThere, DataInv, Shown, Putting
    <3>2. QED
      BY <2>1, <3>1, SameKept
  <2>3. QED
    BY <2>1, <2>2, AllKept
<1>2. CASE \/ \E q \in Swaps, m \in Drafts, i \in Items : Preview(q, m, i)
           \/ \E q \in Swaps : Confirm(q) \/ CancelSwap(q) \/ \E o \in Swaps : ConfirmAgain(q, o)
  <2>1. /\ UNCHANGED <<day, row, live, files, trash, work>>
        /\ \A m \in Masters : master'[m].marks = master[m].marks
        /\ \A q \in Swaps : swap[q].state # "none" =>
             /\ swap'[q].target = swap[q].target /\ swap'[q].draft = swap[q].draft
             /\ swap[q].state = "running" => swap'[q].state = "running"
    BY <1>2, RequestEffects
  <2>2. ASSUME NEW q \in Procs, NEW v \in WorkRows, v = work[q]
        PROVE  Kept(v)
    <3>1. v.kind = "swap" => v.who \in Swaps /\ swap[v.who].state = "running"
      BY <2>2 DEF TypedInv, WorkInv, WorkHolds, SwapRuns
    <3>2. QED
      BY <2>1, <3>1, SameKept
  <2>3. QED
    BY <2>1, <2>2, AllKept
<1>3. ASSUME NEW m \in Masters, DeleteMaster(m)
      PROVE  WorkInv'
  <2>1. /\ UNCHANGED <<day, live, files, trash, work>>
        /\ master'[m].marks = {}
        /\ \A n \in Masters \ {m} : master'[n] = master[n]
        /\ \A i \in Items : /\ row'[i].status = row[i].status
                            /\ row'[i].parent = row[i].parent \/ row'[i].parent = NoMaster
        /\ \A q \in Swaps : /\ swap'[q].draft = swap[q].draft /\ swap'[q].target = swap[q].target
                            /\ swap[q].state = "running" => swap'[q].state = "running"
    BY <1>3, MasterDeleted
  <2>2. ASSUME NEW q \in Procs, NEW v \in WorkRows, v = work[q]
        PROVE  Kept(v)
    <3>1. v.kind = "swap" => v.who \in Swaps /\ swap[v.who].state = "running"
      BY <2>2 DEF TypedInv, WorkInv, WorkHolds, SwapRuns
    <3>2. v.item \in Items
      BY DEF WorkRows
    <3>3. QED
      BY <2>1, <3>1, <3>2 DEF Kept
  <2>3. QED
    BY <2>1, <2>2, AllKept
<1>4. CASE NextDay
  <2>1. UNCHANGED <<master, row, live, files, trash, swap, work>>
    BY <1>4 DEF NextDay
  <2>2. \A q \in Procs : \A v \in WorkRows : v = work[q] => Kept(v)
    BY <2>1, SameKept
  <2>3. QED
    BY <2>1, <2>2, AllKept
<1>5. QED
  BY <1>1, <1>2, <1>3, <1>4

-----------------------------------------------------------------------------
(* The rows, the marks and the images. *)

(* A target stays one; a replacement that has failed may be asked for again. *)
LEMMA FailData ==
  ASSUME ProductConstants, TypedInv, WorkInv, DataInv, NEW p \in Procs,
         FailEarly(p) \/ FailLate(p) \/ GiveUp(p)
  PROVE  DataInv'
<1>1. PICK w \in WorkRows : w = work[p]
  BY DEF TypedInv
<1>2. SwapEnds(p, "failed") /\ UNCHANGED <<master, row, trash>> /\ WorkHolds(w) /\ w.item \in Items
  BY <1>1 DEF FailEarly, FailLate, GiveUp, WorkInv, WorkRows
<1>3. \A q \in Swaps : /\ swap'[q].target = swap[q].target
                       /\ swap[q].state # "none" => swap'[q].state # "none"
                       /\ swap[q].state \notin {"none", "done"} => swap'[q].state \notin {"none", "done"}
  BY <1>2, SwapEnded
<1>4. \A j \in Items : (Pending(j) => Pending(j)') /\ (Targeted(j) => Targeted(j)')
  BY <1>3 DEF Pending, Targeted
<1>5. /\ \A j \in Items \ {w.item} : (j \in live' => j \in live) /\ (j \in files => j \in files')
      /\ w.item \in live' => w.item \in live \/ w.kind \in Putting
      /\ w.item \in files => w.item \in files' \/ w.kind \in Putting
  BY <1>1 DEF FailEarly, FailLate, GiveUp, RollBack
<1>6. w.kind = "swap" => Pending(w.item)'
  <2>1. ASSUME w.kind = "swap"
        PROVE  w.who \in Swaps /\ swap'[w.who].target = w.item /\ swap'[w.who].state \notin {"none", "done"}
    BY <1>1, <1>2, <1>3, <2>1 DEF WorkHolds, SwapRuns, TypedInv
  <2>2. QED
    BY <2>1 DEF Pending
<1>7. ASSUME NEW j \in Items
      PROVE  Shown(j)'
  <2>1. Shown(j)
    BY DEF DataInv
  <2>2. CASE j # w.item
    BY <2>1, <2>2, <1>2, <1>4, <1>5 DEF Shown
  <2>3. CASE j = w.item
    BY <2>1, <2>3, <1>2, <1>4, <1>5, <1>6 DEF Shown, WorkHolds, RowThere, Putting
  <2>4. QED
    BY <2>2, <2>3
<1>8. ASSUME NEW m \in Masters, NEW s \in Stores, s \in master'[m].marks
      PROVE  \E j \in Items : Witness(m, s, j)'
  BY <1>2, <1>4, <1>8 DEF DataInv, Witness
<1>9. QED
  BY <1>2, <1>7, <1>8 DEF DataInv

LEMMA ListData ==
  ASSUME ProductConstants, TypedInv, WorkInv, DataInv, NoLostUpdates = TRUE, NEW p \in Procs, CommitList(p)
  PROVE  DataInv'
<1>1. PICK w \in WorkRows : w = work[p]
  BY DEF TypedInv
<1>2. /\ UNCHANGED <<day, live, files, trash, swap>>
      /\ w.kind = "list" /\ w.pc = "commit" /\ w.who \in Masters /\ w.item \in Items
      /\ row'[w.item].status = "active" /\ row'[w.item].parent = w.who
      /\ \A i \in Items \ {w.item} : row'[i] = row[i]
      /\ master'[w.who].marks = master[w.who].marks \cup {StoreOf(w.item)}
      /\ master'[w.who].status = "listed"
      /\ \A m \in Masters \ {w.who} : master'[m] = master[m]
  BY <1>1, ListCommitted
<1>3. w.item \in files /\ w.item \notin trash /\ row[w.item].status = "none"
  BY <1>1, <1>2 DEF WorkInv, WorkHolds, CallHolds, RowThere, Putting
<1>4. \A j \in Items : (Pending(j)' <=> Pending(j)) /\ (Targeted(j)' <=> Targeted(j))
  BY <1>2 DEF Pending, Targeted
<1>5. ASSUME NEW j \in Items
      PROVE  Shown(j)'
  BY <1>2, <1>3, <1>4 DEF Shown, DataInv
<1>6. ASSUME NEW m \in Masters, NEW s \in Stores, s \in master'[m].marks
      PROVE  \E j \in Items : Witness(m, s, j)'
  <2>1. CASE s \in master[m].marks
    <3>1. PICK j \in Items : Witness(m, s, j)
      BY <2>1 DEF DataInv
    <3>2. j # w.item
      BY <3>1, <1>3 DEF Witness
    <3>3. QED
      BY <3>1, <3>2, <1>2, <1>4 DEF Witness
  <2>2. CASE s \notin master[m].marks
    <3>1. m = w.who /\ s = StoreOf(w.item)
      BY <2>2, <1>2, <1>6
    <3>2. Witness(m, s, w.item)'
      BY <3>1, <1>2 DEF Witness
    <3>3. QED
      BY <3>2, <1>2
  <2>3. QED
    BY <2>1, <2>2
<1>7. \A m \in Masters : master'[m].marks # {} => master'[m].status = "listed"
  BY <1>2 DEF DataInv
<1>8. QED
  BY <1>5, <1>6, <1>7 DEF DataInv

(* The parent that a replacement read is the one whose mark it takes.       *)
LEMMA SwapData ==
  ASSUME ProductConstants, TypedInv, WorkInv, DataInv, NEW p \in Procs, CommitSwap(p)
  PROVE  DataInv'
<1>1. PICK w \in WorkRows : w = work[p]
  BY DEF TypedInv
<1>2. PICK n : n = swap[w.who].draft
  OBVIOUS
<1>3. /\ UNCHANGED <<day, live, files, trash>>
      /\ w.kind = "swap" /\ w.pc = "commit" /\ w.who \in Swaps /\ w.item \in Items /\ n \in Masters
      /\ swap' = [swap EXCEPT ![w.who].state = "done"]
      /\ row[w.item].status # "none"
      /\ row'[w.item].status = row[w.item].status /\ row'[w.item].parent = n
      /\ \A i \in Items \ {w.item} : row'[i] = row[i]
      /\ master[n].status = "pending" /\ master'[n].marks = {StoreOf(w.item)} /\ master'[n].status = "listed"
  BY <1>1, <1>2, SwapCommitted
<1>4. \A m \in Masters \ {n} :
        IF m \in OldParents(p)
        THEN /\ master'[m].marks = master[m].marks \ {StoreOf(w.item)}
             /\ master'[m].marks # {} => master'[m].status = "listed"
        ELSE master'[m] = master[m]
  BY <1>1, <1>2, <1>3, SwapCommitted
<1>5. \A m \in Masters : m \in OldParents(p) <=>
        m = w.parents[w.item] /\ master[m].status = "listed" /\ StoreOf(w.item) \in master[m].marks
  BY <1>1 DEF OldParents
<1>6. /\ w.item \in files /\ swap[w.who].state = "running" /\ swap[w.who].target = w.item
      /\ row[w.item].parent \in {w.parents[w.item], NoMaster} /\ NoMaster \notin Masters
  BY <1>1, <1>3 DEF WorkInv, WorkHolds, CallHolds, SwapRuns, ReadHolds, Putting, ProductConstants
<1>7. /\ swap'[w.who].state = "done" /\ swap'[w.who].target = w.item
      /\ \A o \in Swaps : swap'[o].target = swap[o].target /\ (o # w.who => swap'[o] = swap[o])
  BY <1>3, <1>6, SwapState DEF SwapStates
<1>8. \A j \in Items : Targeted(j) => Targeted(j)'
  BY <1>7 DEF Targeted
<1>9. \A j \in Items \ {w.item} : Pending(j) => Pending(j)'
  BY <1>6, <1>7 DEF Pending
<1>10. Targeted(w.item)'
  BY <1>3, <1>7 DEF Targeted
<1>11. ASSUME NEW j \in Items
       PROVE  Shown(j)'
  <2>1. Shown(j)
    BY DEF DataInv
  <2>2. CASE j = w.item
    BY <2>1, <2>2, <1>3, <1>6 DEF Shown
  <2>3. CASE j # w.item
    BY <2>1, <2>3, <1>3, <1>9 DEF Shown
  <2>4. QED
    BY <2>2, <2>3
<1>12. ASSUME NEW m \in Masters, NEW s \in Stores, s \in master'[m].marks
       PROVE  \E j \in Items : Witness(m, s, j)'
  <2>1. CASE m = n
    <3>1. Witness(m, s, w.item)'
      BY <2>1, <1>3, <1>10, <1>12 DEF Witness
    <3>2. QED
      BY <3>1, <1>3
  <2>2. CASE m # n
    <3>1. s \in master[m].marks /\ ~(m \in OldParents(p) /\ s = StoreOf(w.item))
      BY <2>2, <1>4, <1>12
    <3>2. master[m].status = "listed"
      BY <3>1 DEF DataInv
    <3>3. PICK j \in Items : Witness(m, s, j)
      BY <3>1 DEF DataInv
    <3>4. j # w.item
      BY <3>1, <3>2, <3>3, <1>5, <1>6 DEF Witness
    <3>5. Witness(m, s, j)'
      BY <3>3, <3>4, <1>3, <1>8 DEF Witness
    <3>6. QED
      BY <3>5
  <2>3. QED
    BY <2>1, <2>2
<1>13. \A m \in Masters : master'[m].marks # {} => master'[m].status = "listed"
  BY <1>3, <1>4 DEF DataInv
<1>14. QED
  BY <1>11, <1>12, <1>13 DEF DataInv

(* Nothing has marked the product with the store since the deletion read.   *)
LEMMA DeleteData ==
  ASSUME ProductConstants, TypedInv, WorkInv, DataInv, NoLostUpdates = TRUE, NEW p \in Procs, CommitDelete(p)
  PROVE  DataInv'
<1>1. PICK w \in WorkRows : w = work[p]
  BY DEF TypedInv
<1>2. PICK i \in Items : i = w.item
  BY DEF WorkRows
<1>3. /\ w.kind = "delete" /\ w.pc = "commit"
      /\ UNCHANGED <<day, live, files, swap>> /\ trash' = trash \cup {i}
      /\ row'[i].status = "none" /\ row'[i].parent = NoMaster
      /\ \A j \in Items \ {i} : row'[j] = row[j]
  BY <1>1, <1>2, DeleteCommitted
<1>4. \A m \in Masters :
        IF m = w.parents[i] /\ StoreOf(i) \in w.marks[m]
        THEN /\ master[m].marks = w.marks[m]
             /\ master'[m].marks = w.marks[m] \ {StoreOf(i)}
             /\ master'[m].marks # {} => master'[m].status = "listed"
        ELSE master'[m] = master[m]
  BY <1>1, <1>2, DeleteCommitted
<1>5. /\ row[i].parent \in {w.parents[i], NoMaster} /\ NoMaster \notin Masters
      /\ row[i].parent \in Masters /\ StoreOf(i) \in master[row[i].parent].marks =>
           StoreOf(i) \in w.marks[row[i].parent]
      /\ i \notin live
  BY <1>1, <1>2, <1>3 DEF WorkInv, WorkHolds, ReadHolds, Works, CallHolds, ProductConstants
<1>6. \A j \in Items : (Pending(j)' <=> Pending(j)) /\ (Targeted(j)' <=> Targeted(j))
  BY <1>3 DEF Pending, Targeted
<1>7. ASSUME NEW j \in Items
      PROVE  Shown(j)'
  BY <1>3, <1>5, <1>6 DEF Shown, DataInv
<1>8. ASSUME NEW m \in Masters, NEW s \in Stores, s \in master'[m].marks
      PROVE  \E j \in Items : Witness(m, s, j)'
  <2>1. s \in master[m].marks /\ ~(m = w.parents[i] /\ StoreOf(i) \in w.marks[m] /\ s = StoreOf(i))
    BY <1>4, <1>8
  <2>2. PICK j \in Items : Witness(m, s, j)
    BY <2>1 DEF DataInv
  <2>3. j # i
    BY <2>1, <2>2, <1>5 DEF Witness
  <2>4. Witness(m, s, j)'
    BY <2>2, <2>3, <1>3, <1>6 DEF Witness
  <2>5. QED
    BY <2>4
<1>9. \A m \in Masters : master'[m].marks # {} => master'[m].status = "listed"
  BY <1>4 DEF DataInv
<1>10. QED
  BY <1>7, <1>8, <1>9 DEF DataInv

(* A row that a sync removes takes the mark of its product with it.         *)
LEMMA SyncData ==
  ASSUME ProductConstants, TypedInv, WorkInv, DataInv, NoLostUpdates = TRUE, NEW p \in Procs, CommitSync(p)
  PROVE  DataInv'
<1>1. PICK w \in WorkRows : w = work[p]
  BY DEF TypedInv
<1>2. PICK store : store = StoreOf(w.item)
  OBVIOUS
<1>3. /\ w.kind = "sync" /\ w.pc = "commit"
      /\ UNCHANGED <<day, live, files, trash, swap>>
      /\ \A i \in Items :
           /\ row'[i].parent = row[i].parent
           /\ i \notin RowsIn(store) /\ i \notin w.got => row'[i] = row[i]
           /\ i \in RowsIn(store) \ w.got => row'[i].status = "removed"
           /\ i \in w.got => row'[i].status = "active"
  BY <1>1, <1>2, SyncCommitted
<1>4. \A m \in Masters :
        IF Loses(w, store, m)
        THEN /\ NoLostUpdates => master[m].marks = w.marks[m]
             /\ master'[m].marks = w.marks[m] \ {store}
             /\ master'[m].marks # {} => master'[m].status = "listed"
        ELSE master'[m] = master[m]
  BY <1>1, <1>2, SyncCommitted
<1>5. \A i \in Items : /\ i \in w.got => i \in live /\ StoreOf(i) = store
                       /\ StoreOf(i) = store =>
                            /\ row[i].parent \in {w.parents[i], NoMaster}
                            /\ row[i].parent \in Masters /\ StoreOf(i) \in master[row[i].parent].marks =>
                                 StoreOf(i) \in w.marks[row[i].parent]
  BY <1>1, <1>2, <1>3 DEF WorkInv, WorkHolds, ReadHolds, Works, CallHolds
<1>6. \A j \in Items : (Pending(j)' <=> Pending(j)) /\ (Targeted(j)' <=> Targeted(j))
  BY <1>3 DEF Pending, Targeted
<1>7. ASSUME NEW j \in Items
      PROVE  Shown(j)'
  <2>1. Shown(j)
    BY DEF DataInv
  <2>2. row[j].status = "none" /\ j \notin w.got => row'[j] = row[j]
    BY <1>3 DEF RowsIn
  <2>3. row'[j].status = "none" => row[j].parent = NoMaster
    BY <2>1, <2>2, <1>3 DEF Shown
  <2>4. j \in trash => row'[j].status = "none" /\ j \notin live
    BY <2>1, <2>2, <1>5 DEF Shown
  <2>5. QED
    BY <2>1, <2>3, <2>4, <1>3, <1>6 DEF Shown
<1>8. ASSUME NEW m \in Masters, NEW s \in Stores, s \in master'[m].marks
      PROVE  \E j \in Items : Witness(m, s, j)'
  <2>1. s \in master[m].marks /\ ~(Loses(w, store, m) /\ s = store)
    BY <1>4, <1>8
  <2>2. PICK j \in Items : Witness(m, s, j)
    BY <2>1 DEF DataInv
  <2>3. j \notin RowsIn(store) \ w.got
    <3>1. SUFFICES ASSUME j \in RowsIn(store) \ w.got PROVE FALSE
      OBVIOUS
    <3>2. StoreOf(j) = store /\ s = store /\ row[j].parent = m
      BY <3>1, <2>2 DEF RowsIn, ItemsIn, Witness
    <3>3. w.parents[j] = m /\ store \in w.marks[m]
      BY <3>2, <2>1, <1>5 DEF ProductConstants
    <3>4. Loses(w, store, m)
      BY <3>1, <3>3 DEF Loses
    <3>5. QED
      BY <3>2, <3>4, <2>1
  <2>4. row'[j] = row[j] \/ (row'[j].status = "active" /\ row'[j].parent = row[j].parent)
    BY <2>3, <1>3
  <2>5. Witness(m, s, j)'
    BY <2>2, <2>4, <1>6 DEF Witness
  <2>6. QED
    BY <2>5
<1>9. \A m \in Masters : master'[m].marks # {} => master'[m].status = "listed"
  BY <1>4 DEF DataInv
<1>10. QED
  BY <1>7, <1>8, <1>9 DEF DataInv

(* The steps on the way, the starts, and the requests. *)
LEMMA MoveData ==
  ASSUME ProductConstants, TypedInv, WorkInv, DataInv, NEW p \in Procs,
         Upload(p) \/ Put(p) \/ DeleteCall(p) \/ \E got \in SUBSET live : Fetch(p, got)
  PROVE  DataInv'
<1>1. PICK w \in WorkRows : w = work[p]
  BY DEF TypedInv
<1>2. /\ UNCHANGED <<master, row, trash, swap>> /\ (\A j \in Items : j \in files => j \in files')
      /\ \A j \in Items : j \in live' => j \in live \/ (j = w.item /\ w.kind \in Putting)
  BY <1>1 DEF Upload, Put, DeleteCall, Fetch
<1>3. w.kind \in Putting => w.item \in Items /\ w.item \notin trash
  BY <1>1 DEF WorkInv, WorkHolds, RowThere, DataInv, Shown, Putting, WorkRows
<1>4. \A j \in Items : (Pending(j)' <=> Pending(j)) /\ (Targeted(j)' <=> Targeted(j))
  BY <1>2 DEF Pending, Targeted
<1>5. \A j \in Items : Shown(j)'
  BY <1>2, <1>3, <1>4 DEF Shown, DataInv
<1>6. ASSUME NEW m \in Masters, NEW s \in Stores, s \in master'[m].marks
      PROVE  \E j \in Items : Witness(m, s, j)'
  BY <1>2, <1>4, <1>6 DEF DataInv, Witness
<1>7. QED
  BY <1>2, <1>5, <1>6 DEF DataInv

(* Targets stay targets, rows keep what they have but a deleted parent.     *)
LEMMA CalmData ==
  ASSUME ProductConstants, TypedInv, DataInv, live' = live,
         \A m \in Masters : /\ master'[m].marks # {} => master'[m].marks = master[m].marks
                            /\ master[m].status = "listed" /\ master'[m].marks # {} =>
                                 master'[m].status = "listed",
         \A i \in Items : /\ row'[i].status = row[i].status
                          /\ \/ row'[i].parent = row[i].parent
                             \/ row'[i].parent = NoMaster /\ \A m \in Masters : row[i].parent = m => master'[m].marks = {}
                          /\ i \in trash' => i \in trash
                          /\ i \in files => i \in files' \/ i \in trash,
         \A q \in Swaps : swap[q].state # "none" =>
           /\ swap'[q].target = swap[q].target /\ swap'[q].state # "none"
           /\ swap[q].state # "done" => swap'[q].state # "done"
  PROVE  DataInv'
<1>1. \A j \in Items : (Pending(j) => Pending(j)') /\ (Targeted(j) => Targeted(j)')
  BY DEF Pending, Targeted
<1>2. ASSUME NEW j \in Items
      PROVE  Shown(j)'
  BY <1>1 DEF Shown, DataInv
<1>3. ASSUME NEW m \in Masters, NEW s \in Stores, s \in master'[m].marks
      PROVE  \E j \in Items : Witness(m, s, j)'
  <2>1. master'[m].marks # {} /\ s \in master[m].marks
    BY <1>3
  <2>2. PICK j \in Items : Witness(m, s, j)
    BY <2>1 DEF DataInv
  <2>3. Witness(m, s, j)'
    BY <2>1, <2>2, <1>1 DEF Witness
  <2>4. QED
    BY <2>3
<1>4. \A m \in Masters : master'[m].marks # {} => master'[m].status = "listed"
  BY DEF DataInv
<1>5. QED
  BY <1>2, <1>3, <1>4 DEF DataInv

LEMMA StartData ==
  ASSUME ProductConstants, TypedInv, DataInv, NEW p \in Procs,
         \/ \E m \in Masters, s \in Stores : StartList(p, m, s)
         \/ \E i \in Items : StartDelete(p, i)
         \/ \E s \in Stores : StartSync(p, s)
         \/ \E q \in Swaps : StartSwap(p, q)
  PROVE  DataInv'
<1>1. /\ UNCHANGED <<master, row, live, files, trash>>
      /\ swap' = swap \/ \E q \in Swaps : swap' = [swap EXCEPT ![q].state = "running"]
  BY DEF StartList, StartDelete, StartSync, StartSwap
<1>2. \A o \in Swaps : /\ swap'[o].target = swap[o].target
                       /\ swap'[o].state = swap[o].state \/ swap'[o].state = "running"
  <2>1. CASE swap' = swap
    BY <2>1
  <2>2. ASSUME NEW q \in Swaps, swap' = [swap EXCEPT ![q].state = "running"]
        PROVE  \A o \in Swaps : /\ swap'[o].target = swap[o].target
                                /\ swap'[o].state = swap[o].state \/ swap'[o].state = "running"
    BY <2>2, SwapState DEF SwapStates
  <2>3. QED
    BY <1>1, <2>1, <2>2
<1>3. QED
  BY <1>1, <1>2, CalmData

LEMMA RequestData ==
  ASSUME ProductConstants, TypedInv, DataInv,
         \/ \E i \in Items : Clean(i)
         \/ \E q \in Swaps, m \in Drafts, i \in Items : Preview(q, m, i)
         \/ \E q \in Swaps : Confirm(q) \/ CancelSwap(q) \/ \E o \in Swaps : ConfirmAgain(q, o)
         \/ \E m \in Masters : DeleteMaster(m)
         \/ NextDay
  PROVE  DataInv'
<1>1. ASSUME NEW i \in Items, Clean(i)
      PROVE  DataInv'
  <2>1. /\ UNCHANGED <<day, master, row, live, swap, work>> /\ i \in trash
        /\ trash' = trash \ {i} /\ files' = files \ {i}
    BY <1>1 DEF Clean, FilesOf
  <2>2. QED
    BY <2>1, CalmData
<1>2. CASE \/ \E q \in Swaps, m \in Drafts, i \in Items : Preview(q, m, i)
           \/ \E q \in Swaps : Confirm(q) \/ CancelSwap(q) \/ \E o \in Swaps : ConfirmAgain(q, o)
  BY <1>2, RequestEffects, CalmData
<1>3. ASSUME NEW m \in Masters, DeleteMaster(m)
      PROVE  DataInv'
  <2>1. /\ UNCHANGED <<day, live, files, trash, work>>
        /\ master'[m].marks = {}
        /\ \A n \in Masters \ {m} : master'[n] = master[n]
        /\ \A i \in Items : /\ row'[i].status = row[i].status
                            /\ \/ row'[i].parent = row[i].parent
                               \/ row[i].parent = m /\ row'[i].parent = NoMaster
        /\ \A q \in Swaps : /\ swap'[q].draft = swap[q].draft /\ swap'[q].target = swap[q].target
                            /\ \/ swap'[q].state = swap[q].state
                               \/ swap[q].state \in {"ready", "failed"} /\ swap'[q].state = "cancelled"
    BY <1>3, MasterDeleted
  <2>2. /\ \A n \in Masters : /\ master'[n].marks # {} => master'[n].marks = master[n].marks
                              /\ master[n].status = "listed" /\ master'[n].marks # {} =>
                                   master'[n].status = "listed"
        /\ \A i \in Items : /\ row'[i].status = row[i].status
                            /\ \/ row'[i].parent = row[i].parent
                               \/ row'[i].parent = NoMaster /\ \A n \in Masters : row[i].parent = n => master'[n].marks = {}
    BY <2>1
  <2>3. QED
    BY <2>1, <2>2, CalmData
<1>4. CASE NextDay
  BY <1>4, CalmData DEF NextDay
<1>5. QED
  BY <1>1, <1>2, <1>3, <1>4

-----------------------------------------------------------------------------
LEMMA InitProducts ==
  ASSUME ProductConstants
  PROVE  Init => ProductInv
<1> SUFFICES ASSUME Init PROVE ProductInv
  OBVIOUS
<1>1. TypedInv
  BY InitTyped
<1>2. \A p \in Procs : work[p].kind = "none"
  BY RestTyped DEF Init
<1>3. WorkInv
  BY <1>2 DEF WorkInv, WorkHolds, SwapRuns, RowThere, CallHolds, ReadHolds, Works, Apart, Putting
<1>4. DataInv
  <2>1. \A i \in Items : Shown(i)
    BY RestTyped DEF Init, Shown
  <2>2. \A m \in Masters : master[m].marks = {}
    BY DEF Init
  <2>3. QED
    BY <2>1, <2>2 DEF DataInv
<1>5. QED
  BY <1>1, <1>3, <1>4 DEF ProductInv

LEMMA ProductStep ==
  ASSUME ProductConstants, FreshNumbers = TRUE, NoLostUpdates = TRUE, ProductInv, [Next]_vars
  PROVE  ProductInv'
<1>1. TypedInv /\ WorkInv /\ DataInv
  BY DEF ProductInv
<1>2. TypedInv'
  BY <1>1, TypedStep
<1>3. CASE UNCHANGED vars
  <2>1. UNCHANGED <<master, row, live, files, trash, swap, work>>
    BY <1>3 DEF vars
  <2>2. \A q \in Procs : \A v \in WorkRows : v = work[q] => Kept(v)
    BY <2>1, SameKept
  <2>3. WorkInv'
    BY <2>1, <2>2, <1>1, AllKept
  <2>4. DataInv'
    BY <2>1, <1>1, CalmData
  <2>5. QED
    BY <1>2, <2>3, <2>4 DEF ProductInv
<1>4. ASSUME NEW p \in Procs,
             \/ \E m \in Masters, s \in Stores : StartList(p, m, s)
             \/ \E i \in Items : StartDelete(p, i)
             \/ \E s \in Stores : StartSync(p, s)
             \/ \E q \in Swaps : StartSwap(p, q)
      PROVE  WorkInv' /\ DataInv'
  BY <1>1, <1>4, StartWork, StartData
<1>5. ASSUME NEW p \in Procs,
             Upload(p) \/ Put(p) \/ DeleteCall(p) \/ \E got \in SUBSET live : Fetch(p, got)
      PROVE  WorkInv' /\ DataInv'
  BY <1>1, <1>5, MoveWork, FetchWork, MoveData
<1>6. ASSUME NEW p \in Procs,
             \/ FailEarly(p) \/ FailLate(p) \/ GiveUp(p)
             \/ CommitList(p) \/ CommitSwap(p) \/ CommitDelete(p) \/ CommitSync(p)
      PROVE  WorkInv' /\ DataInv'
  BY <1>1, <1>6, FailWork, CommitWork, SyncWork, FailData, ListData, SwapData, DeleteData, SyncData
<1>7. CASE \/ \E i \in Items : Clean(i)
           \/ \E q \in Swaps, m \in Drafts, i \in Items : Preview(q, m, i)
           \/ \E q \in Swaps : Confirm(q) \/ CancelSwap(q) \/ \E o \in Swaps : ConfirmAgain(q, o)
           \/ \E m \in Masters : DeleteMaster(m)
           \/ NextDay
  BY <1>1, <1>2, <1>7, RequestWork, RequestData DEF ProductInv
<1>8. QED
  BY <1>2, <1>3, <1>4, <1>5, <1>6, <1>7 DEF Next, ProductInv

LEMMA ProductsHold ==
  ASSUME ProductConstants, FreshNumbers = TRUE, NoLostUpdates = TRUE
  PROVE  Spec => []ProductInv
<1>1. ProductInv /\ [Next]_vars => ProductInv'
  BY ProductStep
<1>2. QED
  BY <1>1, InitProducts, PTL DEF Spec

(* A product that is marked with a store has a row there that is active, or *)
(* was the target of a replacement: no sync, deletion or replacement takes  *)
(* the row and leaves the mark, whatever else it overlaps with              *)
(* (run_listing_product_attempt skips a marked store for good).             *)
THEOREM MarksMeanProducts ==
  ASSUME ProductConstants, FreshNumbers = TRUE, NoLostUpdates = TRUE
  PROVE  Spec => []MarkMeansProduct
<1>1. ProductInv => MarkMeansProduct
  <2>1. ASSUME ProductInv, NEW m \in Masters, NEW s \in master[m].marks
        PROVE  \E i \in Children(m) : StoreOf(i) = s /\ (row[i].status = "active" \/ Targeted(i))
    <3>1. s \in Stores
      BY <2>1 DEF ProductInv, TypedInv, MasterRows
    <3>2. PICK i \in Items : Witness(m, s, i)
      BY <2>1, <3>1 DEF ProductInv, DataInv
    <3>3. QED
      BY <3>2 DEF Witness, Children
  <2>2. QED
    BY <2>1 DEF MarkMeansProduct
<1>2. QED
  BY <1>1, ProductsHold, PTL

(* A step takes the images of an item that is shown only by a rollback of   *)
(* what works on the item.                                                  *)
LEMMA ImagesLost ==
  ASSUME ProductConstants, ProductInv, [Next]_vars
  PROVE  LossStep
<1>1. TypedInv /\ WorkInv /\ DataInv
  BY DEF ProductInv
<1> SUFFICES ASSUME NEW i \in files, i \in live', i \notin files'
             PROVE  RolledBack(i)
  BY DEF LossStep
<1>2. i \in Items
  BY <1>1 DEF TypedInv
<1>3. ASSUME NEW p \in Procs, FailEarly(p) \/ FailLate(p)
      PROVE  RolledBack(i)
  <2>1. PICK w \in WorkRows : w = work[p]
    BY <1>1 DEF TypedInv
  <2>2. w.item = i
    BY <1>3, <2>1 DEF FailEarly, FailLate, RollBack
  <2>3. w.kind = "list" => row[w.item].status = "none"
    BY <1>1, <2>1 DEF WorkInv, WorkHolds, RowThere
  <2>4. QED
    BY <1>3, <2>1, <2>2, <2>3 DEF RolledBack
<1>4. ASSUME NEW j \in Items, Clean(j)
      PROVE  FALSE
  <2>1. j = i /\ i \in trash /\ live' = live
    BY <1>4 DEF Clean, FilesOf
  <2>2. Shown(i)
    BY <1>1, <1>2 DEF DataInv
  <2>3. QED
    BY <2>1, <2>2 DEF Shown
<1>5. ASSUME files' = files
      PROVE  FALSE
  BY <1>5
<1>6. ASSUME NEW p \in Procs, Upload(p)
      PROVE  FALSE
  BY <1>6 DEF Upload
<1>7. QED
  BY <1>3, <1>4, <1>5, <1>6
     DEF Next, vars, StartList, StartDelete, StartSync, StartSwap, Put, CommitList, CommitSwap, DeleteCall,
     CommitDelete, Fetch, CommitSync, GiveUp, Preview, Confirm, CancelSwap, ConfirmAgain, DeleteMaster, NextDay

(* An item that Rakuten shows as that of a product has its images, unless a *)
(* replacement was asked for it and is not done; and any item that is       *)
(* shown, also one without a row or a product, loses them only when its own *)
(* listing or replacement is rolled back, a listing before the item has a   *)
(* row (rollback_uploaded_listing_images,                                   *)
(* perform_deleted_product_image_cleanup).  That an item of no product has  *)
(* images is not said: a listing may be rolled back although the put has    *)
(* arrived, and a sync then gives the item an active row.                   *)
THEOREM ImagesAreKept ==
  ASSUME ProductConstants, FreshNumbers = TRUE, NoLostUpdates = TRUE
  PROVE  Spec => ImagesKept
<1>1. ProductInv => ProductsHaveImages
  <2>1. ASSUME ProductInv, NEW i \in live, row[i].parent # NoMaster
        PROVE  i \in files \/ \E q \in Swaps : swap[q].target = i /\ swap[q].state \notin {"none", "done"}
    <3>1. i \in Items
      BY <2>1 DEF ProductInv, TypedInv
    <3>2. Shown(i)
      BY <2>1, <3>1 DEF ProductInv, DataInv
    <3>3. QED
      BY <2>1, <3>2 DEF Shown, Pending
  <2>2. QED
    BY <2>1 DEF ProductsHaveImages
<1>2. ProductInv /\ [Next]_vars => LossStep
  BY ImagesLost
<1>3. QED
  BY <1>1, <1>2, ProductsHold, PTL DEF ImagesKept, Spec

(* A store sync that was given every item of its store leaves the rows of   *)
(* the store as Rakuten is: between its question and its commit no other    *)
(* task changes the store (perform_store_sync, task_resource_scopes).       *)
THEOREM SyncsTellTheTruth ==
  ASSUME ProductConstants, FreshNumbers = TRUE, NoLostUpdates = TRUE
  PROVE  Spec => SyncRepairs
<1>1. ASSUME ProductInv
      PROVE  SyncStep
  <2>1. ASSUME ~ShortListings, NEW p \in Procs, CommitSync(p), NEW i \in ItemsIn(StoreOf(work[p].item))
        PROVE  row'[i].status = "active" <=> i \in live
    <3>1. TypedInv /\ WorkInv
      BY <1>1 DEF ProductInv
    <3>2. PICK w \in WorkRows : w = work[p]
      BY <3>1 DEF TypedInv
    <3>3. PICK s : s = StoreOf(w.item)
      OBVIOUS
    <3>4. /\ w.kind = "sync" /\ w.pc = "commit"
          /\ \A j \in Items : /\ j \notin RowsIn(s) /\ j \notin w.got => row'[j] = row[j]
                              /\ j \in RowsIn(s) \ w.got => row'[j].status = "removed"
                              /\ j \in w.got => row'[j].status = "active"
      BY <2>1, <3>1, <3>2, <3>3, SyncCommitted
    <3>5. i \in Items /\ StoreOf(i) = s
      BY <3>2, <3>3 DEF ItemsIn
    <3>6. i \in w.got <=> i \in live
      BY <2>1, <3>1, <3>2, <3>3, <3>4, <3>5 DEF WorkInv, WorkHolds, CallHolds
    <3>7. i \notin RowsIn(s) => row[i].status = "none"
      BY <3>5 DEF RowsIn, ItemsIn
    <3>8. QED
      BY <3>4, <3>5, <3>6, <3>7
  <2>2. QED
    BY <2>1 DEF SyncStep
<1>2. QED
  BY <1>1, ProductsHold, PTL DEF SyncRepairs

=============================================================================
