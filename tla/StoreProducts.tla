--------------------------- MODULE StoreProducts ---------------------------
(***************************************************************************)
(* The products of the stores: what Rakuten shows, the rows that copy it,  *)
(* the marks by which a managed product knows the stores it is listed in,  *)
(* and the five kinds of work that keep them in step: listing, deletion,   *)
(* store sync, cleanup of images and replacement                           *)
(* (app/services/crawler_service.py).                                      *)
(*                                                                         *)
(* An item is named by its manage number, that is by the code of the       *)
(* product, the store and the day of the listing; its images are kept      *)
(* under paths made from that number.  Each task works on one product.     *)
(* Queues, limits and retries are the subject of ListingTasks, SyncTasks.  *)
(***************************************************************************)
EXTENDS Naturals, FiniteSets

CONSTANTS
  Masters,   (* products that are not bound to a store                     *)
  Drafts,    (* those of them that a replacement has yet to crawl          *)
  Stores,
  NoMaster,
  CodeOf,    (* the part of the product id that a manage number holds      *)
  Swaps,     (* replacement tasks                                          *)
  Procs,     (* workers                                                    *)
  MaxDays,   (* bound: days that see a listing                             *)
  FreshNumbers,   (* TRUE: a product is listed again in a store when no    *)
                  (* row and no cleanup is left of a listing of that day   *)
  ShortListings,  (* TRUE: Rakuten's pages may leave out an item           *)
  NoLostUpdates   (* TRUE: of transactions that overlap, none writes a     *)
                  (* product that another has written                      *)

VARIABLES
  day,
  master,   \* review status of the masters, the stores they are marked with
  row,      \* the store products: status and parent_product_id
  live,     \* the items Rakuten has
  files,    \* the items whose images are in the cabinet
  trash,    \* the items whose images wait for cleanup
  swap,     \* replacement tasks: state, pending product, target
  work      \* what each worker does, and what its transaction has read

vars == <<day, master, row, live, files, trash, swap, work>>

Items == {CodeOf[m] : m \in Masters} \X Stores \X (1..MaxDays)
StoreOf(i) == i[2]
(* build_listing_manage_number *)
NumberFor(m, s) == <<CodeOf[m], s, day>>

MasterRows == [status : {"none", "pending", "approved", "listed", "gone"},
               marks : SUBSET Stores]
Usable == {"pending", "approved", "listed"}
ItemRows == [status : {"none", "active", "removed"}, parent : Masters \cup {NoMaster}]
NoRow == [status |-> "none", parent |-> NoMaster]
Children(m) == {i \in Items : row[i].status # "none" /\ row[i].parent = m}

(* What the proofs ask of the constants: there are a product, a store and a *)
(* day, drafts are products, and no two products share their code.          *)
ProductConstants ==
  /\ Masters # {} /\ NoMaster \notin Masters /\ Drafts \subseteq Masters
  /\ Stores # {} /\ MaxDays \in Nat \ {0}
  /\ \A m, n \in Masters : CodeOf[m] = CodeOf[n] => m = n

FirstItem == CHOOSE i \in Items : TRUE
NoSwap == [state |-> "none", draft |-> NoMaster, target |-> FirstItem]

Rest == [kind |-> "none", pc |-> "idle", item |-> FirstItem, who |-> NoMaster,
         marks |-> [m \in Masters |-> {}], parents |-> [i \in Items |-> NoMaster],
         got |-> {}]

-----------------------------------------------------------------------------
(***************************************************************************)
(* Which tasks may run together: a sync takes its store, the others the    *)
(* product, under the name of its parent if it has one.                    *)
(***************************************************************************)
RootOf(i) == IF row[i].parent = NoMaster THEN i ELSE row[i].parent
RootsOf(w) ==
  CASE w.kind = "list" -> {w.who}
    [] w.kind = "delete" -> {RootOf(w.item)}
    [] w.kind = "swap" -> {RootOf(w.item), swap[w.who].draft}
    [] OTHER -> {}

ConflictByProduct(v, w) == RootsOf(v) \cap RootsOf(w) # {}

Conflict(v, w) ==
  \/ "none" \notin {v.kind, w.kind} /\ "sync" \in {v.kind, w.kind}
     /\ StoreOf(v.item) = StoreOf(w.item)
  \/ RootsOf(v) \cap RootsOf(w) # {}

Admits(w) == \A p \in Procs : ~Conflict(work[p], w)

Take(p, w) ==
  /\ work[p].kind = "none"
  /\ Admits(w)
  /\ work' = [work EXCEPT ![p] = w]

Leave(p) == work' = [work EXCEPT ![p] = Rest]

(* What a transaction has read of the marks of some masters. *)
Read(ms) == [m \in Masters |-> IF m \in ms THEN master[m].marks ELSE {}]

(* A transaction that updates rows another has deleted fails: StaleDataError *)
MayWrite(p, ms) ==
  \A m \in ms : /\ master[m].status \in Usable
                /\ NoLostUpdates => master[m].marks = work[p].marks[m]

(* upsert_product_listed_store_record *)
Marked(r, stores) == [status |-> "listed", marks |-> stores]
(* remove_product_listed_store_mark *)
Unmarked(r, stores) ==
  [status |-> IF stores # {} THEN "listed"
              ELSE IF r.status = "listed" THEN "approved" ELSE r.status,
   marks |-> stores]
Unmark(p, ms, s) ==
  [m \in Masters |-> IF m \in ms THEN Unmarked(master[m], work[p].marks[m] \ {s})
                     ELSE master[m]]

-----------------------------------------------------------------------------
(***************************************************************************)
(* Listing and replacement put an item: images, then item, then stock.     *)
(* Files are uploaded over those of the same name.                         *)
(***************************************************************************)
Putting == {"list", "swap"}

(* run_listing_product_attempt: one that finds its mark succeeds at once.   *)
StartList(p, m, s) ==
  /\ master[m].status \in {"approved", "listed"} /\ s \notin master[m].marks
  /\ FreshNumbers => row[NumberFor(m, s)].status = "none" /\ NumberFor(m, s) \notin trash
  /\ Take(p, [Rest EXCEPT !.kind = "list", !.pc = "upload", !.item = NumberFor(m, s),
                          !.who = m, !.marks = Read({m})])
  /\ UNCHANGED <<day, master, row, live, files, trash, swap>>

(* perform_product_replacement works with the target it reads here. *)
StartSwap(p, q) ==
  LET i == swap[q].target IN
  /\ swap[q].state = "queued"
  /\ row[i].status # "none"
  /\ Take(p, [Rest EXCEPT !.kind = "swap", !.pc = "upload", !.item = i, !.who = q,
                          !.parents = [Rest.parents EXCEPT ![i] = row[i].parent]])
  /\ swap' = [swap EXCEPT ![q].state = "running"]
  /\ UNCHANGED <<day, master, row, live, files, trash>>

Upload(p) ==
  /\ work[p].kind \in Putting /\ work[p].pc = "upload"
  /\ files' = files \cup {work[p].item}
  /\ work' = [work EXCEPT ![p].pc = "put"]
  /\ UNCHANGED <<day, master, row, live, trash, swap>>

Put(p) ==
  /\ work[p].kind \in Putting /\ work[p].pc = "put"
  /\ live' = live \cup {work[p].item}
  /\ work' = [work EXCEPT ![p].pc = "commit"]
  /\ UNCHANGED <<day, master, row, files, trash, swap>>

(* rollback_uploaded_listing_images: failures are warnings. *)
RollBack(i) == files' \in {files, files \ {i}}

SwapEnds(p, state) ==
  swap' = IF work[p].kind = "swap" THEN [swap EXCEPT ![work[p].who].state = state] ELSE swap

(* An error or a cancellation before the item is known to be written: the   *)
(* answer to the put may be lost.                                           *)
FailEarly(p) ==
  LET i == work[p].item IN
  /\ work[p].kind \in Putting /\ work[p].pc \in {"upload", "put"}
  /\ RollBack(i)
  /\ live' \in {live, IF work[p].pc = "put" THEN live \cup {i} ELSE live}
  /\ SwapEnds(p, "failed") /\ Leave(p)
  /\ UNCHANGED <<day, master, row, trash>>

(* After that a listing takes back the item, if it can, and its images.     *)
FailLate(p) ==
  LET i == work[p].item IN
  /\ work[p].kind \in Putting /\ work[p].pc = "commit"
  /\ IF work[p].kind = "list" THEN live' \in {live, live \ {i}} /\ RollBack(i)
                              ELSE UNCHANGED <<live, files>>
  /\ SwapEnds(p, "failed") /\ Leave(p)
  /\ UNCHANGED <<day, master, row, trash>>

CommitList(p) ==
  LET w == work[p]
      stores == w.marks[w.who] \cup {StoreOf(w.item)}
  IN
  /\ w.kind = "list" /\ w.pc = "commit"
  /\ MayWrite(p, {w.who})
  /\ row' = [row EXCEPT ![w.item] = [status |-> "active", parent |-> w.who]]
  /\ master' = [master EXCEPT ![w.who] = Marked(@, stores)]
  /\ Leave(p)
  /\ UNCHANGED <<day, live, files, trash, swap>>

NoParents(p) == {}
OldParents(p) ==
  LET w == work[p] IN
  {m \in Masters : m = w.parents[w.item] /\ master[m].status = "listed"
                   /\ StoreOf(w.item) \in master[m].marks}

(* The last transaction of a replacement reads all but the target anew. The *)
(* draft becomes the managed product of the target.                         *)
CommitSwap(p) ==
  LET w == work[p]
      q == swap[w.who].draft
      store == StoreOf(w.item)
      old == OldParents(p)
      without == [m \in Masters |->
                    IF m \in old THEN Unmarked(master[m], master[m].marks \ {store}) ELSE master[m]]
  IN
  /\ w.kind = "swap" /\ w.pc = "commit"
  /\ row[w.item].status # "none"
  /\ master[q].status = "pending"
  /\ row' = [row EXCEPT ![w.item].parent = q]
  /\ master' = [without EXCEPT ![q] = Marked(@, {store})]
  /\ swap' = [swap EXCEPT ![w.who].state = "done"]
  /\ Leave(p)
  /\ UNCHANGED <<day, live, files, trash>>

-----------------------------------------------------------------------------
(***************************************************************************)
(* Deletion: one transaction around the call to Rakuten, which a missing   *)
(* item does not fail.                                                     *)
(***************************************************************************)
StartDelete(p, i) ==
  /\ row[i].status # "none"
  /\ Take(p, [Rest EXCEPT !.kind = "delete", !.pc = "call", !.item = i,
                          !.marks = Read({row[i].parent}),
                          !.parents = [Rest.parents EXCEPT ![i] = row[i].parent]])
  /\ UNCHANGED <<day, master, row, live, files, trash, swap>>

DeleteCall(p) ==
  /\ work[p].kind = "delete" /\ work[p].pc = "call"
  /\ live' = live \ {work[p].item}
  /\ work' = [work EXCEPT ![p].pc = "commit"]
  /\ UNCHANGED <<day, master, row, files, trash, swap>>

CommitDelete(p) ==
  LET w == work[p]
      i == w.item
      marked == {m \in Masters : m = w.parents[i] /\ StoreOf(i) \in w.marks[m]}
  IN
  /\ w.kind = "delete" /\ w.pc = "commit"
  /\ MayWrite(p, marked)
  /\ row' = [row EXCEPT ![i] = NoRow]
  /\ master' = Unmark(p, marked, StoreOf(i))
  /\ trash' = trash \cup {i}
  /\ Leave(p)
  /\ UNCHANGED <<day, live, files, swap>>

(* perform_deleted_product_image_cleanup: files are found by their paths.   *)
CodeFiles(i) == {j \in files : j[1] = i[1] /\ j[2] = i[2]}
FilesOf(i) == {i}
Clean(i) ==
  /\ i \in trash
  /\ files' = files \ FilesOf(i) /\ trash' = trash \ {i}
  /\ UNCHANGED <<day, master, row, live, swap, work>>

-----------------------------------------------------------------------------
(***************************************************************************)
(* Store sync: one transaction, which reads rows and marks before it asks  *)
(* Rakuten for the items.  The total it compares their number with is      *)
(* that same number: no listing of one window counts as incomplete.        *)
(***************************************************************************)
ItemsIn(s) == {i \in Items : StoreOf(i) = s}
RowsIn(s) == {i \in ItemsIn(s) : row[i].status # "none"}

StartSync(p, s) ==
  /\ \E i \in ItemsIn(s) :
       Take(p, [Rest EXCEPT !.kind = "sync", !.pc = "fetch", !.item = i,
                            !.marks = Read({row[j].parent : j \in RowsIn(s)}),
                            !.parents = [j \in Items |-> IF j \in RowsIn(s)
                                                         THEN row[j].parent ELSE NoMaster]])
       /\ i = CHOOSE j \in ItemsIn(s) : TRUE
  /\ UNCHANGED <<day, master, row, live, files, trash, swap>>

Fetch(p, got) ==
  LET there == live \cap ItemsIn(StoreOf(work[p].item)) IN
  /\ work[p].kind = "sync" /\ work[p].pc = "fetch"
  /\ got \subseteq there
  /\ ~ShortListings => got = there
  /\ work' = [work EXCEPT ![p].pc = "commit", ![p].got = got]
  /\ UNCHANGED <<day, master, row, live, files, trash, swap>>

(* mark_missing_store_products_removed takes marks for rows that were       *)
(* removed before, too.  Then the items: one without a row gets one,        *)
(* without a parent.                                                        *)
Missing(p) == RowsIn(StoreOf(work[p].item)) \ work[p].got

CommitSync(p) ==
  LET w == work[p]
      store == StoreOf(w.item)
      missing == Missing(p)
      marked == {m \in Masters : store \in w.marks[m] /\ \E i \in missing : w.parents[i] = m}
  IN
  /\ w.kind = "sync" /\ w.pc = "commit"
  /\ MayWrite(p, marked)
  /\ row' = [i \in Items |-> IF i \in missing THEN [row[i] EXCEPT !.status = "removed"]
                             ELSE IF i \in w.got THEN [row[i] EXCEPT !.status = "active"]
                             ELSE row[i]]
  /\ master' = Unmark(p, marked, store)
  /\ Leave(p)
  /\ UNCHANGED <<day, live, files, trash, swap>>

(* A transaction that fails, or a process that dies, leaves what it has     *)
(* done at Rakuten; its task is then reconciled to failed.                  *)
GiveUp(p) ==
  /\ work[p].kind # "none"
  /\ SwapEnds(p, "failed") /\ Leave(p)
  /\ UNCHANGED <<day, master, row, live, files, trash>>

-----------------------------------------------------------------------------
(***************************************************************************)
(* Requests.                                                               *)
(***************************************************************************)

(* create_product_replacement_preview *)
Preview(q, m, i) ==
  /\ swap[q].state = "none" /\ m \in Drafts /\ master[m].status = "none"
  /\ row[i].status # "none"
  /\ ~\E o \in Swaps : swap[o].target = i /\ swap[o].state \in {"ready", "queued", "running"}
  /\ master' = [master EXCEPT ![m].status = "pending"]
  /\ swap' = [swap EXCEPT ![q] = [state |-> "ready", draft |-> m, target |-> i]]
  /\ UNCHANGED <<day, row, live, files, trash, work>>

Confirmable(q) == row[swap[q].target].status # "none" /\ master[swap[q].draft].status = "pending"

(* confirm_product_replacement, retry_sync_task: the retry does not look.   *)
Confirm(q) ==
  /\ \/ swap[q].state = "ready" /\ Confirmable(q)
     \/ swap[q].state \in {"failed", "cancelled"}
  /\ swap' = [swap EXCEPT ![q].state = "queued"]
  /\ UNCHANGED <<day, master, row, live, files, trash, work>>

(* confirm_pending_product_replacement: a new task, where the last one of   *)
(* the pending product is over.                                             *)
ConfirmAgain(q, o) ==
  /\ swap[q].state \in {"failed", "cancelled"} /\ Confirmable(q)
  /\ swap[o].state = "none"
  /\ swap' = [swap EXCEPT ![o] = [swap[q] EXCEPT !.state = "queued"]]
  /\ UNCHANGED <<day, master, row, live, files, trash, work>>

(* cancel_product_replacement deletes the pending product. *)
CancelSwap(q) ==
  LET m == swap[q].draft IN
  /\ swap[q].state \in {"ready", "failed"}
  /\ swap' = [swap EXCEPT ![q].state = "cancelled"]
  /\ master' = IF master[m].status = "pending" THEN [master EXCEPT ![m].status = "gone"]
                                               ELSE master
  /\ UNCHANGED <<day, row, live, files, trash, work>>

(* delete_products, of a product that is in no store. *)
DeleteMaster(m) ==
  /\ master[m].status \in Usable
  /\ master' = [master EXCEPT ![m] = [status |-> "gone", marks |-> {}]]
  /\ row' = IF master[m].status = "listed"
            THEN [i \in Items |-> IF i \in Children(m) THEN [row[i] EXCEPT !.parent = NoMaster]
                                                       ELSE row[i]]
            ELSE row
  /\ swap' = [q \in Swaps |-> IF swap[q].draft = m /\ swap[q].state \in {"ready", "failed"}
                              THEN [swap[q] EXCEPT !.state = "cancelled"] ELSE swap[q]]
  /\ UNCHANGED <<day, live, files, trash, work>>

NextDay ==
  /\ day < MaxDays
  /\ day' = day + 1
  /\ UNCHANGED <<master, row, live, files, trash, swap, work>>

Init ==
  /\ day = 1
  /\ master = [m \in Masters |-> [status |-> IF m \in Drafts THEN "none" ELSE "approved",
                                  marks |-> {}]]
  /\ row = [i \in Items |-> NoRow]
  /\ live = {} /\ files = {} /\ trash = {}
  /\ swap = [q \in Swaps |-> NoSwap]
  /\ work = [p \in Procs |-> Rest]

Next ==
  \/ \E p \in Procs :
       \/ \E m \in Masters, s \in Stores : StartList(p, m, s)
       \/ \E i \in Items : StartDelete(p, i)
       \/ \E s \in Stores : StartSync(p, s)
       \/ \E q \in Swaps : StartSwap(p, q)
       \/ Upload(p) \/ Put(p) \/ FailEarly(p) \/ FailLate(p)
       \/ CommitList(p) \/ CommitSwap(p)
       \/ DeleteCall(p) \/ CommitDelete(p)
       \/ \E got \in SUBSET live : Fetch(p, got)
       \/ CommitSync(p) \/ GiveUp(p)
  \/ \E i \in Items : Clean(i)
  \/ \E q \in Swaps, m \in Drafts, i \in Items : Preview(q, m, i)
  \/ \E q \in Swaps : Confirm(q) \/ CancelSwap(q) \/ \E o \in Swaps : ConfirmAgain(q, o)
  \/ \E m \in Masters : DeleteMaster(m)
  \/ NextDay

Spec == Init /\ [][Next]_vars

-----------------------------------------------------------------------------
ProductsTypeOK ==
  /\ day \in 1..MaxDays
  /\ master \in [Masters -> MasterRows] /\ row \in [Items -> ItemRows]
  /\ live \subseteq Items /\ files \subseteq Items /\ trash \subseteq Items
  /\ \A q \in Swaps : swap[q].target \in Items /\ swap[q].draft \in Masters \cup {NoMaster}
  /\ \A p \in Procs : work[p].item \in Items /\ work[p].got \subseteq Items

(* An item that a replacement was asked for. *)
Targeted(i) == \E q \in Swaps : swap[q].target = i /\ swap[q].state # "none"

(* A mark stands for a product in the store: run_listing_product_attempt    *)
(* and create_listing_task skip a store for the mark alone, so a mark that  *)
(* is left behind keeps the product out of that store for good.  A          *)
(* replaced item may be one the store has lost.                             *)
MarkMeansProduct ==
  \A m \in Masters : \A s \in master[m].marks : \E i \in Children(m) :
    StoreOf(i) = s /\ (row[i].status = "active" \/ Targeted(i))

(* A product is listed once in a store: creating a listing refuses a store  *)
(* the product is listed in already.                                        *)
ListedOnce ==
  \A m \in Masters, s \in Stores :
    Cardinality({i \in Children(m) : StoreOf(i) = s /\ row[i].status = "active"}) =< 1

(* An item that Rakuten shows as that of a product has its images, unless a *)
(* replacement was asked for it and is not done.                            *)
ProductsHaveImages ==
  \A i \in live : row[i].status = "active" /\ row[i].parent # NoMaster =>
    i \in files \/ \E q \in Swaps : swap[q].target = i /\ swap[q].state \notin {"none", "done"}

(* Any item that Rakuten shows, with a row or without, loses its images     *)
(* only when the listing or replacement that works on it fails and rolls    *)
(* back its own; that of a listing has no row yet.                          *)
RolledBack(i) ==
  \E p \in Procs : /\ work[p].item = i /\ (FailEarly(p) \/ FailLate(p))
                   /\ work[p].kind = "list" => row[i].status = "none"
LossStep == \A i \in files \cap live' : i \notin files' => RolledBack(i)

(* Failures of other tasks and the cleanup of earlier items take no images  *)
(* of an item that is shown (rollback_uploaded_listing_images,              *)
(* perform_deleted_product_image_cleanup).  Only the second part is about   *)
(* items of no product: one whose listing is rolled back after the answer   *)
(* to the put was lost stays at Rakuten without images, and a sync then     *)
(* gives it an active row without a parent.                                 *)
ImagesKept == []ProductsHaveImages /\ [][LossStep]_vars

(* A store sync that has been given all items leaves the rows of its store  *)
(* as Rakuten is: no task has changed the store behind its back.            *)
SyncStep ==
  ~ShortListings => \A p \in Procs : CommitSync(p) =>
    \A i \in ItemsIn(StoreOf(work[p].item)) : row'[i].status = "active" <=> i \in live
SyncRepairs == [][SyncStep]_vars
=============================================================================
