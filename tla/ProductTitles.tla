--------------------------- MODULE ProductTitles ---------------------------
(***************************************************************************)
(* The title and subtitle of a product, and their versions                 *)
(* (ai_title_service.py, crawler_service.py).  A user has a model write    *)
(* versions, saves one of them as the title, edits the title himself or    *)
(* deletes versions; a task does so for products of a store.  A version is *)
(* written, a connection tested, and a store synchronised in one long      *)
(* transaction each, between whose reads and writes anything else happens; *)
(* the other operations are short and are one step.                        *)
(*                                                                         *)
(* The title is a column of the row, the subtitle a field of its payload:  *)
(* a text stands for a pair, and a row may hold the halves of two pairs.   *)
(***************************************************************************)
EXTENDS Naturals, FiniteSets

CONSTANTS
  Texts, First,       \* what titles can be; what was crawled
  Writers, Syncers, Testers,
  PromptWriters,      \* TRUE: the status does not change while a version
                      \* is written
  SyncsAlone,         \* TRUE: a title is not saved or edited while a store
                      \* is synchronised
  FreshTexts,         \* TRUE: what is written is no original word for word
  TestsAlone,         \* TRUE: settings are not saved during a test
  MaxVersions, MaxModels  \* bounds

TitleConstants ==
  /\ First \in Texts
  /\ PromptWriters \in BOOLEAN /\ SyncsAlone \in BOOLEAN
  /\ FreshTexts \in BOOLEAN /\ TestsAlone \in BOOLEAN
  /\ MaxVersions \in Nat /\ MaxModels \in Nat \ {0}
ASSUME TitlesAssumption == TitleConstants

VARIABLES
  product,  \* the row of the product
  version,  \* rows of lt_product_title_versions by id
  remote,   \* the text that the store shows
  chosen,   \* the written version that the user has chosen last
  settings, \* lt_user_ai_title_settings
  passed,   \* models whose test has passed
  doing,    \* long transactions and tasks under way
  read      \* what they have read

titleVars == <<product, version, remote, chosen, settings, passed, doing, read>>

TitleProcs == Writers \cup Syncers \cup Testers
Ids == 1..MaxVersions
ProductStatuses == {"pending", "approved", "listed", "other"}
Editable == {"pending", "listed"}

NewRow(status) == [there |-> TRUE, status |-> status, store |-> status = "listed",
                   title |-> First, sub |-> First]
NotRead == [task |-> FALSE, id |-> 0, row |-> NewRow("pending"), remote |-> First, own |-> FALSE]
NoChoice == <<>>
NoVersion == [there |-> FALSE, title |-> First, sub |-> First, source |-> "ai", selected |-> FALSE]
Rows == {v \in Ids : version[v].there}
NextId == 1 + Cardinality(Rows) + Cardinality({v \in Ids : version[v].source = "deleted"})
Shown(v) == version[v].title = product.title /\ version[v].sub = product.sub
InUse == {v \in Rows : version[v].selected}

Select(rows, v) == [w \in Ids |-> IF rows[w].there THEN [rows[w] EXCEPT !.selected = (w = v)]
                                  ELSE rows[w]]
Add(v, title, sub, source) ==
  [version EXCEPT ![v] = [there |-> TRUE, title |-> title, sub |-> sub, source |-> source,
                          selected |-> FALSE]]
Drop(rows, gone) == [w \in Ids |-> IF w \in gone THEN [NoVersion EXCEPT !.source = "deleted"]
                                   ELSE rows[w]]

(* A user may not save a title while a store is synchronised, and so on:    *)
(* what the code does not enforce.                                          *)
Writing == \E p \in Writers : doing[p] = "write"
Syncing == \E p \in Syncers : doing[p] # "idle"
Testing == \E p \in Testers : doing[p] = "test"
MaySave == SyncsAlone => ~Syncing

-----------------------------------------------------------------------------
(* list_versions: the version that is shown is the selected one; if there   *)
(* is none it is recorded as an original.                                   *)
ListVersions ==
  /\ product.there
  /\ MaySave
  /\ LET shown == {v \in Rows : Shown(v)} IN
     IF shown # {}
     THEN version' = Select(version, CHOOSE v \in shown : \A w \in shown : w <= v)
     ELSE /\ NextId \in Ids
          /\ version' = Select(Add(NextId, product.title, product.sub, "original"), NextId)
  /\ UNCHANGED <<product, remote, chosen, settings, passed, doing, read>>

(* save_title_version_in_session                                            *)
Saved(v) ==
  /\ product.there /\ product.status \in Editable
  /\ v \in Rows
  /\ product' = [product EXCEPT !.title = version[v].title, !.sub = version[v].sub]
  /\ version' = Select(version, v)
  /\ chosen' = IF version[v].source = "original" THEN NoChoice
               ELSE <<version[v].title, version[v].sub>>
SaveVersion(v) == MaySave /\ Saved(v) /\ UNCHANGED <<remote, settings, passed, doing, read>>

(* delete_title_version_in_session: not the one in use                      *)
DeleteVersion(v) ==
  /\ product.there /\ product.status \in Editable
  /\ v \in Rows /\ ~version[v].selected
  /\ version' = Drop(version, {v})
  /\ UNCHANGED <<product, remote, chosen, settings, passed, doing, read>>

(* cleanup_title_versions_for_approved_product: the version shown is kept,  *)
(* whichever of equal ones is read first; the others go.                    *)
VersionsCleaned(rows) ==
  LET shown == {v \in Rows : Shown(v)} IN
  IF Rows = {} THEN rows = version
  ELSE \/ \E v \in shown : rows = Select(Drop(version, Rows \ {v}), v)
       \/ /\ shown = {} /\ NextId \in Ids
          /\ rows = Select(Drop(Add(NextId, product.title, product.sub, "final"), Rows), NextId)

(* update_product_status, approve_pending_products_by_count                 *)
SetStatus(status) ==
  /\ product.there
  /\ PromptWriters => ~Writing
  /\ product' = [product EXCEPT !.status = status]
  /\ IF status = "approved" THEN VersionsCleaned(version') ELSE UNCHANGED version
  /\ UNCHANGED <<remote, chosen, settings, passed, doing, read>>

(* update_product_local_detail; update_store_product_detail, which changes  *)
(* the store first and may fail after it                                    *)
EditLocal(t) ==
  /\ product.there /\ product.status # "listed"
  /\ MaySave
  /\ product' = [product EXCEPT !.title = t, !.sub = t]
  /\ chosen' = NoChoice
  /\ UNCHANGED <<version, remote, settings, passed, doing, read>>
EditStore(t) ==
  /\ product.there /\ product.status = "listed" /\ product.store
  /\ MaySave
  /\ remote' = t
  /\ \/ product' = [product EXCEPT !.title = t, !.sub = t] /\ chosen' = NoChoice
     \/ UNCHANGED <<product, chosen>>
  /\ UNCHANGED <<version, settings, passed, doing, read>>
EditRemote(t) ==
  /\ remote' = t
  /\ UNCHANGED <<product, version, chosen, settings, passed, doing, read>>

(* delete_products: the versions go with the row.                           *)
DeleteProduct ==
  /\ product.there
  /\ product' = [product EXCEPT !.there = FALSE]
  /\ version' = Drop(version, Rows)
  /\ chosen' = NoChoice
  /\ UNCHANGED <<remote, settings, passed, doing, read>>

-----------------------------------------------------------------------------
Forgotten(p) == [read EXCEPT ![p] = NotRead]
Moves(p, from, to) == doing[p] = from /\ doing' = [doing EXCEPT ![p] = to]

(* stream_generate_version; "task" is what perform_product_title_optimization
   does with the version it gets                                            *)
Ready == settings.model # 0 /\ settings.verified
BeginWrite(p, task) ==
  /\ Moves(p, "idle", "write")
  /\ product.there
  /\ IF task THEN product.status = "listed" /\ product.store ELSE product.status \in Editable
  /\ Ready
  /\ read' = [read EXCEPT ![p] = [NotRead EXCEPT !.task = task]]
  /\ UNCHANGED <<product, version, remote, chosen, settings, passed>>
(* The version refers to the product: it cannot be added once that is gone. *)
EndWrite(p, t) ==
  /\ product.there
  /\ NextId \in Ids
  /\ FreshTexts => \A v \in Rows : version[v].source = "ai" \/ version[v].title # t
  /\ version' = Add(NextId, t, t, "ai")
  /\ Moves(p, "write", IF read[p].task THEN "save" ELSE "idle")
  /\ read' = [read EXCEPT ![p] = [NotRead EXCEPT !.id = IF read[p].task THEN NextId ELSE 0]]
  /\ UNCHANGED <<product, remote, chosen, settings, passed>>
SaveWritten(p) ==
  /\ Moves(p, "save", "idle")
  /\ MaySave
  /\ Saved(read[p].id)
  /\ read' = Forgotten(p)
  /\ UNCHANGED <<remote, settings, passed>>
GiveUp(p) ==
  /\ doing[p] # "idle"
  /\ doing' = [doing EXCEPT ![p] = "idle"]
  /\ read' = Forgotten(p)
  /\ UNCHANGED <<product, version, remote, chosen, settings, passed>>

(* perform_store_sync: the row is read before the items of the store.  A    *)
(* title that a user has chosen stays, any other becomes that of the store. *)
(* The title is written if it is not the one that was read; the payload,    *)
(* which holds the subtitle, always.                                        *)
LocalTitle == \E v \in InUse : version[v].source # "original"
BeginSync(p) ==
  /\ Moves(p, "idle", "fetch")
  /\ product.there /\ product.store
  /\ read' = [read EXCEPT ![p] = [NotRead EXCEPT !.row = product, !.own = LocalTitle]]
  /\ UNCHANGED <<product, version, remote, chosen, settings, passed>>
Fetch(p) ==
  /\ Moves(p, "fetch", "sync")
  /\ read' = [read EXCEPT ![p].remote = remote]
  /\ UNCHANGED <<product, version, remote, chosen, settings, passed>>
Synced(r) ==
  [product EXCEPT !.title = IF r.own \/ r.row.title = r.remote THEN @ ELSE r.remote,
                  !.sub = IF r.own THEN r.row.sub ELSE r.remote,
                  !.status = IF r.row.status = "listed" THEN @ ELSE "listed"]
EndSync(p) ==
  /\ Moves(p, "sync", "idle")
  /\ product.there
  /\ product' = Synced(read[p])
  /\ read' = Forgotten(p)
  /\ UNCHANGED <<version, remote, chosen, settings, passed>>

(* update_settings; test_settings_connection: a test that fails raises, so  *)
(* that what it has recorded is rolled back.                                *)
SaveModel ==
  /\ settings.model < MaxModels
  /\ TestsAlone => ~Testing
  /\ settings' = [model |-> settings.model + 1, verified |-> FALSE]
  /\ UNCHANGED <<product, version, remote, chosen, passed, doing, read>>
BeginTest(p) ==
  /\ Moves(p, "idle", "test")
  /\ settings.model # 0
  /\ read' = [read EXCEPT ![p].id = settings.model]
  /\ UNCHANGED <<product, version, remote, chosen, settings, passed>>
EndTest(p) ==
  /\ Moves(p, "test", "idle")
  /\ settings' = [settings EXCEPT !.verified = TRUE]
  /\ passed' = passed \cup {read[p].id}
  /\ read' = Forgotten(p)
  /\ UNCHANGED <<product, version, remote, chosen>>

-----------------------------------------------------------------------------
TitlesInit ==
  /\ \E status \in Editable : product = NewRow(status)
  /\ version = [v \in Ids |-> NoVersion]
  /\ remote = First
  /\ chosen = NoChoice
  /\ settings \in {[model |-> 0, verified |-> FALSE], [model |-> 1, verified |-> TRUE]}
  /\ passed = IF settings.verified THEN {1} ELSE {}
  /\ doing = [p \in TitleProcs |-> "idle"]
  /\ read = [p \in TitleProcs |-> NotRead]

TitleRequests ==
  \/ ListVersions \/ DeleteProduct \/ SaveModel
  \/ \E v \in Ids : SaveVersion(v) \/ DeleteVersion(v)
  \/ \E status \in ProductStatuses : SetStatus(status)
  \/ \E t \in Texts : EditLocal(t) \/ EditStore(t) \/ EditRemote(t)
WriteVersion(p) ==
  \/ \E task \in BOOLEAN : BeginWrite(p, task)
  \/ \E t \in Texts : EndWrite(p, t)
  \/ SaveWritten(p)
TitlesNext ==
  \/ TitleRequests
  \/ \E p \in Writers : WriteVersion(p)
  \/ \E p \in Syncers : BeginSync(p) \/ Fetch(p) \/ EndSync(p)
  \/ \E p \in Testers : BeginTest(p) \/ EndTest(p)
  \/ \E p \in TitleProcs : GiveUp(p)
TitlesSpec == TitlesInit /\ [][TitlesNext]_titleVars

-----------------------------------------------------------------------------
TitlesTypeOK ==
  /\ product.status \in ProductStatuses /\ {product.title, product.sub, remote} \subseteq Texts
  /\ \A v \in Ids : version[v].source \in {"original", "ai", "final", "deleted"}
  /\ chosen # NoChoice => product.there
  /\ settings \in [model : 0..MaxModels, verified : BOOLEAN]

(* save_title_version, store_product_local_title_override: one version at   *)
(* most is in use, and what a user has chosen is the title, and among the   *)
(* versions, until he chooses or edits another; whatever is written, listed,*)
(* approved, deleted or synchronised meanwhile.                             *)
ChosenStays ==
  /\ Cardinality(InUse) <= 1
  /\ chosen # NoChoice => chosen = <<product.title, product.sub>> /\ \E v \in Rows : Shown(v)

(* cleanup_title_versions_for_approved_product: of an approved product the  *)
(* versions not used are gone.                                              *)
ApprovedKeepsOne ==
  product.there /\ product.status = "approved" =>
    Cardinality({v \in Rows : version[v].source = "ai"}) <= 1

(* test_settings_connection: settings count as verified only if the model   *)
(* they name has passed a test.                                             *)
VerifiedWasTested == settings.verified => settings.model \in passed
=============================================================================
