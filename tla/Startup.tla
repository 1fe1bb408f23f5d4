------------------------------ MODULE Startup ------------------------------
(***************************************************************************)
(* init_database (db/database.py): what a process does to the database     *)
(* before it serves requests.  Every start brings the schema of any        *)
(* earlier version up to date, column by column, then moves data to the    *)
(* scope of their owners and seeds defaults.  A named lock lets one        *)
(* process at a time do so; a process may die at any statement and is      *)
(* started again, and users are served by the processes that are ready.    *)
(*                                                                         *)
(* MySQL commits what is pending before every change of the schema: "db"   *)
(* is what is committed, "pend" what the process has written since.        *)
(* Of columns treated alike the model has one: "permissions" is added      *)
(* empty, filled and then required; "reviews" is added and filled;         *)
(* "listed" is filled on every start; "key" belongs to a sales table.      *)
(***************************************************************************)
EXTENDS Naturals, FiniteSets

CONSTANTS
  Starters,                (* processes                                     *)
  Accounts, Root,          (* accounts, the superadmin                      *)
  Legacy, Defaults,        (* sensitive words: of the shared list, seeded   *)
  NoOwner,
  TornColumns,             (* TRUE: a process may die before it has filled  *)
                           (* a column that only its addition fills         *)
  MaxChanges, MaxDeaths    (* bounds: acts of users; deaths, timeouts       *)

StartConstants ==
  /\ Root \in Accounts /\ NoOwner \notin Accounts
  /\ TornColumns \in BOOLEAN
  /\ MaxChanges \in Nat /\ MaxDeaths \in Nat
ASSUME StartAssumption == StartConstants

VARIABLES
  db,       \* the database, as committed
  first,    \* what it was at first
  pend,     \* uncommitted statements of the process that migrates
  stage,    \* of each process
  seen,     \* the snapshot of its last transaction
  dropped,  \* words that users have deleted
  changes, deaths

startVars == <<db, first, pend, stage, seen, dropped, changes, deaths>>

Tables == {"accounts", "words", "products", "lines"}
Columns == {"permissions", "reviews", "listed", "key"}
TableOf == [permissions |-> "accounts", reviews |-> "products", listed |-> "products",
            key |-> "lines"]
Settings == {"time", "sales"}

Nothing == [fills |-> {}, copies |-> {}, clear |-> FALSE]

(* What the pending statements make of the database.                        *)
Shared(words) == {w \in Legacy : <<NoOwner, w>> \in words}
After(d, stmts) ==
  LET copied == d.words \cup (stmts.copies \X Shared(d.words))
  IN [d EXCEPT !.blank = @ \ stmts.fills,
               !.words = IF stmts.clear THEN copied \ ({NoOwner} \X Legacy) ELSE copied]
Pending == After(db, pend)

(* The lock is held from before the first statement to after the last.      *)
Unlocked == {"start", "wait", "ready", "dead"}
Holders == {p \in Starters : stage[p] \notin Unlocked}

Goes(p, from, to) == stage[p] = from /\ stage' = [stage EXCEPT ![p] = to]
RestKept == UNCHANGED <<first, seen, dropped, changes, deaths>>

(* A change of the schema commits, another statement does not.              *)
Alters(d) == db' = d /\ pend' = Nothing /\ RestKept
Writes(stmts) == pend' = stmts /\ UNCHANGED db /\ RestKept
Passes == UNCHANGED <<db, pend>> /\ RestKept

-----------------------------------------------------------------------------
(* database_initialization_lock                                             *)
StartProcess(p) == Goes(p, "start", "wait") /\ Passes
Lock(p) == Holders = {} /\ Goes(p, "wait", "parent") /\ Passes
TimeOut(p) ==
  /\ Holders # {}
  /\ deaths < MaxDeaths
  /\ Goes(p, "wait", "dead")
  /\ deaths' = deaths + 1
  /\ UNCHANGED <<db, first, pend, seen, dropped, changes>>

(* ensure_sales_parent_keys_before_create_all: a missing table gets the key *)
(* when it is created.                                                     *)
ParentKeys(p) ==
  /\ Goes(p, "parent", "create")
  /\ IF "accounts" \in db.tables THEN Alters([db EXCEPT !.parentKey = TRUE]) ELSE Passes

(* Base.metadata.create_all: one statement for each table that is missing.  *)
Created(d, t) ==
  [d EXCEPT !.tables = @ \cup {t},
            !.columns = @ \cup {c \in Columns : TableOf[c] = t},
            !.required = @ \cup (IF t = "accounts" THEN {"permissions"} ELSE {}),
            !.parentKey = @ \/ t = "accounts",
            !.scope = IF t = "words" THEN "owner" ELSE @,
            !.wordKey = IF t = "words" THEN "owner" ELSE @]
CreateTable(p) ==
  /\ stage[p] = "create"
  /\ \E t \in Tables \ db.tables :
       /\ "accounts" \in db.tables \cup {t}
       /\ Alters(Created(db, t))
  /\ UNCHANGED stage
CreatedAll(p) == Tables \subseteq db.tables /\ Goes(p, "create", "permissions") /\ Passes

-----------------------------------------------------------------------------
(* ensure_schema_compatibility: a column that is missing is added, with     *)
(* rows that have no value; the steps after it belong to the same "if".     *)
HasRows(c) == TableOf[c] # "accounts" \/ db.accounts # {}
Added(d, c) == [d EXCEPT !.columns = @ \cup {c},
                         !.blank = @ \cup (IF HasRows(c) THEN {c} ELSE {})]
AddColumn(p, c, next, skip) ==
  IF c \in db.columns THEN Goes(p, c, skip) /\ Passes
  ELSE Goes(p, c, next) /\ Alters(Added(Pending, c))

(* permissions_json and its like                                            *)
Permissions(p) == AddColumn(p, "permissions", "fill permissions", "scope")
FillPermissions(p) ==
  Goes(p, "fill permissions", "require") /\ Writes([pend EXCEPT !.fills = @ \cup {"permissions"}])
Require(p) ==
  /\ "permissions" \notin Pending.blank
  /\ Goes(p, "require", "scope")
  /\ Alters([Pending EXCEPT !.required = @ \cup {"permissions"}])

(* _migrate_sensitive_word_owner_scope                                      *)
Scope(p) ==
  /\ Goes(p, "scope", "unkey")
  /\ IF db.scope = "shared" THEN Alters([Pending EXCEPT !.scope = "mixed"]) ELSE Passes
Unkey(p) ==
  /\ Goes(p, "unkey", "copy")
  /\ db' = IF db.wordKey = "word" THEN [Pending EXCEPT !.wordKey = "none"] ELSE db
  /\ pend' = IF db.wordKey = "word" THEN Nothing ELSE pend
  /\ seen' = [seen EXCEPT ![p] = db']
  /\ UNCHANGED <<first, dropped, changes, deaths>>
CopyTo(p, u) ==
  /\ stage[p] = "copy"
  /\ Shared(db.words) # {}
  /\ u \in seen[p].accounts \ pend.copies
  /\ Writes([pend EXCEPT !.copies = @ \cup {u}])
  /\ UNCHANGED stage
Fail(p) ==
  /\ Shared(db.words) # {} /\ seen[p].accounts = {}
  /\ Goes(p, "copy", "dead")
  /\ pend' = Nothing
  /\ UNCHANGED <<db, first, seen, dropped, changes, deaths>>
Copied(p) == Shared(db.words) # {} => seen[p].accounts # {} /\ seen[p].accounts \subseteq pend.copies
ClearShared(p) ==
  Copied(p) /\ Goes(p, "copy", "own") /\ Writes([pend EXCEPT !.clear = TRUE])
Own(p) ==
  /\ Shared(Pending.words) = {}
  /\ Goes(p, "own", "key words")
  /\ Alters([Pending EXCEPT !.scope = "owner"])
KeyWords(p) ==
  /\ Goes(p, "key words", "listed")
  /\ IF db.wordKey # "owner" THEN Alters([Pending EXCEPT !.wordKey = "owner"]) ELSE Passes

(* lt_products: the statements that fill listed_at, its statuses and their  *)
(* like are carried out on every start.                                     *)
Listed(p) == AddColumn(p, "listed", "reviews", "reviews")
Reviews(p) == AddColumn(p, "reviews", "fill reviews", "fill listed")
FillReviews(p) ==
  Goes(p, "fill reviews", "fill listed") /\ Writes([pend EXCEPT !.fills = @ \cup {"reviews"}])
FillListed(p) ==
  Goes(p, "fill listed", "key") /\ Writes([pend EXCEPT !.fills = @ \cup {"listed"}])

(* _ensure_table_layout and _backfill_sales_order_item_product_keys         *)
Key(p) == AddColumn(p, "key", "fill key", "fill key")
FillKey(p) ==
  Goes(p, "fill key", "end") /\ Writes([pend EXCEPT !.fills = @ \cup {"key"}])
EndSchema(p) == Goes(p, "end", "admin") /\ Alters(Pending)

-----------------------------------------------------------------------------
(* ensure_initial_superadmin                                                *)
EnsureAdmin(p) == Goes(p, "admin", "read") /\ Alters([db EXCEPT !.accounts = @ \cup {Root}])

(* The last transaction: migrate_user_time_settings_to_owner_scope and      *)
(* migrate_user_settings_to_owner_scope, each once and for all, then the    *)
(* default words, on every start.                                           *)
Read(p) ==
  /\ Goes(p, "read", "write")
  /\ seen' = [seen EXCEPT ![p] = db]
  /\ UNCHANGED <<db, first, pend, dropped, changes, deaths>>

Migrated(d) ==
  [time |-> [u \in Accounts |-> IF "time" \notin d.done /\ u \in d.accounts THEN "owner"
                             ELSE d.settings.time[u]],
   sales |-> [u \in Accounts |-> IF "sales" \notin d.done /\ u \in d.accounts
                                 /\ d.settings.sales[u] = "none" THEN "owner"
                              ELSE d.settings.sales[u]]]
Seeded(d) == (d.accounts \X Defaults) \ d.words

(* Rows that the snapshot shows to be there are written only if they differ *)
(* from it; a word that a user has added meanwhile fails the start.         *)
WriteScopes(p) ==
  LET d == seen[p]
      settings == [k \in Settings |-> [u \in Accounts |->
                     IF Migrated(d)[k][u] = d.settings[k][u] THEN db.settings[k][u]
                     ELSE Migrated(d)[k][u]]]
  IN /\ Seeded(d) \cap db.words = {}
     /\ Goes(p, "write", "ready")
     /\ Alters([db EXCEPT !.settings = settings, !.done = Settings,
                          !.words = @ \cup Seeded(d)])
WriteFails(p) ==
  Seeded(seen[p]) \cap db.words # {} /\ Goes(p, "write", "dead") /\ Passes

-----------------------------------------------------------------------------
(* A process dies, with it its transaction and its lock.                    *)
Torn == "reviews" \in db.blank \/ "permissions" \in db.columns \ db.required
DieStarting(p) ==
  /\ deaths < MaxDeaths
  /\ stage[p] # "dead"
  /\ TornColumns \/ p \notin Holders \/ ~Torn
  /\ stage' = [stage EXCEPT ![p] = "dead"]
  /\ pend' = IF p \in Holders THEN Nothing ELSE pend
  /\ deaths' = deaths + 1
  /\ UNCHANGED <<db, first, seen, dropped, changes>>
Restart(p) == Goes(p, "dead", "start") /\ Passes

(* What users do: a process serves when its start is over (lifespan).       *)
ServingEarly == \E p \in Starters : stage[p] \in {"write", "ready"}
Serving == \E p \in Starters : stage[p] = "ready"
Act(d) ==
  /\ Serving
  /\ changes < MaxChanges
  /\ db' = d
  /\ changes' = changes + 1
  /\ UNCHANGED <<first, pend, stage, seen, deaths>>
SaveSetting(u, k) ==
  u \in db.accounts /\ Act([db EXCEPT !.settings[k][u] = "saved"]) /\ UNCHANGED dropped
CreateUser(u) ==
  /\ u \notin db.accounts
  /\ Act([db EXCEPT !.accounts = @ \cup {u}, !.words = @ \cup ({u} \X Defaults)])
  /\ UNCHANGED dropped
CreateWord(u, w) ==
  /\ u \in db.accounts /\ <<u, w>> \notin db.words
  /\ Act([db EXCEPT !.words = @ \cup {<<u, w>>}])
  /\ dropped' = dropped \ {<<u, w>>}
DeleteWord(u, w) ==
  /\ <<u, w>> \in db.words
  /\ Act([db EXCEPT !.words = @ \ {<<u, w>>}])
  /\ dropped' = dropped \cup {<<u, w>>}

-----------------------------------------------------------------------------
(* A database of some earlier version, or a new one.                        *)
OldTables == {{}, {"accounts"}, {"accounts", "words", "products"}, Tables}
OldColumns(tables) ==
  LET all == {c \in Columns : TableOf[c] \in tables} IN {all, {}} \cup {all \ {c} : c \in all}
StartInit ==
  /\ \E tables \in OldTables :
     \E columns \in OldColumns(tables) :
     \E scope \in IF "words" \in tables THEN {"shared", "owner"} ELSE {"none"} :
     \E accounts \in IF "accounts" \in tables THEN {{}, Accounts \ {Root}, Accounts} ELSE {{}} :
       db = [tables |-> tables, columns |-> columns, blank |-> {},
             required |-> columns \cap {"permissions"}, parentKey |-> FALSE,
             scope |-> scope,
             wordKey |-> CASE scope = "shared" -> "word" [] scope = "owner" -> "owner"
                           [] OTHER -> "none",
             words |-> IF scope = "shared" THEN {NoOwner} \X Legacy ELSE {},
             accounts |-> accounts,
             settings |-> [k \in Settings |-> [u \in Accounts |-> "none"]],
             done |-> {}]
  /\ first = db
  /\ pend = Nothing
  /\ stage = [p \in Starters |-> "start"]
  /\ seen = [p \in Starters |-> db]
  /\ dropped = {}
  /\ changes = 0 /\ deaths = 0

PrepareTables(p) == StartProcess(p) \/ Lock(p) \/ TimeOut(p) \/ ParentKeys(p) \/ CreateTable(p) \/ CreatedAll(p)
MoveWords(p) ==
  \/ Scope(p) \/ Unkey(p) \/ Fail(p) \/ ClearShared(p) \/ Own(p) \/ KeyWords(p)
  \/ \E u \in Accounts : CopyTo(p, u)
Complete(p) ==
  \/ Permissions(p) \/ FillPermissions(p) \/ Require(p)
  \/ Listed(p) \/ Reviews(p) \/ FillReviews(p) \/ FillListed(p)
  \/ Key(p) \/ FillKey(p) \/ EndSchema(p)
Fill(p) == EnsureAdmin(p) \/ Read(p) \/ WriteScopes(p) \/ WriteFails(p)
Starting(p) == PrepareTables(p) \/ Complete(p) \/ MoveWords(p) \/ Fill(p)
UserActs ==
  \E u \in Accounts :
    \/ CreateUser(u)
    \/ \E k \in Settings : SaveSetting(u, k)
    \/ \E w \in Legacy \cup Defaults : CreateWord(u, w) \/ DeleteWord(u, w)

StartNext == UserActs \/ \E p \in Starters : Starting(p) \/ DieStarting(p) \/ Restart(p)
StartSpec == StartInit /\ [][StartNext]_startVars

-----------------------------------------------------------------------------
StartTypeOK ==
  /\ db.tables \subseteq Tables /\ db.columns \subseteq Columns
  /\ db.blank \cup db.required \subseteq db.columns
  /\ db.scope \in {"none", "shared", "mixed", "owner"}
  /\ db.wordKey \in {"none", "word", "owner"}
  /\ db.words \subseteq (Accounts \cup {NoOwner}) \X (Legacy \cup Defaults)
  /\ db.accounts \subseteq Accounts
  /\ Cardinality(Holders) <= 1
  /\ pend = Nothing \/ Holders # {}

(* init_database: whatever version the database had, and wherever earlier   *)
(* starts have ended, a process that is ready has the whole schema before   *)
(* it, and no row without a value.                                          *)
ReadyIsComplete ==
  Serving =>
    /\ db.tables = Tables /\ db.columns = Columns /\ db.blank = {}
    /\ db.required = {"permissions"} /\ db.parentKey
    /\ db.scope = "owner" /\ db.wordKey = "owner" /\ db.done = Settings

(* _migrate_sensitive_word_owner_scope: the words of the shared list are in *)
(* the list of every account, or still in the shared one, but for those     *)
(* that their users have deleted; a word is never in both for good.         *)
WordsKept ==
  /\ first.scope = "shared" =>
       \A w \in Legacy :
         \/ <<NoOwner, w>> \in db.words
         \/ \A u \in first.accounts : <<u, w>> \in db.words \cup dropped
  /\ db.scope = "owner" => Shared(db.words) = {}

(* A start undoes nothing that a user has decided: settings saved stay, and *)
(* words deleted do not come back, unless they are default words.           *)
DecisionsStay ==
  changes' = changes =>
    /\ \A k \in Settings, u \in Accounts :
         db.settings[k][u] = "saved" => db'.settings[k][u] = "saved"
    /\ (db'.words \ db.words) \cap dropped \subseteq Accounts \X Defaults
StartKeeps == [][DecisionsStay]_startVars
=============================================================================
