----------------------------- MODULE StoreOrders -----------------------------
(***************************************************************************)
(* What the synchronisation of a store's orders promises, whatever leases, *)
(* heartbeats and crashes lie behind it: syncs act one at a time.  A sync  *)
(* that stores orders has been the only one since before it read them, and *)
(* one that was displaced leaves no trace.                                 *)
(***************************************************************************)
EXTENDS Naturals

CONSTANTS
  Runs, NoRun,   (* synchronisations                                       *)
  MaxVersion     (* bound: versions of the orders held by Rakuten          *)

VARIABLES
  remote,   \* the version of the orders that Rakuten holds
  stored,   \* the version in the database, 0 before the first sync
  active,   \* the one sync that may still store what it has read
  read      \* the version it has read, 0 if none yet

absVars == <<remote, stored, active, read>>

Init ==
  /\ remote = 1
  /\ stored = 0
  /\ active = NoRun
  /\ read = 0

RemoteChanges ==
  /\ remote < MaxVersion
  /\ remote' = remote + 1
  /\ UNCHANGED <<stored, active, read>>

(* A sync becomes the active one, in the place of whichever was.            *)
Enter(r) ==
  /\ active' = r
  /\ read' = 0
  /\ UNCHANGED <<remote, stored>>

Read ==
  /\ active # NoRun
  /\ read' = remote
  /\ UNCHANGED <<remote, stored, active>>

Store ==
  /\ read # 0
  /\ stored' = read
  /\ active' = NoRun
  /\ read' = 0
  /\ UNCHANGED remote

Leave ==
  /\ active' = NoRun
  /\ read' = 0
  /\ UNCHANGED <<remote, stored>>

Next ==
  \/ RemoteChanges \/ Read \/ Store \/ Leave
  \/ \E r \in Runs : Enter(r)

Spec == Init /\ [][Next]_absVars

=============================================================================
