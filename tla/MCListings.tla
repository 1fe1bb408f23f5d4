----------------------------- MODULE MCListings -----------------------------
(***************************************************************************)
(* Three instances of ListingTasks for one run of TLC: tasks that overlap, *)
(* tasks of a group, and one task that is crashed and retried.  "part"     *)
(* says which one a behaviour is about.  The instances are of the module   *)
(* with the theorems, so that these speak of them.                         *)
(***************************************************************************)
EXTENDS Naturals, Sequences, TLC

CONSTANTS
  user, product1, product2, store1, store2, group, NoGroup, job1, job2, NoJob,
  worker1, worker2, api, Runner

VARIABLES part, m1, m2, m3, m4, m5, m6, m7, m8, m9, m10, m11, m12

memory == <<m1, m2, m3, m4, m5, m6, m7, m8, m9, m10, m11, m12>>

OneApi == {api}
OneJob == {job1}
TwoJobs == {job1, job2}
OneWorker == {worker1}
TwoWorkers == {worker1, worker2}
FirstProduct == {product1}
BothProducts == {product1, product2}
FirstStore == {store1}
TwoStores == {store1, store2}
OneOwner == <<user, user>>
NoGroups == <<NoGroup, NoGroup>>

(* Two tasks for one product, the first in two stores.                      *)
OneProduct == <<{product1}, {product1}>>
FirstInTwoStores == <<<<store1, store2>>, <<store2>>>>
Overlap == INSTANCE ListingProofs WITH
  row <- m1, lock <- m2, listed <- m3, jobs <- m4, pc <- m5, hold <- m6, plan <- m7,
  todo <- m8, run <- m9, att <- m10, retries <- m11, faults <- m12,
  MaxTasks <- 2, Products <- FirstProduct, Stores <- TwoStores,
  OwnerOf <- OneOwner, ProductsOf <- OneProduct, StoresOf <- FirstInTwoStores,
  GroupOf <- NoGroups, GlobalLimit <- 2, UserLimit <- 1, StoreLimit <- 1, GroupLimit <- 1,
  Jobs <- TwoJobs, Api <- OneApi, Workers <- TwoWorkers, Serial <- TRUE, LateFailures <- FALSE,
  MaxRetries <- 1, MaxFaults <- 0

(* Listing tasks created as a group: two tasks for two products.            *)
OneEach == <<{product1}, {product2}>>
InFirstStore == <<<<store1>>, <<store1>>>>
OneGroup == <<group, group>>
Groups == INSTANCE ListingProofs WITH
  row <- m1, lock <- m2, listed <- m3, jobs <- m4, pc <- m5, hold <- m6, plan <- m7,
  todo <- m8, run <- m9, att <- m10, retries <- m11, faults <- m12,
  MaxTasks <- 2, Products <- BothProducts, Stores <- FirstStore,
  OwnerOf <- OneOwner, ProductsOf <- OneEach, StoresOf <- InFirstStore,
  GroupOf <- OneGroup, GlobalLimit <- 2, UserLimit <- 1, StoreLimit <- 1, GroupLimit <- 1,
  Jobs <- TwoJobs, Api <- OneApi, Workers <- TwoWorkers, Serial <- TRUE, LateFailures <- FALSE,
  MaxRetries <- 0, MaxFaults <- 0

(* One task for two products in two stores.                                 *)
TheOwner == <<user>>
TheProducts == <<BothProducts>>
TheStores == <<<<store1, store2>>>>
Alone == <<NoGroup>>
Results == INSTANCE ListingProofs WITH
  row <- m1, lock <- m2, listed <- m3, jobs <- m4, pc <- m5, hold <- m6, plan <- m7,
  todo <- m8, run <- m9, att <- m10, retries <- m11, faults <- m12,
  MaxTasks <- 1, Products <- BothProducts, Stores <- TwoStores,
  OwnerOf <- TheOwner, ProductsOf <- TheProducts, StoresOf <- TheStores,
  GroupOf <- Alone, GlobalLimit <- 2, UserLimit <- 1, StoreLimit <- 1, GroupLimit <- 1,
  Jobs <- OneJob, Api <- OneApi, Workers <- OneWorker, Serial <- TRUE, LateFailures <- FALSE,
  MaxRetries <- 1, MaxFaults <- 1

ASSUME ListingsAssumption ==
  /\ Overlap!ConstantsAssumption /\ Groups!ConstantsAssumption /\ Results!ConstantsAssumption
  /\ group # NoGroup /\ product1 # product2

ListingsInit ==
  \/ part = "overlap" /\ Overlap!Init
  \/ part = "groups" /\ Groups!Init
  \/ part = "results" /\ Results!Init

ListingsNext ==
  /\ UNCHANGED part
  /\ \/ part = "overlap" /\ Overlap!Next
     \/ part = "groups" /\ Groups!Next
     \/ part = "results" /\ Results!Next

ListingsSpec == ListingsInit /\ [][ListingsNext]_<<part, memory>>

Symmetric == Permutations(TwoJobs) \cup Permutations(TwoWorkers)

-----------------------------------------------------------------------------
(* run_listing_product_attempt: no two workers list one product at a time,  *)
(* although it is unlocked once it is listed in the first of several stores.*)
OneLister ==
  /\ part = "overlap" => Overlap!OneLister
  /\ part = "groups" => Groups!OneLister
  /\ part = "results" => Results!OneLister

(* Every variable holds values of its kind; the running tasks keep to the   *)
(* limits of user and store, those of a group to the limit of the group     *)
(* instead.                                                                 *)
LimitsKept ==
  /\ part = "overlap" => Overlap!TypeOK /\ Overlap!RunningFits
  /\ part = "groups" => Groups!TypeOK /\ Groups!RunningFits
  /\ part = "results" => Results!TypeOK /\ Results!RunningFits

(* A crashed or retried task takes up every product it has not listed, and  *)
(* reports as listed what is listed in some store.                          *)
ProductsKept ==
  /\ part = "overlap" => Overlap!NothingForgotten /\ Overlap!SuccessIsListed
  /\ part = "groups" => Groups!NothingForgotten /\ Groups!SuccessIsListed
  /\ part = "results" => Results!NothingForgotten /\ Results!SuccessIsListed

(* request_task_cancel: a cancelled task stays cancelled until its owner    *)
(* retries or deletes it.                                                   *)
CancelSticks ==
  [][/\ part = "overlap" => Overlap!StaysCancelled
     /\ part = "groups" => Groups!StaysCancelled
     /\ part = "results" => Results!StaysCancelled]_<<part, memory>>
=============================================================================
