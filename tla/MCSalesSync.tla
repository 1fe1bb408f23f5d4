----------------------------- MODULE MCSalesSync -----------------------------
(* Instances of SalesSyncLease for TLC.                                     *)
EXTENDS SalesSyncLease, TLC

(* The runs of a store are interchangeable.                                 *)
RunsSymmetric == Permutations(Runs)
==============================================================================
