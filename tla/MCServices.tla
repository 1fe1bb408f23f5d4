----------------------------- MODULE MCServices -----------------------------
(***************************************************************************)
(* The run of ServicesProofs: small instances of several components, with  *)
(* symmetry.  Workers and jobs of the crawl queue are only compared.       *)
(***************************************************************************)
EXTENDS ServicesProofs, TLC

Symmetric == Permutations(Workers) \cup Permutations(CrawlJobs)
=============================================================================
