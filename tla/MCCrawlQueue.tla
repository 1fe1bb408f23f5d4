---------------------------- MODULE MCCrawlQueue ----------------------------
(* Instances of CrawlQueue for TLC. *)
EXTENDS CrawlQueue, TLC

CONSTANTS manual, scheduled, owner

OneLane == [t \in 1..MaxTasks |-> scheduled]
OneOwner == [l \in Lanes |-> owner]
LimitOne == [l \in Lanes |-> 1]
Symmetric == Permutations(Jobs) \cup Permutations(Workers)
=============================================================================
