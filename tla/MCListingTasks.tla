--------------------------- MODULE MCListingTasks ---------------------------
(* Instances of ListingTasks for TLC. *)
EXTENDS ListingTasks, TLC

CONSTANTS user, x, y, s1, s2, g

OneOwner == [t \in 1..MaxTasks |-> user]
FirstTwo == [t \in 1..MaxTasks |-> IF t \in {1, 2} THEN g ELSE NoGroup]
NoGroups == [t \in 1..MaxTasks |-> NoGroup]

(* The first task lists both products, the second one of them. *)
Overlapping == [t \in 1..MaxTasks |-> IF t = 1 THEN {x, y} ELSE {x}]
Split == [t \in 1..MaxTasks |-> IF t = 2 THEN {y} ELSE {x}]
OneProduct == [t \in 1..MaxTasks |-> {x}]
FirstInTwoStores == [t \in 1..MaxTasks |-> IF t < MaxTasks THEN <<s1, s2>> ELSE <<s2>>]
OneStore == [t \in 1..MaxTasks |-> <<s1>>]

Symmetric == Permutations(Jobs) \cup Permutations(Workers)
=============================================================================
