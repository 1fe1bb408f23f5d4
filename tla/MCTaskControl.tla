--------------------------- MODULE MCTaskControl ---------------------------
(* Instances of TaskControl for TLC. *)
EXTENDS TaskControl, TLC

CONSTANTS u1, u2, p, s

(* An order sync run of one user, another task of a second one. *)
TwoOwners == [t \in TaskIds |-> IF t = p THEN u2 ELSE u1]

WorkersSymmetric == Permutations(Workers)
=============================================================================
