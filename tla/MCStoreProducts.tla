-------------------------- MODULE MCStoreProducts --------------------------
(* One product, one store, three days: how it comes to be listed twice.    *)
EXTENDS StoreProducts

CONSTANTS m1, s1, p1

SameCode == [m \in Masters |-> m]
=============================================================================
