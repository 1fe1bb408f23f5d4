----------------------------- MODULE MCSchedules -----------------------------
(* Instances of Schedules for TLC. *)
EXTENDS Schedules

CONSTANTS t1, t2, store

OneStore == [t \in {t1, t2} |-> store]
(* Two manual tasks of a store; a schedule and a crawl. *)
Pairs == {[t \in {t1, t2} |-> IF t = t1 THEN k[1] ELSE k[2]] :
            k \in {<<"manual", "once">>, <<"auto", "crawl">>}}
ManualPair == {[t \in {t1, t2} |-> "manual"]}
=============================================================================
