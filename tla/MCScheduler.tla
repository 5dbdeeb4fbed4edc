----------------------------- MODULE MCScheduler -----------------------------
(* Scheduler on small instances: one to three user contexts. *)
EXTENDS Scheduler

CONSTANTS u1, u2, u3

OrderAB == <<u1, u2>>
OrderABC == <<u1, u2, u3>>
OrderA == <<u1>>
NoDependency == [u \in Users |-> Nobody]
BAfterA == [u \in Users |-> IF u = u2 THEN u1 ELSE Nobody]
=============================================================================
