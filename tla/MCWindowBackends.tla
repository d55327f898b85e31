-------------------------- MODULE MCWindowBackends --------------------------
(* A window whose limit is lowered and raised, and a revision that changes   *)
(* the period.                                                               *)
EXTENDS WindowBackends

MCRevisions == {"v1", "v2", "v3"}

MCPolicy == [v1 |-> [limit |-> 2, period |-> 4, maxCost |-> 2],
             v2 |-> [limit |-> 1, period |-> 4, maxCost |-> 1],
             v3 |-> [limit |-> 1, period |-> 5, maxCost |-> 1]]
=============================================================================
