--------------------------- MODULE MCLeaseBackends ---------------------------
(* Two revisions whose leases are short enough for each other's retention,    *)
(* and two of which one is not.                                               *)
EXTENDS LeaseBackends, TLC

Holders == Permutations(Ids)

MCRevisions == {"wide", "narrow"}

MCPatient ==
    [wide   |-> [limit |-> 3, lease |-> 2, maxCost |-> 2],
     narrow |-> [limit |-> 2, lease |-> 2, maxCost |-> 1]]

MCHasty ==
    [wide   |-> [limit |-> 3, lease |-> 4, maxCost |-> 2],
     narrow |-> [limit |-> 2, lease |-> 1, maxCost |-> 1]]
==============================================================================
