---------------------------- MODULE MCTokenBucket ----------------------------
(* A token bucket rolled out under three revisions: a slow one with a burst, *)
(* a smaller one, and a faster one whose period does not divide the others.  *)
EXTENDS TokenBucket

MCRevisions == {"v1", "v2", "v3"}

MCPolicy ==
    [v1 |-> [capacity |-> 2, burst |-> 2, period |-> 5, maxCost |-> 4],
     v2 |-> [capacity |-> 1, burst |-> 0, period |-> 3, maxCost |-> 1],
     v3 |-> [capacity |-> 3, burst |-> 0, period |-> 4, maxCost |-> 3]]
=============================================================================
