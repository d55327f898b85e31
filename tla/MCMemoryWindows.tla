--------------------------- MODULE MCMemoryWindows ---------------------------
(* Three segments of width 2 over a period of 5, which they do not divide,    *)
(* under two limits, and a revision of another period for strict callers.     *)
EXTENDS MemoryWindows

MCMinTime == -2

MCRevisions == {"small", "large", "longer"}

MCPolicy ==
    [small  |-> [limit |-> 2, period |-> 5, maxCost |-> 2],
     large  |-> [limit |-> 3, period |-> 5, maxCost |-> 2],
     longer |-> [limit |-> 3, period |-> 7, maxCost |-> 1]]
==============================================================================
