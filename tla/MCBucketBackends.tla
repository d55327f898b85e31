-------------------------- MODULE MCBucketBackends --------------------------
(* Rollouts that raise and lower the limit, with clocks that disagree, and   *)
(* a burst that takes more than two periods to refill.                       *)
EXTENDS BucketBackends

MCRaised == <<[capacity |-> 3, burst |-> 0, period |-> 4, maxCost |-> 2],
              [capacity |-> 3, burst |-> 1, period |-> 4, maxCost |-> 2]>>

MCLowered == <<[capacity |-> 3, burst |-> 0, period |-> 3, maxCost |-> 2],
               [capacity |-> 1, burst |-> 0, period |-> 3, maxCost |-> 1]>>

MCBurst == <<[capacity |-> 1, burst |-> 2, period |-> 2, maxCost |-> 3]>>

On(backend, policies, skew) == [backend |-> backend, policies |-> policies, skew |-> skew]

MCDeployments ==
    {On(b, MCRaised, 1) : b \in {"postgres", "valkey"}}
    \cup {On(b, MCLowered, 1) : b \in {"postgres", "valkey"}}
    \cup {On("postgres", MCBurst, 0)}

MCValkeyBurst == {On("valkey", MCBurst, 0)}
=============================================================================
