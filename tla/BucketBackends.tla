--------------------------- MODULE BucketBackends ---------------------------
(***************************************************************************)
(* A token bucket shared by all processes, in the backend of the           *)
(* deployment.                                                             *)
(***************************************************************************)
EXTENDS PostgresBucket, ValkeyBucket

DeploymentNext ==
    \/ deployment.backend = "postgres" /\ PostgresNext
    \/ deployment.backend = "valkey" /\ ValkeyNext

DeploymentSpec == Init /\ [][DeploymentNext]_vars
=============================================================================
