--------------------------- MODULE WindowBackends ---------------------------
(***************************************************************************)
(* A window counter shared by all processes: a fixed or a sliding window   *)
(* in PostgreSQL or in Valkey.                                             *)
(***************************************************************************)
EXTENDS PostgresWindow, ValkeyWindow

VARIABLE backend  \* Backend.Name()

DeploymentInit == Init /\ backend \in {"postgres", "valkey"}

DeploymentNext ==
    /\ \/ backend = "postgres" /\ PostgresNext
       \/ backend = "valkey" /\ ValkeyNext
    /\ UNCHANGED backend

DeploymentSpec == DeploymentInit /\ [][DeploymentNext]_<<vars, backend>>
=============================================================================
