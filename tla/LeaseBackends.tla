---------------------------- MODULE LeaseBackends ----------------------------
(***************************************************************************)
(* An application keeps the leases of a key in memory, in PostgreSQL or in *)
(* Valkey.  Whichever it is, the properties of HeldLeases are what callers *)
(* rely on.                                                                *)
(***************************************************************************)
EXTENDS MemoryLeases, PostgresLeases, ValkeyLeases

VARIABLE backend  \* Backend.Name()

DeploymentInit == RemoteInit /\ backend \in {"memory", "postgres", "valkey"}

DeploymentNext ==
    /\ \/ backend = "memory" /\ Next /\ UNCHANGED <<server, until>>
       \/ backend = "postgres" /\ PostgresNext
       \/ backend = "valkey" /\ ValkeyNext
    /\ UNCHANGED backend

DeploymentSpec == DeploymentInit /\ [][DeploymentNext]_<<remoteVars, backend>>
=============================================================================
