---------------------------- MODULE RemoteLeases ----------------------------
(***************************************************************************)
(* What the lease backends of Valkey and PostgreSQL add to HeldLeases: the *)
(* leases of a key are kept on a server that removes them together after   *)
(* a time.                                                                 *)
(*                                                                         *)
(* `server' is the time that passes.  A clock that is read may be off by   *)
(* Skew in either direction and may be set back between two readings: the  *)
(* clock of each client, or with Options.Clock the server's own.           *)
(***************************************************************************)
EXTENDS HeldLeases

CONSTANTS Skew,   \* how far a clock may be off
          Floor   \* the least retention: one second

ASSUME SkewAssumption == Skew \in 0 .. MaxTime /\ Floor \in Nat \ {0}

VARIABLES server,  \* the time
          until    \* when the server removes the hash or row

remoteVars == <<server, present, last, leases, until, answer, issued, clock>>

\* What a caller may submit as now, or the server reads.
Readings == {t \in server - Skew .. server + Skew : t >= 0}

RemoteInit == NothingHeld /\ server = 0 /\ until = 0
=============================================================================
