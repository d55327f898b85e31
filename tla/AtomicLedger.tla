---------------------------- MODULE AtomicLedger ----------------------------
(***************************************************************************)
(* What StrictAtomicBatchBackend promises (atomic_batch.go): a command is  *)
(* decided once, for all of its items or for none, and whoever is given a  *)
(* known answer for it is given that decision.                             *)
(***************************************************************************)
EXTENDS Integers, Sequences

CONSTANTS Commands,  \* command identifiers
          Buckets,   \* policy and key pairs
          Intents,   \* sequences of [bucket, cost] submitted under a command
          Singles    \* [bucket, cost] of the requests admitted one by one

VARIABLES receipts,  \* the decision of each command, if it has one
          spent,     \* cost charged to each bucket, ever
          told       \* the known answers given, with the request they were for

vars == <<receipts, spent, told>>

None == [decided |-> FALSE]

Receipt(intent, allowed) == [decided |-> TRUE, intent |-> intent, allowed |-> allowed]

\* The buckets an intent debits are distinct.
Cost(intent, b) ==
    LET mine == {i \in DOMAIN intent : intent[i].bucket = b}
    IN  IF mine = {} THEN 0 ELSE intent[CHOOSE i \in mine : TRUE].cost

Charge(intent) == [b \in Buckets |-> spent[b] + Cost(intent, b)]

Told(c, intent, allowed) == [command |-> c, intent |-> intent, allowed |-> allowed]

\* The command is decided; the answer may or may not reach the caller.
Decide(c, intent, allowed) ==
    /\ ~receipts[c].decided
    /\ receipts' = [receipts EXCEPT ![c] = Receipt(intent, allowed)]
    /\ spent' = IF allowed THEN Charge(intent) ELSE spent
    /\ told' \in {told, told \cup {Told(c, intent, allowed)}}

\* A later call with the same intent gets the same answer and charges nothing.
Replay(c, intent) ==
    /\ receipts[c].decided /\ receipts[c].intent = intent
    /\ told' = told \cup {Told(c, intent, receipts[c].allowed)}
    /\ UNCHANGED <<receipts, spent>>

\* A single admission shares the bucket.
Single(r) ==
    /\ spent' = Charge(<<r>>)
    /\ UNCHANGED <<receipts, told>>

Init ==
    /\ receipts = [c \in Commands |-> None]
    /\ spent = [b \in Buckets |-> 0]
    /\ told = {}

Next ==
    \/ \E c \in Commands, intent \in Intents : 
         Replay(c, intent) \/ \E allowed \in BOOLEAN : Decide(c, intent, allowed)
    \/ \E r \in Singles : Single(r)

Spec == Init /\ [][Next]_vars
=============================================================================
