--------------------------- MODULE PostgresAtomic ---------------------------
(***************************************************************************)
(* AdmitAtomicStrict of postgres/atomic.go: a command over several token   *)
(* buckets in one transaction, with an advisory lock for the command, then *)
(* the advisory locks of the buckets in order, and a durable receipt; and  *)
(* the AdmitStrict calls that share its buckets, each a transaction with   *)
(* one bucket lock and no receipt.                                         *)
(*                                                                         *)
(* A transaction reads the clock in one statement and its rows in later    *)
(* ones, and Cleanup, which takes no advisory lock and has a clock of its  *)
(* own, may come between.                                                  *)
(*                                                                         *)
(* A session is a pooled connection that serves one call at a time.  The   *)
(* caller can lose it: a commit or a rollback whose acknowledgement never  *)
(* arrives is answered as unknown, and the session goes on holding its     *)
(* locks until the server has resolved the transaction either way.  A      *)
(* retry is another session submitting the same command.                   *)
(*                                                                         *)
(* Buckets accrue Rate tokens per instant; TokenBucket has the arithmetic. *)
(***************************************************************************)
EXTENDS Integers, Sequences, FiniteSets, FiniteSetsExt

CONSTANTS Sessions,  \* connections of the pool
          Commands,  \* command identifiers
          Buckets,   \* policy and key pairs
          Intents,   \* sequences of [bucket, cost] submitted under a command
          Singles,   \* [bucket, cost] of the requests admitted one by one
          LockOf,    \* [Buckets -> Nat], advisoryKey: a digest prefix, may collide
          Limit,     \* [Buckets -> Nat \ {0}]
          Period,    \* [Buckets -> Nat \ {0}]
          Rate,      \* tokens accrued per instant
          Second,    \* the least time to live of a row
          Behind,    \* how old a reading may be when the rows are loaded: Options.Timeout,
                     \* and with ClientClock what the caller's clock is slow by
          Ahead,     \* what the clock of a caller is fast by: with ServerClock nothing
          MaxTime    \* bound on the server's clock

ASSUME SetupAssumption ==
    /\ LockOf \in [Buckets -> Nat]
    /\ Limit \in [Buckets -> Nat \ {0}]
    /\ Period \in [Buckets -> Nat \ {0}]
    /\ Rate \in Nat \ {0} /\ Second \in Nat /\ MaxTime \in Nat
    /\ Behind \in Nat /\ Ahead \in Nat
    /\ "none" \notin Commands
    /\ \A r \in Singles : r.bucket \in Buckets /\ r.cost \in 1 .. Limit[r.bucket]
    /\ \A intent \in Intents : \A i, j \in DOMAIN intent :
          /\ intent[i].bucket \in Buckets
          /\ intent[i].cost \in 1 .. Limit[intent[i].bucket]
          /\ intent[i].bucket = intent[j].bucket => i = j

VARIABLES clock,     \* clock_timestamp() of the server
          rows,      \* rate_limit_states: NoRow or [tokens, last] for each bucket
          receipts,  \* rate_limit_atomic_commands
          pc,        \* where each session is
          job,       \* the command and intent it serves, or the single request
          now,       \* its reading of the clock
          held,      \* its advisory locks
          writes,    \* its uncommitted changes of rows
          out,       \* the decision it is about to commit, or to replay
          lost,      \* the caller has already been answered: outcome unknown
          spent,     \* cost charged to each bucket, ever (history)
          told       \* the known answers given (history)

session == <<pc, job, now, held, writes, out, lost>>
vars == <<clock, rows, receipts, session, spent, told>>

Ledger == INSTANCE AtomicLedger

NoRow == [tokens |-> -1, last |-> 0]

NoJob == [command |-> "none", intent |-> <<>>]

IsSingle(s) == job[s].command = "none"

Ids(s) == {job[s].intent[i].bucket : i \in DOMAIN job[s].intent}

------------------------------------------------------------------------------
(* Locks. *)

CommandLock(c) == <<"command", c>>

BucketLock(n) == <<"bucket", n>>

\* Mutant: bucket locks are shared.
FreeShared(l) == l[1] = "bucket" \/ \A s \in Sessions : l \notin held[s]

Free(l) == \A s \in Sessions : l \notin held[s]

\* Mutant: bucket locks are taken in the order of the request.
NextLockUnsorted(s) ==
    LET i == CHOOSE i \in DOMAIN job[s].intent :
                /\ BucketLock(LockOf[job[s].intent[i].bucket]) \notin held[s]
                /\ \A j \in 1 .. i - 1 : BucketLock(LockOf[job[s].intent[j].bucket]) \in held[s]
    IN  BucketLock(LockOf[job[s].intent[i].bucket])

\* Sorted, without duplicates.
NextLock(s) == BucketLock(Min({LockOf[b] : b \in {b \in Ids(s) : BucketLock(LockOf[b]) \notin held[s]}}))

Locked(s) == \A b \in Ids(s) : BucketLock(LockOf[b]) \in held[s]

\* The lock a session asks for, if it is at a lock statement.
Wants(s) ==
    CASE pc[s] = "command" -> {CommandLock(job[s].command)}
      [] pc[s] = "buckets" /\ ~Locked(s) -> {NextLock(s)}
      [] OTHER -> {}

------------------------------------------------------------------------------
(* Buckets. *)

\* tokenDuration of a whole bucket.
Refill(b) == (Limit[b] + Rate - 1) \div Rate

\* postgresAdmissionTTL.
Ttl(b) == Max({2 * Period[b], Second, Refill(b)})

\* Mutant: a row lives until its bucket would be full.
ExpiredFull(b, t) == rows[b] # NoRow /\ rows[b].last + Refill(b) <= t

Expired(b, t) == rows[b] # NoRow /\ rows[b].last + Ttl(b) <= t

Live(b, t) == rows[b] # NoRow /\ ~Expired(b, t)

\* mutateToken up to the debit; t is not before the row's last instant.
Balance(b, live, t) ==
    IF ~live THEN Limit[b]
    ELSE LET full == rows[b].tokens + Rate * (t - rows[b].last)
         IN  IF full < Limit[b] THEN full ELSE Limit[b]

------------------------------------------------------------------------------
(* A call. *)

Submit(s, c, intent) ==
    /\ pc[s] = "idle"
    /\ pc' = [pc EXCEPT ![s] = "command"]
    /\ job' = [job EXCEPT ![s] = [command |-> c, intent |-> intent]]
    /\ UNCHANGED <<clock, rows, receipts, now, held, writes, out, lost, spent, told>>

\* admitStrict of one request.
SubmitSingle(s, r) ==
    /\ pc[s] = "idle"
    /\ pc' = [pc EXCEPT ![s] = "buckets"]
    /\ job' = [job EXCEPT ![s] = [command |-> "none", intent |-> <<r>>]]
    /\ UNCHANGED <<clock, rows, receipts, now, held, writes, out, lost, spent, told>>

\* Mutant: the command is not locked.
LockCommandNot(s) ==
    /\ pc[s] = "command"
    /\ pc' = [pc EXCEPT ![s] = "lookup"]
    /\ UNCHANGED <<clock, rows, receipts, job, now, held, writes, out, lost, spent, told>>

LockCommand(s) ==
    /\ pc[s] = "command"
    /\ Free(CommandLock(job[s].command))
    /\ held' = [held EXCEPT ![s] = {CommandLock(job[s].command)}]
    /\ pc' = [pc EXCEPT ![s] = "lookup"]
    /\ UNCHANGED <<clock, rows, receipts, job, now, writes, out, lost, spent, told>>

\* A receipt of the same intent is replayed; another intent is refused.
Lookup(s) ==
    LET saved == receipts[job[s].command]
    IN  /\ pc[s] = "lookup"
        /\ \/ ~saved.decided /\ pc' = [pc EXCEPT ![s] = "buckets"] /\ UNCHANGED out
           \/ /\ saved.decided /\ saved.intent = job[s].intent
              /\ out' = [out EXCEPT ![s] = saved]
              /\ pc' = [pc EXCEPT ![s] = "replay"]
           \/ /\ saved.decided /\ saved.intent # job[s].intent
              /\ pc' = [pc EXCEPT ![s] = "rollback"] /\ UNCHANGED out
        /\ UNCHANGED <<clock, rows, receipts, job, now, held, writes, lost, spent, told>>

LockBucket(s) ==
    /\ pc[s] = "buckets" /\ ~Locked(s)
    /\ Free(NextLock(s))
    /\ held' = [held EXCEPT ![s] = @ \cup {NextLock(s)}]
    /\ UNCHANGED <<clock, rows, receipts, pc, job, now, writes, out, lost, spent, told>>

\* clock_timestamp(), or the instant the caller submitted.
Observe(s, t) ==
    /\ pc[s] = "buckets" /\ Locked(s)
    /\ t <= clock + Ahead /\ clock <= t + Behind
    /\ now' = [now EXCEPT ![s] = t]
    /\ pc' = [pc EXCEPT ![s] = "load"]
    /\ UNCHANGED <<clock, rows, receipts, job, held, writes, out, lost, spent, told>>

\* One instant for all, not before any observed by a row that was loaded.
Effective(s) == Max({now[s]} \cup {rows[b].last : b \in {b \in Ids(s) : Live(b, now[s])}})

Left(s) == [b \in Ids(s) |-> Balance(b, Live(b, now[s]), Effective(s))]

Allowed(s) == \A b \in Ids(s) : Ledger!Cost(job[s].intent, b) <= Left(s)[b]

Charged(s, b) == IF Allowed(s) THEN Ledger!Cost(job[s].intent, b) ELSE 0

\* Mutant: a rejected command keeps the debits of the items that fit.
ChangesSpeculative(s) ==
    [b \in Ids(s) |->
        [tokens |-> IF Ledger!Cost(job[s].intent, b) <= Left(s)[b]
                    THEN Left(s)[b] - Ledger!Cost(job[s].intent, b) ELSE Left(s)[b],
         last |-> Effective(s)]]

\* The rows a transaction changes.  A rejected command only deletes those that
\* were expired when it loaded them; a single request saves its row in any case.
Changes(s) ==
    IF Allowed(s) \/ IsSingle(s)
    THEN [b \in Ids(s) |-> [tokens |-> Left(s)[b] - Charged(s, b), last |-> Effective(s)]]
    ELSE [b \in {b \in Ids(s) : Expired(b, now[s])} |-> NoRow]

\* The rows are loaded, before the deadline of the call, and decided upon.  Those
\* loaded first are selected for update while the others are: what the last
\* statement finds of them is what the first did.
Decide(s) ==
    /\ pc[s] = "load"
    /\ clock <= now[s] + Behind
    /\ pc' = [pc EXCEPT ![s] = "commit"]
    /\ writes' = [writes EXCEPT ![s] = Changes(s)]
    /\ out' = [out EXCEPT ![s] = Ledger!Receipt(job[s].intent, Allowed(s))]
    /\ UNCHANGED <<clock, rows, receipts, job, now, held, lost, spent, told>>

\* A statement fails: lock timeout, cancellation, deadline, lost connection.
Fail(s) ==
    /\ pc[s] \in {"command", "lookup", "buckets", "load", "commit"} /\ ~lost[s]
    /\ pc' = [pc EXCEPT ![s] = "rollback"]
    /\ UNCHANGED <<clock, rows, receipts, job, now, held, writes, out, lost, spent, told>>

\* The session's transaction is over, and its locks are gone.
End(s) ==
    /\ pc' = [pc EXCEPT ![s] = "idle"]
    /\ held' = [held EXCEPT ![s] = {}]
    /\ writes' = [writes EXCEPT ![s] = <<>>]
    /\ out' = [out EXCEPT ![s] = Ledger!None]
    /\ lost' = [lost EXCEPT ![s] = FALSE]
    /\ job' = [job EXCEPT ![s] = NoJob]
    /\ now' = [now EXCEPT ![s] = 0]

Answer(s) == Ledger!Told(job[s].command, job[s].intent, out[s].allowed)

\* Mutants: a command whose acknowledgement is lost leaves no receipt; only
\* admissions leave one.
InsertForgets(s) == [receipts EXCEPT ![job[s].command] = IF lost[s] THEN @ ELSE out[s]]

InsertAdmitted(s) == [receipts EXCEPT ![job[s].command] = IF out[s].allowed THEN out[s] ELSE @]

Insert(s) == [receipts EXCEPT ![job[s].command] = out[s]]

\* The server commits the rows, and the receipt of a command, whose digest is
\* the primary key.  A caller that still listens gets the decision.
Commit(s) ==
    /\ pc[s] = "commit"
    /\ \/ IsSingle(s) /\ UNCHANGED <<receipts, told>>
       \/ /\ ~IsSingle(s) /\ ~receipts[job[s].command].decided
          /\ receipts' = Insert(s)
          /\ told' = IF lost[s] THEN told ELSE told \cup {Answer(s)}
    /\ rows' = [b \in Buckets |-> IF b \in DOMAIN writes[s] THEN writes[s][b] ELSE rows[b]]
    /\ spent' = IF out[s].allowed THEN Ledger!Charge(job[s].intent) ELSE spent
    /\ End(s)
    /\ UNCHANGED clock

\* A replay commits a transaction that wrote nothing.
CommitReplay(s) ==
    /\ pc[s] = "replay"
    /\ told' = IF lost[s] THEN told ELSE told \cup {Answer(s)}
    /\ End(s)
    /\ UNCHANGED <<clock, rows, receipts, spent>>

\* Commit or rollback fails or is not acknowledged: UnknownOutcome.
LoseCaller(s) ==
    /\ pc[s] \in {"commit", "replay", "rollback"} /\ ~lost[s]
    /\ lost' = [lost EXCEPT ![s] = TRUE]
    /\ UNCHANGED <<clock, rows, receipts, pc, job, now, held, writes, out, spent, told>>

\* The transaction is rolled back: by the call, or by the server later on.
Abort(s) ==
    /\ pc[s] = "rollback" \/ (pc[s] \in {"commit", "replay"} /\ lost[s])
    /\ End(s)
    /\ UNCHANGED <<clock, rows, receipts, spent, told>>

------------------------------------------------------------------------------
(* The rest of the database. *)

\* Mutant: Cleanup waits for nobody.
CleanupAny(b) ==
    /\ Expired(b, clock)
    /\ rows' = [rows EXCEPT ![b] = NoRow]
    /\ UNCHANGED <<clock, receipts, session, spent, told>>

\* Cleanup deletes expired rows and skips those a session has selected for update:
\* the rows of its buckets, from its decision on.
Cleanup(b) ==
    /\ Expired(b, clock)
    /\ ~\E s \in Sessions : pc[s] \in {"commit", "rollback"} /\ out[s] # Ledger!None /\ b \in Ids(s)
    /\ rows' = [rows EXCEPT ![b] = NoRow]
    /\ UNCHANGED <<clock, receipts, session, spent, told>>

Tick ==
    /\ clock < MaxTime
    /\ clock' = clock + 1
    /\ UNCHANGED <<rows, receipts, session, spent, told>>

Init ==
    /\ clock = 0
    /\ rows = [b \in Buckets |-> NoRow]
    /\ pc = [s \in Sessions |-> "idle"]
    /\ job = [s \in Sessions |-> NoJob] /\ now = [s \in Sessions |-> 0]
    /\ held = [s \in Sessions |-> {}] /\ writes = [s \in Sessions |-> <<>>]
    /\ out = [s \in Sessions |-> Ledger!None] /\ lost = [s \in Sessions |-> FALSE]
    /\ Ledger!Init

Next ==
    \/ \E s \in Sessions :
         \/ \E c \in Commands, intent \in Intents : Submit(s, c, intent)
         \/ \E r \in Singles : SubmitSingle(s, r)
         \/ \E t \in 0 .. clock + Ahead : Observe(s, t)
         \/ LockCommand(s) \/ Lookup(s) \/ LockBucket(s) \/ Decide(s)
         \/ Fail(s) \/ Commit(s) \/ CommitReplay(s) \/ LoseCaller(s) \/ Abort(s)
    \/ \E b \in Buckets : Cleanup(b)
    \/ Tick

Spec == Init /\ [][Next]_vars

------------------------------------------------------------------------------
(* Properties. *)

\* A row outlives its refill by more than readings can differ, so that nobody
\* takes the absence of one for a full bucket before it would have been full.
Patient(b) == Ttl(b) >= Refill(b) + Behind + Ahead

\* Whatever commands, single admissions and cleanups run on a bucket together,
\* and however long they take between their clock and their rows: what was
\* charged to it never exceeds its limit and what has accrued, if its rows
\* live long enough; and its row lacks nothing that was not charged.
BooksBalance ==
    \A b \in Buckets :
        /\ Patient(b) => spent[b] <= Limit[b] + Rate * (clock + Ahead)
        /\ rows[b] # NoRow => Limit[b] <= rows[b].tokens + spent[b]

\* Every known answer ever given for a command is its one durable decision, for
\* the intent it was given for, however often the command was retried.
AnswersAgree ==
    \A t \in told : receipts[t.command] = Ledger!Receipt(t.intent, t.allowed)

\* The command lock makes the insert of a receipt safe: nobody else has stored
\* one between the lookup and the commit, so the primary key is never hit.
KeyNeverHit ==
    \A s \in Sessions :
        pc[s] = "commit" /\ ~IsSingle(s) => ~receipts[job[s].command].decided

\* Sessions never wait for each other in a circle: no transaction is ended by the
\* server's deadlock detector.
NoWaitCycle ==
    ~\E S \in SUBSET Sessions :
        /\ S # {}
        /\ \A s \in S : \E l \in Wants(s), t \in S \ {s} : l \in held[t]

\* Rows change under the bucket's lock or, unless they were selected for update,
\* by Cleanup: a decision repeated at its commit, from the same reading of the
\* clock, would find the same balances and write the same rows.
DecidedFromCurrent ==
    \A s \in Sessions : pc[s] = "commit" =>
        out[s].allowed = Allowed(s) /\ writes[s] = Changes(s)

\* The transactions implement the ledger: decided once, whole, and replayed.
LedgerSpec == Ledger!Spec
=============================================================================
