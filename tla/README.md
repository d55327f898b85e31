# A formal model of go-rate-limit

TLA+ modules for the rate limiter of this repository, TLC configurations that
check them on small instances, and TLAPS proofs of the properties that matter
most. Every definition is translated from the Go, Lua and SQL under `src/`;
`PROJECT.json` maps each one to its lines.

## 1. The system

A caller asks a *service* to admit a request, a batch, or a lease. The service
validates, asks a *backend*, classifies the answer and applies the failure mode
of the policy. A backend keeps the state of each policy ID and key and moves it
with one of four algorithms.

| Part | State | Operations | What makes it hard |
|---|---|---|---|
| Token bucket | tokens, remainder, last refill, last seen, revision | admit | rounding, revisions that change limit and rate, clocks that move back |
| Fixed window | window start, used, period | admit | windows before the epoch, clamped clocks, revisions |
| Sliding window | a ring of 16 segments | admit | segments that do not divide the period, slots claimed again |
| Leases | leases by ID, last seen | acquire, release | retries, late releases, expiry, weights, revisions |
| Memory store | shards of entries behind channel locks, closed flag | admit, acquire, release, sweep, len, close | contexts that end in line, eviction at capacity, close during calls |
| Valkey | one hash per key with a TTL | atomic scripts, released and strict | TTL on one clock and contents on another, two scripts on one hash |
| PostgreSQL | one row per key with `expires_at`, receipts of commands | transactions under advisory locks, cleanup | lost commits, lock order, cleanup, two kinds of caller on one row |
| Released service | none | Admit, Batch, Acquire, Release | error classification while the context ends |
| Strict service | none | the same, with declared outcomes, and AdmitAtomicBatch | replies that prove nothing, unknown outcomes |
| Middlewares | none | HTTP, queue and RPC wrappers of a handler | several rules charged in order, contexts that end between two of them |

"Released" is the v1 interface (`Admit`, `Acquire`, `Release`), "strict" the newer
one whose backend declares what it did (`AdmitStrict` and so on). Both share
state in every backend, so the models of the backends let both kinds of caller
act on the same entry, hash or row.

`PROJECT.json` lists every component, and the hazards of the code by line.

## 2. Modules

The order is the order of reading: contents of an entry, the store around it, the
services and middlewares above it, and the two distributed backends.

| Module | Models | Correspondence |
|---|---|---|
| `TokenBucket` | `memory/store.go`, token path | `bucket` is the `state` struct. `Admit` is `getOrCreate`, `carryRevision`, clamp, `refill`, `admitToken` |
| `WindowPolicy` | shared by the windows | policies, instants, `consumeWindow`, the period check of `AdmitStrict` |
| `FixedWindow` | `admitFixed` | `window` is the entry |
| `SlidingWindow` | `admitSliding` | `entry.segments` is the ring |
| `LeasePool` | the promise of `LeaseBackend` | abstract: leases set aside, grants, refusals |
| `HeldLeases` | what all lease stores share | policies, the history of who holds what, and the refinement mapping to `LeasePool` |
| `MemoryLeases` | `acquireLocked`, `releaseLocked`, `Sweep` on one key | the map of leases is a set of records |
| `MemoryStore` | shards, `contextMutex`, contexts, eviction, `Sweep`, `Len`, `Close` | one process per caller, with a step for each point where another can come in between |
| `MemoryWindows` | the dispatch of `admitLocked` | an entry of either window, one algorithm for its life |
| `Service` | `service.go`, `batch.go`, `lease.go` | one call, item by item |
| `StrictService` | `strict_service.go`, `strict_lease.go`, `atomic_batch.go` | one call, item by item, over every form of reply |
| `Services` | an application on either service | |
| `Adapters` | `adapters/http`, `adapters/queue`, `ratelimitrpc` | a call of a wrapped handler on top of `Services`, rule by rule |
| `AtomicLedger` | the promise of `StrictAtomicBatchBackend` | abstract: one decision per command |
| `PostgresAtomic` | `postgres/atomic.go`, strict single admissions, `Cleanup` | one process per pooled connection; a step per lock, for the reading of the clock, for the loading of the rows, and for the commit, so that time and `Cleanup` can come in between |
| `RemoteLeases` | what both remote lease stores share | the clock of the server, those of clients, and expiry |
| `PostgresLeases` | `postgres/lease.go`, strict leases | one row, one action per transaction |
| `ValkeyLeases` | lease scripts | one hash, one action per script |
| `LeaseBackends` | a deployment in memory or on either server | |
| `RemoteBucket` | what both remote buckets share | clocks, rollouts, the observer's tally, properties |
| `PostgresBucket` | `mutateToken`, released and strict | one row, one action per transaction |
| `ValkeyBucket` | token branch of the admission scripts | one hash, one action per script |
| `BucketBackends` | a deployment on either | |
| `RemoteWindow` | what both remote windows share | clocks, segments, log of admissions, properties |
| `PostgresWindow` | `mutateFixed`, `mutateSliding`, `mutateSlidingLegacy` | one row, one action per transaction |
| `ValkeyWindow` | window branches of the admission scripts | one hash, one action per script |
| `WindowBackends` | a deployment on either | |

`MC*` modules give the constants values. `Arithmetic` and `*Proofs` hold the
lemmas and theorems.

Composition is by abstraction. `MemoryStore` reduces an entry to what locks,
capacity and sweeps depend on, and leaves its contents to the modules of the
algorithms, which are one action per call because the shard lock is held
throughout. `PostgresAtomic` reduces a bucket to a balance with an integer rate; the
rows of a command are loaded in one step, because each is selected for update and
stays as it was found until the last is loaded.
The services see a backend as its documented contract, with any reply.
`MemoryLeases`, `ValkeyLeases` and `PostgresLeases` implement the same `LeasePool`,
and `PostgresAtomic` implements `AtomicLedger`; the runs check each refinement and
theorems state them. The ledger knows decisions, answers and charges; that the rows
agree with the charges is `BooksBalance`.
`MemoryWindows`, `Services`, `LeaseBackends`, `BucketBackends` and `WindowBackends`
choose one of their components in the initial state and let it act, so that one
run asks the same questions of all. The stores of leases, of buckets and of windows
have operators of different names (`AdmitScript` and `AdmitRow`, `HashTTL` and `RowTTL`),
so that the deployment extends them all. `Adapters` runs on top of `Services`: a
middleware starts calls of the service and reads what they return, and a caller
without a middleware uses the service directly.

A call that fails before it changes anything is a stutter. A reply that is lost
is a call whose answer nobody reads, and a retry is another call; in
`PostgresAtomic`, where the loss itself matters, both are actions.

## 3. Runs

| Run | Shows | Bounds, and why they are enough |
|---|---|---|
| `token_bucket` | no tokens are minted; RetryAfter and Reset are exact | three revisions with periods 5, 3, 4 that do not divide each other; 8 instants, so refills pass a period and remainders are carried |
| `memory_windows` | limits hold, no wrong refusal, Reset can be relied on, no usage wiped | instants -2 to 6 with period 5: windows on both sides of the epoch; 3 segments of width 2, which do not divide the period, and enough instants to wrap the ring |
| `memory_store` | cardinality, late strict calls, leases and eviction, quiet close | two callers, three keys on two shards of one entry, so a shard is full at once |
| `memory_queue` | nothing resets the budget of a key in use, neither the pressure of other keys nor a sweep; every call returns | three callers, so that one waits behind a waiter; of two keys on a full shard one was used too late for the sweep to remove |
| `services` | strict answers and observations never claim more than was declared, atomic batches included; strict batches account for each item and stop when told; an allowed acquisition, and nothing else, comes with a lease, the one that was asked for; released integrity errors fail closed while the context is live; released batches run to their end; a handler runs once, and only when every rule let the call through | batches up to 3: a first, a middle and a last item; up to 3 rules likewise |
| `postgres_atomic` | charges and rows of a bucket balance, one answer per command, no duplicate receipt, no wait cycle, decisions from current rows; implements `AtomicLedger` | two connections, two commands, two buckets named in opposite orders; readings that are one instant old when rows are loaded (`Behind`), which is the most these retentions allow; four instants, in which a row is drained, removed and created again |
| `lease_backends` | nobody loses a lease, refusals justified; memory, Valkey and PostgreSQL implement `LeasePool` | three IDs, weights 1 and 2, clocks off by 1, two revisions whose leases fit each other's retention, time for a lease and its retention to end |
| `bucket_backends` | no tokens minted; exact Reset and shared state acceptable to strict callers while limits grow; strict callers never draw on more than a lowered limit | a limit raised from 3 to 4 with capacity 3 and period 4, so that refills leave remainders; one lowered from 3 to 1, so that a balance above it remains; in PostgreSQL a burst of twice the capacity; clocks off by 1; 9 instants, in which state is removed and created again |
| `window_backends` | limits hold, no wrong refusal, strict state is accepted by strict callers, for both algorithms on both servers | limits 2 and 1 with period 4, another revision with period 5, 3 segments of width 2, clocks off by 1; 10 instants, in which windows pass and state expires |

Three runs show where the code and a sentence of the repository disagree;
`PROJECT.json` quotes the sentences.

| Run | What happens |
|---|---|
| `service_integrity` | a fail-open policy admits on corruption when the context ended meanwhile |
| `lease_rollout` | a rollout to much shorter leases drops a longer lease that is still active; the trace is on Valkey, and the retention of the row in PostgreSQL follows the same rule |
| `bucket_burst` | a drained bucket in Valkey with a burst above its capacity is removed after two periods, before it has refilled, and created full |

The passing runs hold within these boundaries, each of them a condition on the
constants of the run or of the property:

- Leases are safe when the retention, twice the lease of the caller, covers the
  longest deployed lease and twice the skew (`lease_rollout` is outside).
- A bucket in Valkey is removed after two periods (`valkey/store.go:108`), in
  PostgreSQL after the time of a full refill or two periods, whichever is longer.
  Neither adds a margin for clients whose clocks disagree: a full refill and
  twice the skew must fit the retention. The policies of `bucket_backends` do;
  `bucket_burst` is outside. The proofs name the condition: `Patient` for what is
  admitted, `Lasting` for Reset.
- What atomic commands and single admissions charge in PostgreSQL is bounded when
  the retention covers a full refill and the spread of the clock readings
  (`Patient` in `PostgresAtomic`). A transaction reads its instant before it loads
  its rows, at most `Options.Timeout` before, and under `ClientClock` the caller
  reads it, before the locks, on a clock that may be slow (`Behind`) or fast
  (`Ahead`). `Cleanup` may remove a row in between. Two periods leave room for a
  spread of one period when the limit is the capacity. When the burst makes the
  refill the longer of the two, the retention is exactly the refill, and a
  command whose reading is older than the clock of `Cleanup` finds a full bucket
  up to that spread too early; `BooksBalance` claims nothing of such buckets.
- A sliding window drops a segment up to one width before the last request in it
  is a period old (`memory/store.go:500`, `postgres/state.go:453`).
  `docs/algorithms.md` mentions segments that are retained, not this.
  `RollingBound` claims the limit for the period less one width, which is what
  the code keeps.
- Released callers carry a balance above a lowered limit, as
  `docs/backends.md` grants them. Such a balance is no full bucket, its Reset is
  the longest duration in PostgreSQL, and a strict caller of that revision takes
  it for corrupt. `ResetExact` and `NeverCorrupt` are therefore stated where no
  deployment lowers the limit; `NoOverAdmission` and `StrictCapped` hold for all.
- The retention of a released window row in PostgreSQL is counted from the
  submitted instant (`postgres/native.go:176`), by a clock that may differ. Limits
  and refusals are claimed while four times the skew fit in the period, on Valkey
  twice the skew; the proofs call this `Patient` too.
- Reset of a sliding window is counted from the end of the oldest segment and its
  expiry from the start (`memory/store.go:520`), so a request may be admitted one
  segment before its Reset. `ResetHonest` claims what holds at Reset, not that
  nothing changes before.

Deadlock is checked in every run. Time is bounded by `MaxTime` (`LastInstant` in
`MemoryStore`), and calls at the
last instant go on for ever.

### Fairness

Only `EveryCallReturns` is a liveness property. It assumes weak fairness of each
caller's own next step in `MemoryStore`. Go runs every goroutine that can run, and
a lock is a channel whose receivers are served in the order of their arrival,
which the model keeps as a queue; nothing is assumed about contexts, sweeps or
the arrival of other calls. The other runs check safety and need no fairness.

## 4. Proofs

All theorems hold for every value of the constants that satisfies the assumptions
of the modules, which state what `NewPolicy` and the option checks accept.

| Module | Theorems | Argument |
|---|---|---|
| `MemoryProofs` | store: `StoreIsBounded`, `LateStrictIsHarmless`, `BudgetIsKept`, `LeaseIsKept`, `ClosedIsQuiet`; token bucket: `TypeCorrect`, `NeverOverAdmits`, `RetryAfterIsExact`, `ResetIsExact` | Store: each shard is within its quota whoever holds its lock, a walk of `Len` has counted no more than the quotas of the shards it has left, and the quotas add up to `MaxKeys`. Without eviction an entry has counted what was granted and was seen as late as its key was served, so what a sweep finds idle is idle. A call says for itself what it still may do: a late strict call can only wait and be canceled, and after `Close` whoever goes on was past its preflight. Bucket: the invariant weighs tokens and remainder together, in fractions of a period, and keeps the sum of what was granted and what is left below the limit at the start plus the fastest refill since. Revisions only lower that weight. `NoOverAdmission` alone says nothing about what is left, so it is not inductive. For the announced instants, a second invariant says of the stored bucket that, left to accrue, it reaches a full limit exactly at the last Reset and the cost of a followed rejection exactly at the end of its delay; a refill moves no such instant, since it keeps every fraction, and a quotient rounded up is the first multiplier that suffices |
| `MemoryWindowsProofs` | fixed window alone: `TypeCorrect`, `NeverOverAdmits`, `NeverRefusesWrongly`, `ResetIsExact`; an entry of either algorithm: `EntryNeverOverAdmits`, `RollingIsBounded`, `EntryRefusesJustly`, `ResetIsHonest`, `NeverForgetsUsage`, `RingAligned` | Fixed: the counter equals what was admitted in its window, later windows are untouched, and a decision is about the latest instant seen. Sliding: every segment sits in the slot of its number, and from the newest dropped to the current one there are at most as many as slots, because the rounded-up widths cover the period. So the ring holds, for every segment that still counts, the sum of the log over that segment, and what a rolling period admitted is a sum over segments |
| `AdaptersProofs` | `StrictIsHonest`, `AtomicIsHonest`, `StrictBatchIsAccounted`, `StrictStops`, `StrictLeaseIsComplete`, `ReleasedKeepsIntegrity`, `ReleasedRunsToEnd`, `HandlerIsAdmitted` | What normalisation concludes from a reply is true of what the backend did, for every form of reply. The invariant of a service says of each item before the current one what was done and told, and of the current one where it is; that of a middleware adds what each rule it has asked answered. Batches and rule lists have any length |
| `LeaseBackendsProofs` | memory alone, without conditions: `TypeCorrect`, `NobodyLosesALease`, `MemoryRefusesJustly`, `MemoryImplementsPool`; each server and any deployment: `PostgresKeepsLeases`, `ValkeyKeepsLeases`, `BackendsKeepLeases`, `BackendsRefuseJustly`, `BackendsImplementPool` | The clock of the holders is never behind the entry, so what the entry drops has expired for all, and the weights of the entry are the weights in the hands of callers. On a server, under `Patient` (the retention condition above), the row or hash outlives each of its leases, however far within the skew the clocks of its callers are |
| `PostgresAtomicProofs` | `EveryAnswerAgrees`, `LockCoversInsert`, `ImplementsLedger`, `NobodyWaitsInACircle`, `BooksAlwaysBalance`, `DecisionsStayCurrent` | A session between lookup and commit holds the lock of its command, locks are disjoint, and so nobody else decides the command meanwhile. Bucket locks are taken from the smallest key upwards after the command lock, so whoever waits for the greatest key waited for in a circle waits for someone who waits for a greater one; the theorem asks for an upper bound on the keys, which are 64-bit numbers. Every row is sound (`Funds`): what was charged and its balance together are at least the limit and, for a patient bucket, at most the limit and the accrual at the row's instant. Where there is no row, a full bucket is given out to whoever reads a clock no older than `Behind`; the invariant says that what was charged has accrued by then, which `BooksBalance` alone does not imply. Expired rows are full again on every reading in use, and the rows a session has decided from are under its locks and selected for update |
| `BucketBackendsProofs` | `GrantsAreCapped`, `SharedStateIsSound`, `NoTokenIsMinted`, `ModestTokensAreBounded`, `ResetIsExact`, `ResetIsTimely` | The stored balance and remainder fit the policy in use as long as limits grow: refills stop at the limit, remainders stay below the period, and a deployment compares with the one before. `NeverCorrupt` speaks of the last answer only, and needs what is stored. A strict grant is capped either by the carry-over from another revision or by the check that the stored balance is within the limit. The two arguments about time follow below |
| `WindowBackendsProofs` | under `Patient`: `StateAccounts`, `FixedNeverOverAdmits`, `SlidingNeverOverAdmits`, `RemoteRefusalsAreJust`; without it: `StrictCallersAgree` | What the stored state counts, on the clock of the next caller, is what the log of admissions holds of its window. The first part is about rings in general, for any period and number of segments: a ring holds a log when each slot holds the sum of the log over the segment it stands for, and dropping segments, charging one and summing all of them keep this or follow from it. The rest of the argument follows below |
| `Arithmetic` | lemmas on division, products, least and greatest elements, induction and finite sums | |

**Remote buckets over time.** In fractions of a token, what was granted since a
measurement began and what the stored bucket is worth stay within the limit at
its start plus the refill of the fastest rate since (`AuditInv`). Removal of the
state is what endangers this, since the next caller is given a full bucket: the
invariant also says that the state is kept until such a refill is worth a full
bucket on every clock in use, and once it is removed, that this time has passed.
That needs `Patient`: every retention less twice the skew lets the fastest rate
fill every bucket. `NoTokenIsMinted` assumes it and nothing else.
`ModestTokensAreBounded` shows that it is met by one clock and bursts of at most
the capacity, on both servers and through every rollout, and on PostgreSQL by any
burst of a single policy. The deployment of `bucket_burst` does not meet it.

Reset is the same with one rate: the stored bucket, left to refill, reaches the
limit exactly at the Reset last reported, and the state outlasts that instant
(`ResetInv`). A refill keeps every fraction, so it does not move the instant.
`ResetIsExact` assumes `Lasting`, where each policy need fill only its own bucket,
and `ResetIsTimely` shows that with one clock PostgreSQL always meets it, and
Valkey for bursts of at most the capacity. TLC checked both conditions and both
invariants on `bucket_backends` before they were proved.

**Remote windows over time.** The decision of a call compares a cost with what the
stored state counts, and the properties speak of the log, so the invariant
(`AccountInv`) equates the two: a fixed window's counter is the log over its
window, a ring holds the log of every segment that has not left the window, and
nothing is logged later than the state has seen. Three things could break this.
A caller whose clock is behind is moved up to the last instant seen. Another
caller may write the ring in a rollout, which changes the limit and not the
segments. And the state may be removed: the invariant also says that it is kept
until everything it counts has left the window on every clock in use, and once it
is removed, that this has happened (`Forgotten`). That needs `Patient`: the period
is at least four times the skew on PostgreSQL, where a released row expires two
periods after the submitted instant, and twice the skew on Valkey, where the TTL
starts when the script runs. TLC finds both bounds tight: with skew 1, period 3 on
PostgreSQL and period 1 on Valkey each violate a limit, and periods 4 and 2 do not.
`StrictCallersAgree` needs no such condition, because a strict caller finds the
state of another either consistent or gone: its invariant (`TrustInv`) says that
the state accounts for *some* log, and that one last written by a strict caller is
within the limit of its revision or marked as carried over. TLC checked both
invariants on `window_backends`, the second with the log of the run for that log,
before they were proved.

**Induction.** The provers cannot instantiate a theorem that takes an operator, so
`Arithmetic` states induction, least and greatest elements for sets: the claim is
made a set of numbers or of finite sets. What a sum over segments, or over the log
of admissions, is worth is proved from it.

Only model-checked: `EveryCallReturns` (the prover does not do fairness). Every
other property of the passing runs is stated by a theorem. The three violations are single traces of
TLC.

## 5. What is left out

- **Numbers.** Integers are unbounded. The 128-bit products of the code are exact,
  so this loses only the wrap of `tokens+added` after gaps of decades, and the
  explicit range checks of the strict methods (`ErrOverflow`).
- **Time.** An instant is a microsecond. TTLs truncated to milliseconds are not
  modelled. The clock by which a server removes state only advances, by one
  instant; what a server or client reads as the time of a call, or of a cleanup,
  may go back within the skew.
- **Malformed state.** The decoders check shape, ranges and byte limits of what is
  stored. No writer of the models produces such state; the checks of the values
  that writers of another revision or kind do produce are modelled.
- **A changed period under a released caller.** It starts a new window under the
  same ID. `docs/deployment.md` asks for a new Policy.ID instead, and the models
  follow it for released callers; strict callers, which refuse the change when
  the state records a period, are modelled.
- **Validation and formatting** of policies, keys and requests, response headers,
  client plumbing, migrations, telemetry, the authentication adapter, and the
  test helpers: sequential code without state of its own.
