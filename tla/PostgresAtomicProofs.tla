------------------------ MODULE PostgresAtomicProofs ------------------------
(***************************************************************************)
(* For every pool of sessions, every set of commands, buckets and intents  *)
(* and every limit: the transactions of PostgresAtomic implement the       *)
(* ledger, the answers given for a command agree, the command lock keeps   *)
(* the primary key of the receipts from being hit, no sessions wait for    *)
(* each other in a circle, every decision rests on rows nobody has changed *)
(* since, and no bucket admits more than it was refilled with, however far *)
(* the readings of the clock differ, if its rows outlive that.             *)
(***************************************************************************)
EXTENDS PostgresAtomic, Arithmetic

Stages == {"idle", "command", "lookup", "buckets", "load", "commit", "replay", "rollback"}

\* A session past the lock statement of its command and before its end.
Inside(s) == ~IsSingle(s) /\ pc[s] \in {"lookup", "buckets", "load", "commit", "replay"}

\* A session serves a command or a single request, which has no receipt to look up.
Serves(s) ==
    \/ job[s].command \in Commands /\ job[s].intent \in Intents
    \/ /\ IsSingle(s) /\ \E r \in Singles : job[s].intent = <<r>>
       /\ pc[s] \notin {"command", "lookup", "replay"}

Receipts == {Ledger!None} \cup {Ledger!Receipt(i, a) : i \in Intents, a \in BOOLEAN}

Shape ==
    /\ pc \in [Sessions -> Stages]
    /\ DOMAIN job = Sessions /\ DOMAIN held = Sessions /\ DOMAIN out = Sessions
    /\ receipts \in [Commands -> Receipts]
    /\ spent \in [Buckets -> Nat]
    /\ \A s \in Sessions : pc[s] # "idle" => Serves(s)

Owned ==
    /\ \A s \in Sessions : Inside(s) => CommandLock(job[s].command) \in held[s]
    /\ \A s, t \in Sessions : s # t => held[s] \cap held[t] = {}

Pending ==
    \A s \in Sessions :
        /\ pc[s] \in {"buckets", "load", "commit"} /\ ~IsSingle(s)
              => ~receipts[job[s].command].decided
        /\ pc[s] = "commit" => \E a \in BOOLEAN : out[s] = Ledger!Receipt(job[s].intent, a)
        /\ pc[s] = "replay" => /\ receipts[job[s].command].decided
                               /\ receipts[job[s].command].intent = job[s].intent
                               /\ out[s] = receipts[job[s].command]

IInv == Shape /\ Owned /\ Pending /\ AnswersAgree

\* What a session carries is a receipt in the making, or the one it found.
LEMMA ReceiptFields ==
    /\ ~Ledger!None.decided
    /\ \A i, a : /\ Ledger!Receipt(i, a).decided
                 /\ Ledger!Receipt(i, a).intent = i
                 /\ Ledger!Receipt(i, a).allowed = a
BY Zenon DEF Ledger!None, Ledger!Receipt

\* What a transaction may be asked to charge.
Work == Intents \cup {<<r>> : r \in Singles}

\* Commands and single requests are told apart by their names.
LEMMA ServesFacts ==
    ASSUME NEW s, Serves(s)
    PROVE  /\ job[s].intent \in Work
           /\ ~IsSingle(s) => job[s].command \in Commands /\ job[s].intent \in Intents
           /\ IsSingle(s) => \E r \in Singles : job[s].intent = <<r>>
<1>1. "none" \notin Commands
  BY SetupAssumption, Zenon
<1>. QED
  BY <1>1, Zenon DEF Serves, Work, IsSingle

\* Nobody looks a single request up.
LEMMA ServesReplay ==
    ASSUME NEW s, Serves(s), pc[s] \in {"command", "lookup", "replay"}
    PROVE  ~IsSingle(s)
<1>1. "none" \notin Commands
  BY SetupAssumption, Zenon
<1>. QED
  BY <1>1, Zenon DEF Serves, IsSingle

\* Costs are natural numbers.
LEMMA WorkFacts ==
    ASSUME NEW intent \in Work, NEW i \in DOMAIN intent
    PROVE  intent[i].bucket \in Buckets /\ intent[i].cost \in Nat
<1>1. CASE intent \in Intents
  BY <1>1, SetupAssumption
<1>2. ASSUME NEW r \in Singles, intent = <<r>>
      PROVE  intent[i].bucket \in Buckets /\ intent[i].cost \in Nat
  <2>1. intent[i] = r
    BY <1>2
  <2>2. r.bucket \in Buckets /\ r.cost \in 1 .. Limit[r.bucket]
    BY SetupAssumption, Zenon
  <2>. QED
    BY <2>1, <2>2
<1>. QED
  BY <1>1, <1>2, Zenon DEF Work

\* What an intent costs a bucket: nothing, if it does not name it.
LEMMA CostFacts ==
    ASSUME NEW intent \in Work, NEW b
    PROVE  /\ Ledger!Cost(intent, b) \in Nat
           /\ b \notin {intent[i].bucket : i \in DOMAIN intent} => Ledger!Cost(intent, b) = 0
<1> DEFINE mine == {i \in DOMAIN intent : intent[i].bucket = b}
<1>1. CASE mine = {}
  BY <1>1, Zenon DEF Ledger!Cost
<1>2. CASE mine # {}
  <2>1. (CHOOSE i \in mine : TRUE) \in mine
    BY <1>2, Zenon
  <2>2. Ledger!Cost(intent, b) = intent[CHOOSE i \in mine : TRUE].cost
    BY <1>2, Zenon DEF Ledger!Cost
  <2>3. \A i \in mine : intent[i].cost \in Nat
    BY WorkFacts, Zenon
  <2>4. b \in {intent[i].bucket : i \in DOMAIN intent}
    BY <1>2, Zenon
  <2>. QED
    BY <2>1, <2>2, <2>3, <2>4, Zenon
<1>. QED
  BY <1>1, <1>2, Zenon

\* It holds of empty tables and an idle pool.
LEMMA InitInv == Init => IInv
BY ReceiptFields DEF Init, Ledger!Init, IInv, Shape, Owned, Pending, AnswersAgree, Stages, Receipts, Inside

\* Steps that leave receipts and answers alone keep them in agreement.
LEMMA AgreeKept == AnswersAgree /\ receipts' = receipts /\ told' = told => AnswersAgree'
BY Zenon DEF AnswersAgree

\* A session that ends gives up its locks, and nothing else depends on it.
LEMMA EndKeeps ==
    ASSUME IInv, NEW s \in Sessions, End(s),
           receipts' = receipts, spent' \in [Buckets -> Nat], AnswersAgree'
    PROVE  IInv'
<1>1. Shape'
  BY Zenon DEF IInv, Shape, End, Stages, Serves, IsSingle
<1>2. Owned'
  BY Zenon DEF IInv, Shape, Owned, End, Inside, IsSingle
<1>3. Pending'
  BY Zenon DEF IInv, Shape, Pending, End, IsSingle
<1>4. QED
  BY <1>1, <1>2, <1>3, Zenon DEF IInv

\* A commit charges natural numbers.
LEMMA ChargeKeeps ==
    ASSUME IInv, NEW s \in Sessions, Commit(s)
    PROVE  spent' \in [Buckets -> Nat]
<1>1. CASE ~out[s].allowed
  BY <1>1, Zenon DEF Commit, IInv, Shape
<1>2. CASE out[s].allowed
  <2>1. job[s].intent \in Work
    BY ServesFacts, Zenon DEF Commit, IInv, Shape
  <2>2. \A b \in Buckets : Ledger!Cost(job[s].intent, b) \in Nat
    BY <2>1, CostFacts, Zenon
  <2>3. spent' = [b \in Buckets |-> spent[b] + Ledger!Cost(job[s].intent, b)]
    BY <1>2, Zenon DEF Commit, Ledger!Charge
  <2>4. QED
    BY <2>2, <2>3 DEF IInv, Shape
<1>3. QED
  BY <1>1, <1>2, Zenon

\* Storing the receipt of one command disturbs no session that serves another,
\* and the lock leaves none that serves the same.
LEMMA CommitKeeps ==
    ASSUME IInv, NEW s \in Sessions, Commit(s), ~IsSingle(s)
    PROVE  IInv'
<1> DEFINE c == job[s].command
<1>1. /\ c \in Commands /\ job[s].intent \in Intents
      /\ ~receipts[c].decided
      /\ receipts' = [receipts EXCEPT ![c] = out[s]]
      /\ End(s)
  BY ServesFacts, Zenon DEF Commit, Insert, IInv, Shape
<1>2. PICK a \in BOOLEAN : out[s] = Ledger!Receipt(job[s].intent, a)
  BY Zenon DEF IInv, Pending, Commit
<1>3. out[s].decided /\ out[s].allowed = a /\ out[s] \in Receipts
  BY <1>1, <1>2, ReceiptFields DEF Receipts
<1>4. \A t \in Sessions \ {s} : Inside(t) => job[t].command # c
  BY DEF IInv, Owned, Inside, Commit
<1>5. spent' \in [Buckets -> Nat]
  BY ChargeKeeps
<1>6. Shape'
  <2>1. receipts' \in [Commands -> Receipts]
    BY <1>1, <1>3, Zenon DEF IInv, Shape
  <2>2. QED
    BY <1>1, <1>5, <2>1, Zenon DEF IInv, Shape, End, Stages, Serves, IsSingle
<1>7. Owned'
  BY <1>1, Zenon DEF IInv, Shape, Owned, End, Inside, IsSingle
<1>8. Pending'
  <2>1. pc'[s] = "idle"
    BY <1>1, Zenon DEF IInv, Shape, End
  <2>2. \A t \in Sessions \ {s} : pc'[t] = pc[t] /\ job'[t] = job[t] /\ out'[t] = out[t]
    BY <1>1, Zenon DEF IInv, Shape, End
  <2>3. \A t \in Sessions : pc[t] = "replay" => ~IsSingle(t)
    BY ServesReplay, Zenon DEF IInv, Shape
  <2>4. ASSUME NEW t \in Sessions, t # s, ~IsSingle(t),
               pc[t] \in {"buckets", "load", "commit", "replay"}
        PROVE  receipts'[job[t].command] = receipts[job[t].command]
    <3>1. job[t].command # c /\ job[t].command \in Commands
      BY <1>4, <2>4, ServesFacts, Zenon DEF Inside, IInv, Shape
    <3>2. QED
      BY <1>1, <3>1, Zenon DEF IInv, Shape
  <2>5. SUFFICES ASSUME NEW t \in Sessions
                 PROVE  /\ pc'[t] \in {"buckets", "load", "commit"} /\ job'[t].command # "none"
                              => ~receipts'[job'[t].command].decided
                        /\ pc'[t] = "commit"
                              => \E b \in BOOLEAN : out'[t] = Ledger!Receipt(job'[t].intent, b)
                        /\ pc'[t] = "replay" => /\ receipts'[job'[t].command].decided
                                                /\ receipts'[job'[t].command].intent = job'[t].intent
                                                /\ out'[t] = receipts'[job'[t].command]
    BY <2>5, Zenon DEF Pending, IsSingle
  <2>6. CASE t = s
    BY <2>1, <2>6
  <2>7. CASE t # s
    <3>1. pc'[t] = pc[t] /\ job'[t] = job[t] /\ out'[t] = out[t]
      BY <2>2, <2>7
    <3>2. pc[t] = "replay" => job[t].command # "none"
      BY <2>3, Zenon DEF IsSingle
    <3>3. pc[t] \in {"buckets", "load", "commit", "replay"} /\ job[t].command # "none"
             => receipts'[job[t].command] = receipts[job[t].command]
      BY <2>4, <2>7, Zenon DEF IsSingle
    <3>4. /\ pc[t] \in {"buckets", "load", "commit"} /\ job[t].command # "none"
                => ~receipts[job[t].command].decided
          /\ pc[t] = "commit" => \E b \in BOOLEAN : out[t] = Ledger!Receipt(job[t].intent, b)
          /\ pc[t] = "replay" => /\ receipts[job[t].command].decided
                                 /\ receipts[job[t].command].intent = job[t].intent
                                 /\ out[t] = receipts[job[t].command]
      BY Zenon DEF IInv, Pending, IsSingle
    <3>5. QED
      BY <3>1, <3>2, <3>3, <3>4, Zenon
  <2>8. QED
    BY <2>6, <2>7, Zenon
<1>9. AnswersAgree'
  <2>1. SUFFICES ASSUME NEW t \in told'
                 PROVE  receipts'[t.command] = Ledger!Receipt(t.intent, t.allowed)
    BY Zenon DEF AnswersAgree
  <2>2. CASE t \in told
    <3>1. receipts[t.command] = Ledger!Receipt(t.intent, t.allowed)
      BY <2>2, Zenon DEF IInv, AnswersAgree
    <3>2. t.command # c
      BY <1>1, <3>1, ReceiptFields
    <3>3. QED
      BY <1>1, <3>1, <3>2 DEF IInv, Shape
  <2>3. CASE t \notin told
    <3>1. t = Ledger!Told(c, job[s].intent, a)
      BY <1>3, <2>1, <2>3, Zenon DEF Commit, Answer
    <3>2. t.command = c /\ t.intent = job[s].intent /\ t.allowed = a
      BY <3>1, Zenon DEF Ledger!Told
    <3>3. QED
      BY <1>1, <1>2, <3>2, Zenon DEF IInv, Shape
  <2>4. QED
    BY <2>2, <2>3, Zenon
<1>10. QED
  BY <1>6, <1>7, <1>8, <1>9, Zenon DEF IInv

\* A single request leaves the receipts alone.
LEMMA SingleKeeps ==
    ASSUME IInv, NEW s \in Sessions, Commit(s), IsSingle(s)
    PROVE  IInv'
<1>1. receipts' = receipts /\ told' = told /\ End(s)
  BY Zenon DEF Commit
<1>. QED
  BY <1>1, ChargeKeeps, AgreeKept, EndKeeps, Zenon DEF IInv

\* A replayed answer is the receipt that was found.
LEMMA ReplayKeeps ==
    ASSUME IInv, NEW s \in Sessions, CommitReplay(s)
    PROVE  IInv'
<1> DEFINE c == job[s].command
<1>1. /\ receipts[c].intent = job[s].intent /\ receipts[c].decided
      /\ out[s] = receipts[c] /\ receipts[c] \in Receipts
      /\ End(s) /\ receipts' = receipts /\ spent' \in [Buckets -> Nat]
  BY ServesReplay, ServesFacts, Zenon DEF CommitReplay, IInv, Pending, Shape
<1>2. receipts[c] = Ledger!Receipt(job[s].intent, out[s].allowed)
  BY <1>1, ReceiptFields DEF Receipts
<1>3. AnswersAgree'
  <2>1. SUFFICES ASSUME NEW t \in told', t \notin told
                 PROVE  receipts[t.command] = Ledger!Receipt(t.intent, t.allowed)
    BY <1>1, Zenon DEF IInv, AnswersAgree
  <2>2. t = Ledger!Told(c, job[s].intent, out[s].allowed)
    BY <2>1, Zenon DEF CommitReplay, Answer
  <2>3. QED
    BY <1>2, <2>2, Zenon DEF Ledger!Told
<1>4. QED
  BY <1>1, <1>3, EndKeeps, Zenon

\* Every step preserves the invariant.
LEMMA StepInv == IInv /\ [Next]_vars => IInv'
<1> SUFFICES ASSUME IInv, [Next]_vars
             PROVE  IInv'
  OBVIOUS
<1> USE DEF IInv
<1>1. ASSUME NEW s \in Sessions, NEW c \in Commands, NEW intent \in Intents, Submit(s, c, intent)
      PROVE  IInv'
  <2>1. Shape'
    BY <1>1, Zenon DEF Submit, Shape, Stages, Serves, IsSingle
  <2>2. Owned' /\ Pending'
    BY <1>1, Zenon DEF Submit, Shape, Owned, Pending, Inside, IsSingle
  <2>3. QED
    BY <1>1, <2>1, <2>2, AgreeKept, Zenon DEF Submit
<1>2. ASSUME NEW s \in Sessions, NEW r \in Singles, SubmitSingle(s, r)
      PROVE  IInv'
  <2>1. job'[s].command = "none" /\ job'[s].intent = <<r>> /\ pc'[s] = "buckets"
    BY <1>2 DEF SubmitSingle, Shape
  <2>2. /\ \A t \in Sessions \ {s} : job'[t] = job[t] /\ pc'[t] = pc[t]
        /\ pc' \in [Sessions -> Stages] /\ DOMAIN job' = Sessions
        /\ UNCHANGED <<held, out, receipts, spent, told>>
    BY <1>2, Zenon DEF SubmitSingle, Shape, Stages
  <2>3. Shape'
    BY <2>1, <2>2, Zenon DEF Shape, Serves, IsSingle
  <2>4. Owned'
    BY <2>1, <2>2, Zenon DEF Owned, Inside, IsSingle
  <2>5. Pending'
    <3>1. IsSingle(s)' /\ pc'[s] # "commit" /\ pc'[s] # "replay"
      BY <2>1 DEF IsSingle
    <3>2. \A t \in Sessions \ {s} : IsSingle(t)' = IsSingle(t)
      BY <2>2, Zenon DEF IsSingle
    <3>. QED
      BY <2>2, <3>1, <3>2 DEF Pending
  <2>6. QED
    BY <2>2, <2>3, <2>4, <2>5, AgreeKept, Zenon
<1>3. ASSUME NEW s \in Sessions, LockCommand(s)
      PROVE  IInv'
  <2>1. Shape' /\ Pending'
    BY <1>3, Zenon DEF LockCommand, Shape, Stages, Pending, Serves, IsSingle
  <2>2. Owned'
    BY <1>3 DEF LockCommand, Shape, Owned, Inside, Free, IsSingle
  <2>3. QED
    BY <1>3, <2>1, <2>2, AgreeKept, Zenon DEF LockCommand
<1>4. ASSUME NEW s \in Sessions, Lookup(s)
      PROVE  IInv'
  <2>1. ~IsSingle(s)
    BY <1>4, ServesReplay, Zenon DEF Lookup, Shape
  <2>2. Shape'
    <3>1. /\ UNCHANGED <<job, held, receipts, spent>>
          /\ pc' \in [Sessions -> Stages] /\ DOMAIN out' = Sessions
          /\ \A t \in Sessions \ {s} : pc'[t] = pc[t]
      BY <1>4 DEF Lookup, Shape, Stages
    <3>2. job[s].command \in Commands /\ job[s].intent \in Intents
      BY <1>4, <2>1, Zenon DEF Lookup, Shape, Serves
    <3>. QED
      BY <3>1, <3>2, Zenon DEF Shape, Serves, IsSingle
  <2>3. Owned'
    <3>1. UNCHANGED <<job, held>> /\ \A t \in Sessions \ {s} : pc'[t] = pc[t]
      BY <1>4, Zenon DEF Lookup, Shape
    <3>2. Inside(s)
      BY <1>4, <2>1 DEF Lookup, Inside
    <3>. QED
      BY <3>1, <3>2, Zenon DEF Owned, Inside, IsSingle
  <2>4. Pending'
    BY <1>4 DEF Lookup, Shape, Pending, IsSingle
  <2>5. QED
    BY <1>4, <2>2, <2>3, <2>4, AgreeKept, Zenon DEF Lookup
<1>5. ASSUME NEW s \in Sessions, LockBucket(s)
      PROVE  IInv'
  <2>1. Shape' /\ Pending'
    BY <1>5, Zenon DEF LockBucket, Shape, Pending, Serves, IsSingle
  <2>2. Owned'
    <3> HIDE DEF IInv
    <3> DEFINE l == NextLock(s)
    <3>1. held' = [held EXCEPT ![s] = @ \cup {l}] /\ Free(l) /\ UNCHANGED <<pc, job>>
      BY <1>5, Zenon DEF LockBucket
    <3> HIDE DEF l
    <3>2. QED
      BY <3>1 DEF IInv, Shape, Owned, Inside, Free, IsSingle
  <2>3. QED
    BY <1>5, <2>1, <2>2, AgreeKept, Zenon DEF LockBucket
<1>6. ASSUME NEW s \in Sessions, NEW t, Observe(s, t)
      PROVE  IInv'
  <2>1. /\ pc[s] = "buckets" /\ pc' = [pc EXCEPT ![s] = "load"]
        /\ UNCHANGED <<receipts, job, held, out, spent, told>>
    BY <1>6, Zenon DEF Observe
  <2>2. Shape'
    BY <2>1, Zenon DEF Shape, Stages, Serves, IsSingle
  <2>3. Owned'
    BY <2>1, Zenon DEF Shape, Owned, Inside, IsSingle
  <2>4. Pending'
    BY <2>1, Zenon DEF Shape, Pending, IsSingle
  <2>5. QED
    BY <2>1, <2>2, <2>3, <2>4, AgreeKept, Zenon
<1>7. ASSUME NEW s \in Sessions, Decide(s)
      PROVE  IInv'
  <2>1. PICK a \in BOOLEAN : out' = [out EXCEPT ![s] = Ledger!Receipt(job[s].intent, a)]
    BY <1>7, Zenon DEF Decide, Allowed
  <2>2. /\ pc[s] = "load" /\ pc' = [pc EXCEPT ![s] = "commit"]
        /\ UNCHANGED <<receipts, job, held, spent, told>>
    BY <1>7, Zenon DEF Decide
  <2>3. Shape' /\ Owned'
    BY <2>1, <2>2, Zenon DEF Shape, Stages, Owned, Inside, Serves, IsSingle
  <2>4. Pending'
    BY <2>1, <2>2, Zenon DEF Shape, Pending, IsSingle
  <2>5. QED
    BY <2>2, <2>3, <2>4, AgreeKept, Zenon
<1>8. ASSUME NEW s \in Sessions, Fail(s)
      PROVE  IInv'
  <2>1. Shape' /\ Owned' /\ Pending'
    BY <1>8, Zenon DEF Fail, Shape, Stages, Owned, Pending, Inside, Serves, IsSingle
  <2>2. QED
    BY <1>8, <2>1, AgreeKept, Zenon DEF Fail
<1>9. ASSUME NEW s \in Sessions, LoseCaller(s)
      PROVE  IInv'
  <2>1. Shape' /\ Owned' /\ Pending'
    BY <1>9, Zenon DEF LoseCaller, Shape, Owned, Pending, Inside, Serves, IsSingle
  <2>2. QED
    BY <1>9, <2>1, AgreeKept, Zenon DEF LoseCaller
<1>10. ASSUME NEW s \in Sessions, Abort(s)
      PROVE  IInv'
  BY <1>10, AgreeKept, EndKeeps, Zenon DEF Abort, Shape
<1>11. ASSUME UNCHANGED <<receipts, session, spent, told>>
       PROVE  IInv'
  <2>1. Shape' /\ Owned' /\ Pending'
    BY <1>11, Zenon DEF session, Shape, Owned, Pending, Inside, Serves, IsSingle
  <2>2. QED
    BY <1>11, <2>1, AgreeKept, Zenon
<1>12. CASE UNCHANGED vars
  BY <1>11, <1>12, Zenon DEF vars
<1>13. CASE Tick
  BY <1>11, <1>13, Zenon DEF Tick
<1>14. ASSUME NEW b \in Buckets, Cleanup(b)
       PROVE  IInv'
  BY <1>11, <1>14, Zenon DEF Cleanup
<1>15. QED
  BY <1>1, <1>2, <1>3, <1>4, <1>5, <1>6, <1>7, <1>8, <1>9, <1>10, <1>12, <1>13, <1>14,
     CommitKeeps, SingleKeeps, ReplayKeeps, Zenon DEF Next

\* Retries of a command are answered alike: every known answer is the one
\* durable decision of the command.
THEOREM EveryAnswerAgrees == Spec => []AnswersAgree
<1>1. IInv => AnswersAgree
  BY Zenon DEF IInv
<1>2. QED
  BY <1>1, InitInv, StepInv, PTL DEF Spec

\* A session that is about to insert a receipt never finds one already there:
\* the command lock covers everything from the lookup to the commit.
THEOREM LockCoversInsert == Spec => []KeyNeverHit
<1>1. IInv => KeyNeverHit
  BY Zenon DEF IInv, Pending, KeyNeverHit
<1>2. QED
  BY <1>1, InitInv, StepInv, PTL DEF Spec

\* Every step of the transactions is a step of the ledger or changes none of it:
\* a command is decided once, for all its buckets or none, and then replayed.
THEOREM ImplementsLedger == Spec => LedgerSpec
<1>1. Init => Ledger!Init
  BY Zenon DEF Init
<1>2. IInv /\ [Next]_vars => [Ledger!Next]_(Ledger!vars)
  <2> SUFFICES ASSUME IInv, [Next]_vars
               PROVE  [Ledger!Next]_(Ledger!vars)
    OBVIOUS
  <2>1. ASSUME UNCHANGED <<receipts, spent, told>>
        PROVE  [Ledger!Next]_(Ledger!vars)
    BY <2>1, Zenon DEF Ledger!vars
  <2>2. ASSUME NEW s \in Sessions, Commit(s), ~IsSingle(s)
        PROVE  Ledger!Next
    <3>1. job[s].command \in Commands /\ job[s].intent \in Intents
      BY <2>2, ServesFacts, Zenon DEF IInv, Shape, Commit
    <3>2. PICK a \in BOOLEAN : out[s] = Ledger!Receipt(job[s].intent, a)
      BY <2>2, Zenon DEF IInv, Pending, Commit
    <3>3. out[s].allowed = a
      BY <3>2, ReceiptFields
    <3>4. Ledger!Decide(job[s].command, job[s].intent, a)
      BY <2>2, <3>2, <3>3, Zenon DEF Commit, Insert, Answer, Ledger!Decide
    <3>5. QED
      BY <3>1, <3>4, Zenon DEF Ledger!Next
  <2>3. ASSUME NEW s \in Sessions, Commit(s), IsSingle(s)
        PROVE  [Ledger!Next]_(Ledger!vars)
    <3>1. PICK r \in Singles : job[s].intent = <<r>>
      BY <2>3, ServesFacts, Zenon DEF IInv, Shape, Commit
    <3>2. CASE out[s].allowed
      <4>1. Ledger!Single(r)
        BY <2>3, <3>1, <3>2, Zenon DEF Commit, Ledger!Single
      <4>2. QED
        BY <4>1, Zenon DEF Ledger!Next
    <3>3. CASE ~out[s].allowed
      BY <2>1, <2>3, <3>3, Zenon DEF Commit
    <3>4. QED
      BY <3>2, <3>3, Zenon
  <2>4. ASSUME NEW s \in Sessions, CommitReplay(s)
        PROVE  [Ledger!Next]_(Ledger!vars)
    <3>1. CASE lost[s]
      BY <2>1, <2>4, <3>1, Zenon DEF CommitReplay
    <3>2. CASE ~lost[s]
      <4>1. Ledger!Replay(job[s].command, job[s].intent)
        BY <2>4, <3>2, Zenon DEF CommitReplay, Answer, IInv, Pending, Ledger!Replay
      <4>2. job[s].command \in Commands /\ job[s].intent \in Intents
        BY <2>4, ServesReplay, ServesFacts, Zenon DEF IInv, Shape, CommitReplay
      <4>3. QED
        BY <4>1, <4>2, Zenon DEF Ledger!Next
    <3>3. QED
      BY <3>1, <3>2, Zenon
  <2>5. ASSUME NEW s \in Sessions,
               \/ \E c \in Commands, intent \in Intents : Submit(s, c, intent)
               \/ \E r \in Singles : SubmitSingle(s, r)
               \/ \E t \in 0 .. clock + Ahead : Observe(s, t)
        PROVE  UNCHANGED <<receipts, spent, told>>
    BY <2>5, Zenon DEF Submit, SubmitSingle, Observe
  <2>6. ASSUME NEW s \in Sessions,
               LockCommand(s) \/ Lookup(s) \/ LockBucket(s) \/ Decide(s) \/ Fail(s)
                 \/ LoseCaller(s) \/ Abort(s)
        PROVE  UNCHANGED <<receipts, spent, told>>
    BY <2>6, Zenon DEF LockCommand, Lookup, LockBucket, Decide, Fail, LoseCaller, Abort
  <2>7. ASSUME Tick \/ UNCHANGED vars \/ \E b \in Buckets : Cleanup(b)
        PROVE  UNCHANGED <<receipts, spent, told>>
    BY <2>7, Zenon DEF Tick, vars, Cleanup
  <2>8. QED
    BY <2>1, <2>2, <2>3, <2>4, <2>5, <2>6, <2>7, Zenon DEF Next
<1>3. QED
  BY <1>1, <1>2, InitInv, StepInv, PTL DEF Spec, LedgerSpec, Ledger!Spec

------------------------------------------------------------------------------
(* Waiting for locks. *)

\* A session holds nothing before its command lock, and takes the locks of its
\* buckets from the smallest upwards.
Orderly ==
    \A s \in Sessions :
        /\ pc[s] \in {"idle", "command"} => held[s] = {}
        /\ held[s] \subseteq {CommandLock(job[s].command)} \cup {BucketLock(LockOf[b]) : b \in Ids(s)}
        /\ \A b, c \in Ids(s) : BucketLock(LockOf[b]) \in held[s] /\ LockOf[c] <= LockOf[b]
                                   => BucketLock(LockOf[c]) \in held[s]

\* Locks are told apart by what they lock.
LEMMA Apart ==
    /\ \A c, n : CommandLock(c) # BucketLock(n)
    /\ \A m, n : BucketLock(m) = BucketLock(n) => m = n
BY Zenon DEF CommandLock, BucketLock

\* The locks of the buckets a session asks for are numbers.
LEMMA LockNumbers ==
    ASSUME Shape, NEW s \in Sessions, pc[s] # "idle", NEW b \in Ids(s)
    PROVE  b \in Buckets /\ LockOf[b] \in Nat
<1>1. b \in Buckets
  BY ServesFacts, WorkFacts, Zenon DEF Shape, Ids
<1>. QED
  BY <1>1, SetupAssumption, Zenon

\* The next lock is the smallest of those a session lacks.
LEMMA NextLockFacts ==
    ASSUME Shape, NEW s \in Sessions, pc[s] = "buckets", ~Locked(s)
    PROVE  \E b \in Ids(s) :
              /\ NextLock(s) = BucketLock(LockOf[b]) /\ BucketLock(LockOf[b]) \notin held[s]
              /\ \A c \in Ids(s) : BucketLock(LockOf[c]) \notin held[s] => LockOf[b] <= LockOf[c]
<1> DEFINE lacks == {b \in Ids(s) : BucketLock(LockOf[b]) \notin held[s]}
           T == {LockOf[b] : b \in lacks}
<1>1. lacks # {} /\ lacks \subseteq Ids(s)
  BY Zenon DEF Locked
<1>2. T # {} /\ T \subseteq Nat
  BY <1>1, LockNumbers, Zenon
<1>3. NextLock(s) = BucketLock(Min(T))
  BY Zenon DEF NextLock
<1> HIDE DEF T
<1>4. \E m \in T : \A n \in T : m <= n
  BY <1>2, Least, Zenon
<1>5. Min(T) \in T /\ \A n \in T : Min(T) <= n
  BY <1>4, Zenon DEF Min
<1>6. PICK b \in lacks : Min(T) = LockOf[b]
  BY <1>5, Zenon DEF T
<1>7. \A c \in lacks : LockOf[b] <= LockOf[c]
  BY <1>5, <1>6, Zenon DEF T
<1>. QED
  BY <1>1, <1>3, <1>6, <1>7, Zenon

\* Holding locks in order rules out circles: the session that waits for the
\* greatest bucket lock waits for one that waits for a greater.
LEMMA NoCircle ==
    ASSUME NEW top \in Nat, \A b \in Buckets : LockOf[b] <= top, Shape, Orderly
    PROVE  NoWaitCycle
<1> SUFFICES ASSUME NEW S \in SUBSET Sessions, S # {},
                    \A s \in S : \E l \in Wants(s), t \in S \ {s} : l \in held[t]
             PROVE  FALSE
  BY Zenon DEF NoWaitCycle
<1>1. \A s \in S : pc[s] = "command" \/ (pc[s] = "buckets" /\ ~Locked(s))
  BY Zenon DEF Wants
<1>2. \A s \in S : \E t \in S : held[t] # {}
  OBVIOUS
<1>3. \A t \in S : held[t] # {} => pc[t] = "buckets" /\ ~Locked(t)
  BY <1>1, Zenon DEF Orderly
<1>4. \A t \in S : pc[t] = "buckets" /\ ~Locked(t) => Wants(t) = {NextLock(t)}
  BY Zenon DEF Wants
<1> DEFINE W == {n \in Nat : \E s \in S : pc[s] = "buckets" /\ ~Locked(s) /\ NextLock(s) = BucketLock(n)}
<1>5. \A t \in S : pc[t] = "buckets" /\ ~Locked(t)
         => \E b \in Ids(t) : NextLock(t) = BucketLock(LockOf[b]) /\ LockOf[b] \in W /\ LockOf[b] <= top
                              /\ BucketLock(LockOf[b]) \notin held[t]
  <2> SUFFICES ASSUME NEW t \in S, pc[t] = "buckets", ~Locked(t)
               PROVE  \E b \in Ids(t) : /\ NextLock(t) = BucketLock(LockOf[b])
                                        /\ LockOf[b] \in W /\ LockOf[b] <= top
                                        /\ BucketLock(LockOf[b]) \notin held[t]
    OBVIOUS
  <2>1. PICK b \in Ids(t) : NextLock(t) = BucketLock(LockOf[b]) /\ BucketLock(LockOf[b]) \notin held[t]
    BY NextLockFacts, Zenon
  <2>2. b \in Buckets /\ LockOf[b] \in Nat
    BY LockNumbers, Zenon
  <2>3. LockOf[b] \in W
    BY <2>1, <2>2, Zenon
  <2> HIDE DEF W
  <2>. QED
    BY <2>1, <2>2, <2>3, Zenon
<1>6. W # {}
  BY <1>2, <1>3, <1>5, Zenon
<1>7. \A n \in W : n <= top
  BY <1>5, Apart, Zenon
<1> HIDE DEF W
<1>8. PICK m \in W : \A n \in W : n <= m
  <2>1. W \in SUBSET Int
    BY DEF W
  <2>2. top \in Int
    OBVIOUS
  <2>. QED
    BY <1>6, <1>7, <2>1, <2>2, Greatest, Zenon
<1>9. PICK s \in S : pc[s] = "buckets" /\ ~Locked(s) /\ NextLock(s) = BucketLock(m)
  BY Zenon DEF W
<1>10. PICK t \in S : BucketLock(m) \in held[t]
  BY <1>4, <1>9
<1>11. pc[t] = "buckets" /\ ~Locked(t)
  BY <1>3, <1>10, Zenon
<1>12. PICK b \in Ids(t) : LockOf[b] = m
  BY <1>10, Apart DEF Orderly
<1>13. PICK c \in Ids(t) : LockOf[c] \in W /\ BucketLock(LockOf[c]) \notin held[t]
  BY <1>5, <1>11, Zenon
<1>14. LockOf[c] <= LockOf[b]
  BY <1>8, <1>12, <1>13, Zenon
<1>. QED
  BY <1>10, <1>12, <1>13, <1>14, Zenon DEF Orderly

\* A session that ends holds nothing.
LEMMA EndOrderly ==
    ASSUME Shape, Orderly, NEW s \in Sessions, End(s)
    PROVE  Orderly'
<1>1. held'[s] = {} /\ \A t \in Sessions \ {s} : job'[t] = job[t] /\ pc'[t] = pc[t] /\ held'[t] = held[t]
  BY Zenon DEF Shape, End
<1>. QED
  BY <1>1 DEF Orderly, Ids

\* Steps that neither take nor give up a lock.
LEMMA HeldOrderly ==
    ASSUME Orderly, UNCHANGED <<held, job>>,
           \A s \in Sessions : pc'[s] \in {"idle", "command"} => pc[s] \in {"idle", "command"}
    PROVE  Orderly'
BY DEF Orderly, Ids

\* Taking the next lock.
LEMMA LockOrderly ==
    ASSUME Shape, Orderly, NEW s \in Sessions, LockBucket(s)
    PROVE  Orderly'
<1>1. pc[s] = "buckets" /\ ~Locked(s) /\ UNCHANGED <<pc, job>>
  BY Zenon DEF LockBucket
<1>2. PICK b \in Ids(s) :
        /\ NextLock(s) = BucketLock(LockOf[b]) /\ BucketLock(LockOf[b]) \notin held[s]
        /\ \A c \in Ids(s) : BucketLock(LockOf[c]) \notin held[s] => LockOf[b] <= LockOf[c]
  BY <1>1, NextLockFacts, Zenon
<1> DEFINE l == BucketLock(LockOf[b])
<1>3. held' = [held EXCEPT ![s] = @ \cup {l}]
  BY <1>2, Zenon DEF LockBucket
<1>4. ASSUME NEW t \in Sessions
      PROVE  /\ pc'[t] \in {"idle", "command"} => held'[t] = {}
             /\ held'[t] \subseteq {CommandLock(job'[t].command)} \cup {BucketLock(LockOf[c]) : c \in Ids(t)'}
             /\ \A c, d \in Ids(t)' : BucketLock(LockOf[c]) \in held'[t] /\ LockOf[d] <= LockOf[c]
                                   => BucketLock(LockOf[d]) \in held'[t]
  <2>1. Ids(t)' = Ids(t) /\ job' = job /\ pc' = pc
    BY <1>1, Zenon DEF Ids
  <2>2. CASE t # s
    <3>1. held'[t] = held[t]
      BY <1>3, <2>2, Zenon DEF Shape
    <3>. QED
      BY <2>1, <3>1, Zenon DEF Orderly
  <2>3. CASE t = s
    <3>1. held'[s] = held[s] \cup {l}
      BY <1>3, Zenon DEF Shape
    <3>2. pc'[s] \notin {"idle", "command"}
      BY <1>1, Zenon
    <3>3. l \in {BucketLock(LockOf[c]) : c \in Ids(s)}
      OBVIOUS
    <3>4. ASSUME NEW c \in Ids(s), NEW d \in Ids(s), BucketLock(LockOf[c]) \in held'[s],
                 LockOf[d] <= LockOf[c], BucketLock(LockOf[d]) \notin held[s]
          PROVE  BucketLock(LockOf[d]) = l
      <4>1. BucketLock(LockOf[c]) = l
        BY <3>1, <3>4, Zenon DEF Orderly
      <4>2. LockOf[c] = LockOf[b]
        BY <4>1, Apart, Zenon
      <4>3. LockOf[b] <= LockOf[d]
        BY <1>2, <3>4, Zenon
      <4>4. LockOf[b] \in Nat /\ LockOf[d] \in Nat
        BY <1>1, LockNumbers, Zenon
      <4>5. LockOf[d] = LockOf[b]
        BY <3>4, <4>2, <4>3, <4>4
      <4>. QED
        BY <4>5, Zenon
    <3> HIDE DEF l
    <3>. QED
      BY <2>1, <2>3, <3>1, <3>2, <3>3, <3>4 DEF Orderly
  <2>. QED
    BY <2>2, <2>3, Zenon
<1>. QED
  BY <1>4, Zenon DEF Orderly

\* Every step keeps the order.
LEMMA StepOrderly == IInv /\ Orderly /\ [Next]_vars => Orderly'
<1> SUFFICES ASSUME IInv, Orderly, [Next]_vars
             PROVE  Orderly'
  OBVIOUS
<1> USE DEF IInv
<1>1. ASSUME NEW s \in Sessions, NEW c \in Commands, NEW intent \in Intents, Submit(s, c, intent)
      PROVE  Orderly'
  <2>1. held' = held /\ held[s] = {} /\ \A t \in Sessions \ {s} : job'[t] = job[t] /\ pc'[t] = pc[t]
    BY <1>1, Zenon DEF Submit, Orderly, Shape
  <2>. QED
    BY <2>1 DEF Orderly, Ids
<1>6. ASSUME NEW s \in Sessions, NEW r \in Singles, SubmitSingle(s, r)
      PROVE  Orderly'
  <2>1. held' = held /\ held[s] = {} /\ \A t \in Sessions \ {s} : job'[t] = job[t] /\ pc'[t] = pc[t]
    BY <1>6, Zenon DEF SubmitSingle, Orderly, Shape
  <2>. QED
    BY <2>1 DEF Orderly, Ids
<1>2. ASSUME NEW s \in Sessions, LockCommand(s)
      PROVE  Orderly'
  <2>1. /\ job' = job /\ pc'[s] = "lookup" /\ held'[s] = {CommandLock(job[s].command)}
        /\ \A t \in Sessions \ {s} : held'[t] = held[t] /\ pc'[t] = pc[t]
    BY <1>2, Zenon DEF LockCommand, Shape
  <2>. QED
    BY <2>1, Apart DEF Orderly, Ids
<1>3. ASSUME NEW s \in Sessions,
             Lookup(s) \/ Decide(s) \/ Fail(s) \/ LoseCaller(s)
               \/ \E t \in 0 .. clock + Ahead : Observe(s, t)
      PROVE  Orderly'
  <2>1. UNCHANGED <<held, job>>
    BY <1>3, Zenon DEF Lookup, Decide, Fail, LoseCaller, Observe
  <2>2. \A t \in Sessions : pc'[t] \in {"idle", "command"} => pc[t] \in {"idle", "command"}
    BY <1>3, Zenon DEF Lookup, Decide, Fail, LoseCaller, Observe, Shape
  <2>. QED
    BY <2>1, <2>2, HeldOrderly, Zenon
<1>4. ASSUME NEW s \in Sessions, Commit(s) \/ CommitReplay(s) \/ Abort(s)
      PROVE  Orderly'
  BY <1>4, EndOrderly, Zenon DEF Commit, CommitReplay, Abort
<1>5. ASSUME UNCHANGED session
      PROVE  Orderly'
  BY <1>5, HeldOrderly, Zenon DEF session
<1>7. CASE Tick \/ UNCHANGED vars \/ \E b \in Buckets : Cleanup(b)
  BY <1>5, <1>7, Zenon DEF Tick, vars, Cleanup
<1>. QED
  BY <1>1, <1>2, <1>3, <1>4, <1>6, <1>7, LockOrderly, Zenon DEF Next

\* No transaction waits for itself through others, however many connections run
\* whatever commands over whatever buckets: AdmitAtomicStrict takes the command's
\* lock first and those of the buckets sorted.  The keys of advisory locks are
\* 64-bit integers, so they have a greatest.
THEOREM NobodyWaitsInACircle ==
    ASSUME NEW top \in Nat, \A b \in Buckets : LockOf[b] <= top
    PROVE  Spec => []NoWaitCycle
<1>1. Init => Orderly
  BY Zenon DEF Init, Orderly
<1>2. IInv /\ Orderly => NoWaitCycle
  BY NoCircle, Zenon DEF IInv
<1>. QED
  BY <1>1, <1>2, InitInv, StepInv, StepOrderly, PTL DEF Spec

------------------------------------------------------------------------------
(* Capacity. *)

\* The oldest reading with which rows can still be loaded.
Early == IF clock > Behind THEN clock - Behind ELSE 0

\* The row of a bucket lacks nothing that was not charged; and if it lives long
\* enough, what was charged and what it still grants are covered by the limit
\* and by what had accrued at its instant.  No row is as good as a full one, to
\* whoever comes with the oldest reading.
Sound(row, b, charged, early, latest) ==
    /\ row # NoRow => /\ row.tokens \in Nat /\ row.last \in 0 .. latest
                      /\ Limit[b] <= row.tokens + charged
    /\ Patient(b) => IF row = NoRow THEN charged <= Rate * early
                     ELSE charged + row.tokens <= Limit[b] + Rate * row.last

\* What a session is about to commit follows from rows nobody else can change,
\* and from a reading at which a bucket without a row was full.
Decided(s) ==
    /\ out[s].allowed = Allowed(s) /\ writes[s] = Changes(s)
    /\ \A b \in Ids(s) : Patient(b) /\ rows[b] = NoRow => spent[b] <= Rate * now[s]

Funds ==
    /\ clock \in Nat
    /\ DOMAIN rows = Buckets /\ DOMAIN writes = Sessions /\ DOMAIN now = Sessions
    /\ \A s \in Sessions : now[s] \in 0 .. clock + Ahead
    /\ \A b \in Buckets : Sound(rows[b], b, spent[b], Early, clock + Ahead)
    /\ \A s \in Sessions : pc[s] \in {"load", "commit"} => Locked(s)
    /\ \A s \in Sessions : pc[s] = "commit" => Decided(s)

\* Limits and rates are positive, and products of natural numbers natural.
LEMMA SetupFacts ==
    /\ Rate \in Nat \ {0} /\ Behind \in Nat /\ Ahead \in Nat /\ Second \in Nat
    /\ \A b \in Buckets : Limit[b] \in Nat \ {0} /\ Period[b] \in Nat
    /\ \A n \in Nat : Rate * n \in Nat
<1>1. /\ Rate \in Nat \ {0} /\ Behind \in Nat /\ Ahead \in Nat /\ Second \in Nat
      /\ \A b \in Buckets : Limit[b] \in Nat \ {0} /\ Period[b] \in Nat \ {0}
  BY SetupAssumption, Zenon
<1>2. \A n \in Nat : Rate * n \in Nat
  BY <1>1
<1>3. \A b \in Buckets : Period[b] \in Nat
  BY <1>1
<1>. QED
  BY <1>1, <1>2, <1>3, Zenon

\* More accrues in more time.
LEMMA MoreTime ==
    ASSUME NEW m \in Nat, NEW n \in Nat, m <= n
    PROVE  Rate * m \in Nat /\ Rate * n \in Nat /\ Rate * m <= Rate * n
<1>1. Rate \in Nat
  BY SetupFacts, Zenon
<1>2. m * Rate <= n * Rate
  BY <1>1, Monotone
<1>. QED
  BY <1>1, <1>2

\* Rows live until their bucket has refilled, or longer.
LEMMA TtlFacts ==
    ASSUME NEW b \in Buckets
    PROVE  /\ Refill(b) \in Nat /\ Ttl(b) \in Nat /\ Refill(b) <= Ttl(b)
           /\ Limit[b] <= Refill(b) * Rate
<1> DEFINE q == Refill(b)
           X == {2 * Period[b], Second, q}
<1>1. Rate \in Nat \ {0} /\ Limit[b] \in Nat \ {0} /\ Second \in Nat /\ 2 * Period[b] \in Nat
  <2>1. Rate \in Nat \ {0} /\ Limit[b] \in Nat \ {0} /\ Second \in Nat /\ Period[b] \in Nat
    BY SetupFacts, Zenon
  <2>. QED
    BY <2>1
<1>2. q \in Nat /\ Limit[b] + Rate - 1 < q * Rate + Rate
  <2>1. Limit[b] + Rate - 1 \in Nat /\ q = (Limit[b] + Rate - 1) \div Rate
    BY <1>1 DEF Refill
  <2>2. q \in Nat
    BY <1>1, <2>1, DivMod, Zenon
  <2>3. Limit[b] + Rate - 1 \in Int
    BY <2>1
  <2>. QED
    BY <1>1, <2>1, <2>2, <2>3, FloorDiv, FloorBounds, Zenon
<1>3. Ttl(b) = Max(X)
  BY DEF Ttl
<1> HIDE DEF q
<1>4. Limit[b] <= q * Rate
  BY <1>1, <1>2
<1>5. \E m \in X : \A n \in X : m >= n
  BY <1>1, <1>2
<1>6. Max(X) \in X /\ \A n \in X : Max(X) >= n
  BY <1>5, Zenon DEF Max
<1>7. Max(X) \in Nat /\ Max(X) >= q
  BY <1>1, <1>2, <1>6
<1>. QED
  BY <1>2, <1>3, <1>4, <1>7 DEF q

\* A bucket has accrued what it was charged once it has had time to refill.
LEMMA RefillCovers ==
    ASSUME NEW b \in Buckets, NEW n \in Nat, NEW last \in Nat, NEW at \in Nat,
           last + Refill(b) <= at, NEW charged \in Nat, charged + n <= Limit[b] + Rate * last
    PROVE  charged <= Rate * at
<1> DEFINE q == Refill(b)
<1>1. Rate \in Nat /\ Limit[b] \in Nat /\ q \in Nat /\ Limit[b] <= q * Rate
  BY SetupFacts, TtlFacts
<1> HIDE DEF q
<1>2. (last + q) * Rate <= at * Rate
  BY <1>1, Monotone DEF q
<1>3. (last + q) * Rate = last * Rate + q * Rate
  BY <1>1, Distribute
<1>4. last * Rate = Rate * last /\ at * Rate = Rate * at /\ Rate * last \in Int /\ Rate * at \in Int
      /\ q * Rate \in Int
  BY <1>1
<1>. QED
  BY <1>1, <1>2, <1>3, <1>4

\* What a row grants.
Refilled(n, last, at, lim) ==
    IF n + Rate * (at - last) < lim THEN n + Rate * (at - last) ELSE lim

\* A refill keeps a balance covered.
LEMMA Accrual ==
    ASSUME NEW n \in Nat, NEW last \in Nat, NEW at \in Nat, last <= at, NEW lim \in Nat,
           NEW charged \in Nat, lim <= n + charged
    PROVE  LET left == Refilled(n, last, at, lim)
           IN  /\ left \in Nat /\ left <= lim /\ lim <= left + charged
               /\ charged + n <= lim + Rate * last => charged + left <= lim + Rate * at
<1> DEFINE more == Rate * (at - last)
           left == Refilled(n, last, at, lim)
<1>1. Rate \in Nat /\ at - last \in Nat
  BY SetupFacts
<1>2. more \in Nat /\ Rate * last \in Nat /\ Rate * at \in Nat
  BY <1>1, SetupFacts, Zenon
<1>3. Rate * at = Rate * last + more
  BY <1>1
<1>4. left = IF n + more < lim THEN n + more ELSE lim
  BY Zenon DEF Refilled
<1> HIDE DEF more, left
<1>5. /\ left \in Nat /\ left <= lim /\ lim <= left + charged
      /\ charged + n <= lim + Rate * last => charged + left <= lim + Rate * at
  <2>1. CASE n + more < lim
    BY <1>2, <1>3, <1>4, <2>1
  <2>2. CASE ~(n + more < lim)
    BY <1>2, <1>3, <1>4, <2>2
  <2>. QED
    BY <2>1, <2>2, Zenon
<1>. QED
  BY <1>5, Zenon DEF left

\* The bounds of the readings.
LEMMA ClockFacts ==
    ASSUME Funds
    PROVE  /\ clock \in Nat /\ Ahead \in Nat /\ Behind \in Nat /\ clock + Ahead \in Nat
           /\ Early \in Nat /\ Early <= clock
<1>1. clock \in Nat /\ Ahead \in Nat /\ Behind \in Nat
  BY SetupFacts, Zenon DEF Funds
<1>. QED
  BY <1>1 DEF Early

\* What is known of a row.
LEMMA RowFacts ==
    ASSUME Funds, Shape, NEW b \in Buckets
    PROVE  /\ spent[b] \in Nat /\ Limit[b] \in Nat
           /\ rows[b] # NoRow => /\ rows[b].tokens \in Nat /\ rows[b].last \in Nat
                                 /\ rows[b].last <= clock + Ahead
                                 /\ Limit[b] <= rows[b].tokens + spent[b]
                                 /\ Patient(b) => spent[b] + rows[b].tokens <= Limit[b] + Rate * rows[b].last
           /\ rows[b] = NoRow /\ Patient(b) => spent[b] <= Rate * Early
<1>1. spent[b] \in Nat /\ Limit[b] \in Nat \ {0}
  BY SetupFacts, Zenon DEF Shape
<1>2. Sound(rows[b], b, spent[b], Early, clock + Ahead) /\ clock + Ahead \in Nat
  BY ClockFacts, Zenon DEF Funds
<1>3. \A x \in 0 .. clock + Ahead : x \in Nat /\ x <= clock + Ahead
  BY <1>2
<1>4. Limit[b] \in Nat
  BY <1>1
<1>. QED
  BY <1>1, <1>2, <1>3, <1>4, Zenon DEF Sound

\* The instant of a decision is neither before its reading nor before a row it uses.
LEMMA EffectiveFacts ==
    ASSUME Funds, Shape, NEW s \in Sessions, pc[s] # "idle"
    PROVE  /\ now[s] \in Nat /\ Effective(s) \in Nat
           /\ now[s] <= Effective(s) /\ Effective(s) <= clock + Ahead
           /\ \A b \in Ids(s) : Live(b, now[s]) => rows[b].last <= Effective(s)
<1> DEFINE X == {now[s]} \cup {rows[b].last : b \in {b \in Ids(s) : Live(b, now[s])}}
           top == clock + Ahead
<1>1. top \in Nat
  BY ClockFacts, Zenon
<1>2. now[s] \in Nat /\ now[s] <= top
  <2>1. now[s] \in 0 .. top
    BY Zenon DEF Funds
  <2>. QED
    BY <1>1, <2>1
<1>3. \A b \in Ids(s) : Live(b, now[s]) => rows[b].last \in Nat /\ rows[b].last <= top
  BY LockNumbers, RowFacts, Zenon DEF Live
<1>4. Effective(s) = Max(X)
  BY Zenon DEF Effective
<1>5. /\ \A x \in X : x \in Nat /\ x <= top
      /\ now[s] \in X /\ \A b \in Ids(s) : Live(b, now[s]) => rows[b].last \in X
  BY <1>2, <1>3, Zenon
<1> HIDE DEF X, top
<1>6. PICK m \in X : \A n \in X : n <= m
  <2>1. X \in SUBSET Int /\ top \in Int
    BY <1>1, <1>5
  <2>. QED
    BY <1>5, <2>1, Greatest, Zenon
<1>7. \E x \in X : \A y \in X : x >= y
  BY <1>5, <1>6
<1>8. Max(X) \in X /\ \A y \in X : Max(X) >= y
  BY <1>7, Zenon DEF Max
<1>9. \A y \in X : y <= Max(X)
  BY <1>5, <1>8
<1>. QED
  BY <1>2, <1>4, <1>5, <1>8, <1>9, Zenon DEF top

\* What a bucket grants, and what it may be charged.
LEMMA LeftFacts ==
    ASSUME Funds, Shape, NEW s \in Sessions, pc[s] # "idle", NEW b \in Ids(s)
    PROVE  /\ Left(s)[b] \in Nat /\ Left(s)[b] <= Limit[b] /\ Limit[b] <= Left(s)[b] + spent[b]
           /\ Patient(b) /\ (rows[b] = NoRow => spent[b] <= Rate * now[s])
                 => spent[b] + Left(s)[b] <= Limit[b] + Rate * Effective(s)
<1> DEFINE at == Effective(s)
           left == Balance(b, Live(b, now[s]), at)
<1>1. /\ b \in Buckets /\ now[s] \in Nat /\ at \in Nat /\ now[s] <= at
      /\ Live(b, now[s]) => rows[b].last <= at
  BY LockNumbers, EffectiveFacts, Zenon
<1>2. Left(s)[b] = left
  BY Zenon DEF Left
<1>3. /\ spent[b] \in Nat /\ Limit[b] \in Nat /\ Rate * now[s] \in Nat /\ Rate * at \in Nat
      /\ Rate * now[s] <= Rate * at
  BY <1>1, RowFacts, MoreTime, Zenon
<1> HIDE DEF at
<1>4. CASE ~Live(b, now[s])
  <2>1. left = Limit[b]
    BY <1>4, Zenon DEF Balance
  <2>2. Patient(b) /\ (rows[b] = NoRow => spent[b] <= Rate * now[s]) => spent[b] <= Rate * now[s]
    <3> SUFFICES ASSUME Patient(b), rows[b] # NoRow PROVE spent[b] <= Rate * now[s]
      BY Zenon
    <3>1. /\ rows[b].tokens \in Nat /\ rows[b].last \in Nat
          /\ spent[b] + rows[b].tokens <= Limit[b] + Rate * rows[b].last
      BY <1>1, RowFacts, Zenon
    <3>2. rows[b].last + Ttl(b) <= now[s]
      BY <1>4, Zenon DEF Live, Expired
    <3>3. rows[b].last + Refill(b) <= now[s]
      <4>1. Refill(b) \in Nat /\ Ttl(b) \in Nat /\ Refill(b) <= Ttl(b)
        BY <1>1, TtlFacts, Zenon
      <4>. QED
        BY <1>1, <3>1, <3>2, <4>1
    <3>. QED
      BY <1>1, <1>3, <3>1, <3>3, RefillCovers
  <2> HIDE DEF left
  <2>3. spent[b] <= Rate * now[s] => spent[b] + Limit[b] <= Limit[b] + Rate * at
    BY <1>3
  <2>4. Limit[b] <= Limit[b] /\ Limit[b] <= Limit[b] + spent[b]
    BY <1>3
  <2>. QED
    BY <1>2, <1>3, <2>1, <2>2, <2>3, <2>4, Zenon DEF at
<1>5. CASE Live(b, now[s])
  <2>1. rows[b] # NoRow
    BY <1>5, Zenon DEF Live
  <2>2. /\ rows[b].tokens \in Nat /\ rows[b].last \in Nat /\ rows[b].last <= at
        /\ Limit[b] <= rows[b].tokens + spent[b]
        /\ Patient(b) => spent[b] + rows[b].tokens <= Limit[b] + Rate * rows[b].last
    BY <1>1, <1>5, <2>1, RowFacts, Zenon
  <2>3. left = Refilled(rows[b].tokens, rows[b].last, at, Limit[b])
    BY <1>5, Zenon DEF Balance, Refilled
  <2> HIDE DEF left
  <2>4. /\ left \in Nat /\ left <= Limit[b] /\ Limit[b] <= left + spent[b]
        /\ spent[b] + rows[b].tokens <= Limit[b] + Rate * rows[b].last
              => spent[b] + left <= Limit[b] + Rate * at
    BY <1>1, <1>3, <2>2, <2>3, Accrual, Zenon
  <2>. QED
    BY <1>2, <2>2, <2>4, Zenon DEF at
<1>. QED
  BY <1>4, <1>5, Zenon

\* A row that outlives its refill by the difference of two readings may be dropped
\* by the one, and found missing by the other.
LEMMA ExpiryIsPatient ==
    ASSUME Funds, Shape, NEW b \in Buckets, Patient(b), NEW t \in Nat, t <= clock + Ahead,
           Expired(b, t)
    PROVE  spent[b] <= Rate * Early
<1>1. /\ rows[b].tokens \in Nat /\ rows[b].last \in Nat /\ spent[b] \in Nat
      /\ spent[b] + rows[b].tokens <= Limit[b] + Rate * rows[b].last
  BY RowFacts, Zenon DEF Expired
<1>2. rows[b].last + Ttl(b) <= t
  BY Zenon DEF Expired
<1>3. Ttl(b) >= Refill(b) + Behind + Ahead /\ Refill(b) \in Nat /\ Ttl(b) \in Nat
  BY TtlFacts, Zenon DEF Patient
<1>4. clock \in Nat /\ Ahead \in Nat /\ Behind \in Nat
  BY ClockFacts, Zenon
<1>5. rows[b].last + Refill(b) <= clock - Behind
  BY <1>1, <1>2, <1>3, <1>4
<1>6. rows[b].last + Refill(b) <= Early /\ Early \in Nat
  BY <1>1, <1>3, <1>4, <1>5 DEF Early
<1>. QED
  BY <1>1, <1>6, RefillCovers

\* A decision depends on the rows of its buckets only.
LEMMA SameChanges ==
    ASSUME NEW s, job'[s] = job[s], now'[s] = now[s], \A b \in Ids(s) : rows'[b] = rows[b]
    PROVE  Ids(s)' = Ids(s) /\ Allowed(s)' = Allowed(s) /\ Changes(s)' = Changes(s)
<1>1. Ids(s)' = Ids(s)
  BY Zenon DEF Ids
<1>2. \A b \in Ids(s) : /\ rows'[b] = rows[b]
                        /\ Expired(b, now[s])' = Expired(b, now[s]) /\ Live(b, now[s])' = Live(b, now[s])
  BY Zenon DEF Expired, Live
<1>3. Effective(s)' = Effective(s)
  <2> DEFINE alive == {b \in Ids(s) : Live(b, now[s])}
             T == {rows[b].last : b \in alive}
  <2>1. alive' = alive
    BY <1>1, <1>2, Zenon
  <2>2. T' = T
    <3>1. \A b \in alive : rows'[b].last = rows[b].last
      BY <1>2, Zenon
    <3> HIDE DEF alive
    <3>. QED
      BY <2>1, <3>1, Zenon
  <2>3. Effective(s) = Max({now[s]} \cup T) /\ Effective(s)' = Max({now'[s]} \cup T')
    BY Zenon DEF Effective
  <2> HIDE DEF T
  <2>. QED
    BY <2>2, <2>3, Zenon
<1>4. Left(s)' = Left(s)
  <2>1. \A b \in Ids(s) : Balance(b, Live(b, now[s]), Effective(s))' = Balance(b, Live(b, now[s]), Effective(s))
    BY <1>2, <1>3, Zenon DEF Balance
  <2>. QED
    BY <1>1, <2>1, Zenon DEF Left
<1>5. Allowed(s)' = Allowed(s)
  BY <1>1, <1>4, Zenon DEF Allowed
<1>6. \A b : Charged(s, b)' = Charged(s, b)
  BY <1>5, Zenon DEF Charged
<1>7. CASE Allowed(s) \/ IsSingle(s)
  <2>1. (Allowed(s) \/ IsSingle(s))'
    BY <1>5, <1>7, Zenon DEF IsSingle
  <2>2. Changes(s) = [b \in Ids(s) |-> [tokens |-> Left(s)[b] - Charged(s, b), last |-> Effective(s)]]
    BY <1>7, Zenon DEF Changes
  <2>3. Changes(s)' = [b \in Ids(s)' |-> [tokens |-> (Left(s)')[b] - Charged(s, b)', last |-> Effective(s)']]
    BY <2>1, Zenon DEF Changes
  <2>. QED
    BY <1>1, <1>3, <1>4, <1>5, <1>6, <2>2, <2>3, Zenon
<1>8. CASE ~(Allowed(s) \/ IsSingle(s))
  <2> DEFINE old == {b \in Ids(s) : Expired(b, now[s])}
  <2>1. old' = old
    BY <1>1, <1>2, Zenon
  <2>2. ~(Allowed(s) \/ IsSingle(s))'
    BY <1>5, <1>8, Zenon DEF IsSingle
  <2>3. Changes(s) = [b \in old |-> NoRow]
    BY <1>8, Zenon DEF Changes
  <2>4. Changes(s)' = [b \in old' |-> NoRow]
    BY <2>2, Zenon DEF Changes, NoRow
  <2> HIDE DEF old
  <2>. QED
    BY <1>1, <1>5, <2>1, <2>3, <2>4, Zenon
<1>. QED
  BY <1>7, <1>8, Zenon

\* A session keeps its decision while nobody touches its buckets.
LEMMA StillDecided ==
    ASSUME NEW s \in Sessions, Decided(s), job'[s] = job[s], now'[s] = now[s],
           out'[s] = out[s], writes'[s] = writes[s],
           \A b \in Ids(s) : rows'[b] = rows[b] /\ spent'[b] = spent[b]
    PROVE  Decided(s)'
<1>1. Ids(s)' = Ids(s) /\ Allowed(s)' = Allowed(s) /\ Changes(s)' = Changes(s)
  BY SameChanges, Zenon
<1>2. out'[s].allowed = Allowed(s)' /\ writes'[s] = Changes(s)'
  BY <1>1, Zenon DEF Decided
<1>3. \A b \in Ids(s)' : Patient(b) /\ rows'[b] = NoRow => spent'[b] <= Rate * now'[s]
  BY <1>1, Zenon DEF Decided
<1>. QED
  BY <1>2, <1>3, Zenon DEF Decided, Patient, NoRow

\* What the other sessions see of a step of one.
Others(s) ==
    /\ DOMAIN writes' = Sessions /\ DOMAIN now' = Sessions
    /\ \A t \in Sessions \ {s} : /\ pc'[t] = pc[t] /\ job'[t] = job[t] /\ now'[t] = now[t]
                                  /\ out'[t] = out[t] /\ writes'[t] = writes[t] /\ held'[t] = held[t]

\* The sessions that a step of another does not concern.
LEMMA OthersKeep ==
    ASSUME Funds, Shape, NEW t \in Sessions, clock' \in Nat, clock <= clock',
           pc'[t] = pc[t], job'[t] = job[t], now'[t] = now[t], out'[t] = out[t],
           writes'[t] = writes[t], held'[t] = held[t],
           pc[t] = "commit" => \A b \in Ids(t) : rows'[b] = rows[b] /\ spent'[b] = spent[b]
    PROVE  /\ now'[t] \in 0 .. clock' + Ahead
           /\ pc'[t] \in {"load", "commit"} => Locked(t)'
           /\ pc'[t] = "commit" => Decided(t)'
<1>1. now'[t] \in 0 .. clock' + Ahead
  <2>1. now[t] \in 0 .. clock + Ahead /\ clock \in Nat /\ Ahead \in Nat
    BY ClockFacts, Zenon DEF Funds
  <2>. QED
    BY <2>1
<1>2. pc'[t] \in {"load", "commit"} => Locked(t)'
  <2>1. Ids(t)' = Ids(t)
    BY Zenon DEF Ids
  <2>2. pc[t] \in {"load", "commit"} => \A b \in Ids(t) : BucketLock(LockOf[b]) \in held[t]
    BY Zenon DEF Funds, Locked
  <2>. QED
    BY <2>1, <2>2, Zenon DEF Locked
<1>3. pc'[t] = "commit" => Decided(t)'
  BY StillDecided, Zenon DEF Funds
<1>. QED
  BY <1>1, <1>2, <1>3, Zenon

\* Steps of one session that change neither rows nor charges nor the clock.
LEMMA QuietStep ==
    ASSUME Funds, Shape, NEW s \in Sessions, UNCHANGED <<clock, rows, spent>>, Others(s),
           now'[s] \in 0 .. clock + Ahead,
           pc'[s] \in {"load", "commit"} => Locked(s)',
           pc'[s] = "commit" => Decided(s)'
    PROVE  Funds'
<1>1. clock' \in Nat /\ clock <= clock' /\ clock' = clock
  BY DEF Funds
<1>2. ASSUME NEW t \in Sessions, t # s
      PROVE  /\ now'[t] \in 0 .. clock' + Ahead
             /\ pc'[t] \in {"load", "commit"} => Locked(t)'
             /\ pc'[t] = "commit" => Decided(t)'
  <2>1. /\ pc'[t] = pc[t] /\ job'[t] = job[t] /\ now'[t] = now[t] /\ out'[t] = out[t]
        /\ writes'[t] = writes[t] /\ held'[t] = held[t]
    BY <1>2, Zenon DEF Others
  <2>2. \A b \in Ids(t) : rows'[b] = rows[b] /\ spent'[b] = spent[b]
    BY Zenon
  <2>. QED
    BY <1>1, <2>1, <2>2, OthersKeep, Zenon
<1>3. \A b \in Buckets : Sound(rows'[b], b, spent'[b], Early', clock' + Ahead)
  <2>1. Early' = Early
    BY <1>1, Zenon DEF Early
  <2>. QED
    BY <1>1, <2>1, Zenon DEF Funds
<1>4. DOMAIN rows' = Buckets /\ DOMAIN writes' = Sessions /\ DOMAIN now' = Sessions
  BY Zenon DEF Funds, Others
<1>. QED
  BY <1>1, <1>2, <1>3, <1>4, Zenon DEF Funds, Sound, Patient, NoRow

\* With the reading of the oldest caller a bucket without a row is full.
LEMMA DecideStep ==
    ASSUME Funds, Shape, NEW s \in Sessions, Decide(s)
    PROVE  Funds'
<1>1. /\ pc[s] = "load" /\ pc'[s] = "commit" /\ clock <= now[s] + Behind
      /\ UNCHANGED <<clock, rows, spent, job, now, held>>
  BY Zenon DEF Decide, Shape
<1>2. writes'[s] = Changes(s) /\ out'[s].allowed = Allowed(s)
  BY ReceiptFields, Zenon DEF Decide, Shape, Funds
<1>3. \A b \in Ids(s) : rows'[b] = rows[b]
  BY <1>1, Zenon
<1>4. Ids(s)' = Ids(s) /\ Allowed(s)' = Allowed(s) /\ Changes(s)' = Changes(s)
  BY <1>1, <1>3, SameChanges, Zenon
<1>5. now[s] \in Nat /\ Early <= now[s] /\ Early \in Nat
  <2>1. now[s] \in 0 .. clock + Ahead /\ clock \in Nat /\ Behind \in Nat /\ Early \in Nat
    BY ClockFacts, Zenon DEF Funds
  <2>. QED
    BY <1>1, <2>1 DEF Early
<1>6. ASSUME NEW b \in Ids(s), Patient(b), rows[b] = NoRow
      PROVE  spent[b] <= Rate * now[s]
  <2>1. spent[b] \in Nat /\ spent[b] <= Rate * Early
    BY <1>1, <1>6, LockNumbers, RowFacts, Zenon
  <2>2. Rate * Early \in Nat /\ Rate * now[s] \in Nat /\ Rate * Early <= Rate * now[s]
    BY <1>5, MoreTime, Zenon
  <2>. QED
    BY <2>1, <2>2
<1>7. Decided(s)'
  BY <1>1, <1>2, <1>4, <1>6, Zenon DEF Decided, Patient, NoRow
<1>8. Locked(s)'
  BY <1>1, <1>4, Zenon DEF Funds, Locked
<1>9. Others(s) /\ now'[s] \in 0 .. clock + Ahead
  BY <1>1, Zenon DEF Decide, Funds, Shape, Others
<1>. QED
  BY <1>1, <1>7, <1>8, <1>9, QuietStep, Zenon

\* Sessions that have their locks share no bucket.
LEMMA NoneShared ==
    ASSUME Owned, NEW s \in Sessions, NEW t \in Sessions, s # t, Locked(s), Locked(t),
           NEW b \in Ids(t), b \in Ids(s)
    PROVE  FALSE
BY Zenon DEF Owned, Locked

\* A row that is written after its charge is sound.
LEMMA WrittenSound ==
    ASSUME NEW b \in Buckets, NEW left \in Nat, NEW charge \in Nat, charge <= left,
           NEW charged \in Nat, NEW at \in Nat, NEW latest \in Nat, at <= latest, NEW early,
           Limit[b] <= left + charged,
           Patient(b) => charged + left <= Limit[b] + Rate * at
    PROVE  Sound([tokens |-> left - charge, last |-> at], b, charged + charge, early, latest)
<1> DEFINE row == [tokens |-> left - charge, last |-> at]
<1>1. row.tokens = left - charge /\ row.last = at /\ row # NoRow
  BY DEF NoRow
<1>2. Limit[b] \in Nat \ {0} /\ Rate * at \in Nat
  BY SetupFacts, Zenon
<1>3. left - charge \in Nat /\ at \in 0 .. latest /\ Limit[b] <= (left - charge) + (charged + charge)
  BY <1>2
<1>4. Patient(b) => (charged + charge) + (left - charge) <= Limit[b] + Rate * at
  BY <1>2
<1> HIDE DEF row
<1>5. Sound(row, b, charged + charge, early, latest)
  BY <1>1, <1>3, <1>4, Zenon DEF Sound
<1>. QED
  BY <1>5 DEF row

\* What a commit makes of a bucket it names.
LEMMA CommitBucket ==
    ASSUME Funds, Shape, NEW s \in Sessions, Commit(s), NEW b \in Ids(s)
    PROVE  Sound(rows'[b], b, spent'[b], Early, clock + Ahead)
<1> DEFINE charge == Charged(s, b)
           left == Left(s)[b]
           at == Effective(s)
<1>1. /\ pc[s] = "commit" /\ Decided(s) /\ b \in Buckets /\ job[s].intent \in Work
      /\ spent[b] \in Nat /\ clock + Ahead \in Nat
  BY LockNumbers, ServesFacts, ClockFacts, RowFacts, Zenon DEF Commit, Funds, Shape
<1>2. /\ rows'[b] = IF b \in DOMAIN Changes(s) THEN Changes(s)[b] ELSE rows[b]
      /\ spent' = IF Allowed(s) THEN Ledger!Charge(job[s].intent) ELSE spent
  BY <1>1, Zenon DEF Commit, Decided
<1>3. charge \in Nat /\ spent'[b] = spent[b] + charge
  <2>1. CASE Allowed(s)
    BY <1>1, <1>2, <2>1, CostFacts, Zenon DEF Charged, Ledger!Charge
  <2>2. CASE ~Allowed(s)
    <3>1. charge = 0 /\ spent'[b] = spent[b]
      BY <1>2, <2>2, Zenon DEF Charged
    <3>. QED
      BY <1>1, <3>1
  <2>. QED
    BY <2>1, <2>2, Zenon
<1>4. /\ left \in Nat /\ Limit[b] <= left + spent[b]
      /\ Patient(b) => spent[b] + left <= Limit[b] + Rate * at
      /\ at \in Nat /\ at <= clock + Ahead /\ now[s] \in Nat /\ now[s] <= at
  BY <1>1, LeftFacts, EffectiveFacts, Zenon DEF Decided
<1>5. charge <= left
  <2>1. CASE Allowed(s)
    BY <2>1, Zenon DEF Charged, Allowed
  <2>2. CASE ~Allowed(s)
    <3>1. charge = 0
      BY <2>2, Zenon DEF Charged
    <3>. QED
      BY <1>4, <3>1
  <2>. QED
    BY <2>1, <2>2, Zenon
<1>6. CASE Allowed(s) \/ IsSingle(s)
  <2>1. rows'[b] = [tokens |-> left - charge, last |-> at]
    BY <1>2, <1>6, Zenon DEF Changes
  <2> HIDE DEF charge, left, at
  <2>2. Sound([tokens |-> left - charge, last |-> at], b, spent[b] + charge, Early, clock + Ahead)
    BY <1>1, <1>3, <1>4, <1>5, WrittenSound, Zenon
  <2>. QED
    BY <1>3, <2>1, <2>2, Zenon
<1>7. CASE ~(Allowed(s) \/ IsSingle(s))
  <2>1. Changes(s) = [c \in {c \in Ids(s) : Expired(c, now[s])} |-> NoRow] /\ spent' = spent
    BY <1>2, <1>7, Zenon DEF Changes
  <2>2. CASE Expired(b, now[s])
    <3>1. rows'[b] = NoRow
      BY <1>2, <2>1, <2>2, Zenon
    <3>2. now[s] <= clock + Ahead
      BY <1>1, <1>4
    <3>3. Patient(b) => spent[b] <= Rate * Early
      BY <1>1, <1>4, <2>2, <3>2, ExpiryIsPatient, Zenon
    <3>. QED
      BY <2>1, <3>1, <3>3, Zenon DEF Sound
  <2>3. CASE ~Expired(b, now[s])
    <3>1. rows'[b] = rows[b]
      BY <1>2, <2>1, <2>3, Zenon
    <3>. QED
      BY <1>1, <2>1, <3>1, Zenon DEF Funds
  <2>. QED
    BY <2>2, <2>3, Zenon
<1>. QED
  BY <1>6, <1>7, Zenon

\* A commit touches no bucket it does not name.
LEMMA CommitElsewhere ==
    ASSUME Funds, Shape, NEW s \in Sessions, Commit(s), NEW b \in Buckets, b \notin Ids(s)
    PROVE  rows'[b] = rows[b] /\ spent'[b] = spent[b]
<1>1. Decided(s) /\ job[s].intent \in Work /\ spent[b] \in Nat
  BY ServesFacts, RowFacts, Zenon DEF Commit, Funds, Shape
<1>2. b \notin DOMAIN writes[s]
  BY <1>1, Zenon DEF Decided, Changes
<1>3. Ledger!Cost(job[s].intent, b) = 0
  BY <1>1, CostFacts, Zenon DEF Ids
<1>4. spent'[b] = spent[b] \/ spent'[b] = spent[b] + Ledger!Cost(job[s].intent, b)
  BY Zenon DEF Commit, Ledger!Charge
<1>5. spent'[b] = spent[b]
  BY <1>1, <1>3, <1>4
<1>. QED
  BY <1>2, <1>5, Zenon DEF Commit

\* A commit leaves every row sound, and every other decision as it was.
LEMMA CommitStep ==
    ASSUME Funds, Shape, Owned, NEW s \in Sessions, Commit(s)
    PROVE  Funds'
<1>1. pc[s] = "commit" /\ End(s) /\ clock' = clock /\ DOMAIN rows' = Buckets /\ Locked(s)
  BY Zenon DEF Commit, Funds
<1>2. clock' \in Nat /\ clock <= clock' /\ clock + Ahead \in Nat /\ Early' = Early
  <2>1. Early' = Early
    BY <1>1, Zenon DEF Early
  <2>. QED
    BY <1>1, <2>1, ClockFacts
<1>3. Others(s) /\ pc'[s] = "idle" /\ now'[s] = 0
  BY <1>1, Zenon DEF End, Others, Funds, Shape
<1>4. ASSUME NEW t \in Sessions, t # s
      PROVE  /\ now'[t] \in 0 .. clock' + Ahead
             /\ pc'[t] \in {"load", "commit"} => Locked(t)'
             /\ pc'[t] = "commit" => Decided(t)'
  <2>1. /\ pc'[t] = pc[t] /\ job'[t] = job[t] /\ now'[t] = now[t] /\ out'[t] = out[t]
        /\ writes'[t] = writes[t] /\ held'[t] = held[t]
    BY <1>3, <1>4, Zenon DEF Others
  <2>2. ASSUME pc[t] = "commit", NEW b \in Ids(t)
        PROVE  rows'[b] = rows[b] /\ spent'[b] = spent[b]
    <3>1. b \in Buckets /\ Locked(t)
      BY <2>2, LockNumbers, Zenon DEF Funds
    <3>2. b \notin Ids(s)
      BY <1>1, <1>4, <3>1, NoneShared, Zenon
    <3>. QED
      BY <3>1, <3>2, CommitElsewhere, Zenon
  <2>. QED
    BY <1>2, <2>1, <2>2, OthersKeep, Zenon
<1>5. \A b \in Buckets : Sound(rows'[b], b, spent'[b], Early', clock' + Ahead)
  <2>1. ASSUME NEW b \in Buckets, b \notin Ids(s)
        PROVE  Sound(rows'[b], b, spent'[b], Early, clock + Ahead)
    BY <2>1, CommitElsewhere, Zenon DEF Funds
  <2>. QED
    BY <1>1, <1>2, <2>1, CommitBucket, Zenon
<1>6. now'[s] \in 0 .. clock' + Ahead
  BY <1>1, <1>2, <1>3
<1>7. DOMAIN writes' = Sessions /\ DOMAIN now' = Sessions
  BY <1>3, Zenon DEF Others
<1>. QED
  BY <1>1, <1>2, <1>3, <1>4, <1>5, <1>6, <1>7, Zenon DEF Funds, Sound, Patient, NoRow

\* Cleanup removes only rows that are full again, and none that is selected.
LEMMA CleanupStep ==
    ASSUME Funds, Shape, Pending, NEW b \in Buckets, Cleanup(b)
    PROVE  Funds'
<1>1. /\ Expired(b, clock) /\ rows' = [rows EXCEPT ![b] = NoRow]
      /\ UNCHANGED <<clock, spent, pc, job, now, held, writes, out>>
  BY Zenon DEF Cleanup, session
<1>2. clock' \in Nat /\ clock <= clock' /\ clock <= clock + Ahead /\ Early' = Early
  <2>1. Early' = Early
    BY <1>1, Zenon DEF Early
  <2>. QED
    BY <1>1, <2>1, ClockFacts
<1>3. /\ DOMAIN rows' = Buckets /\ rows'[b] = NoRow
      /\ \A c \in Buckets \ {b} : rows'[c] = rows[c]
  BY <1>1, Zenon DEF Funds
<1>4. Sound(rows'[b], b, spent[b], Early, clock + Ahead)
  <2>1. Patient(b) => spent[b] <= Rate * Early
    BY <1>1, <1>2, ExpiryIsPatient, ClockFacts, Zenon
  <2>. QED
    BY <1>3, <2>1, Zenon DEF Sound
<1>5. ASSUME NEW t \in Sessions
      PROVE  /\ now'[t] \in 0 .. clock' + Ahead
             /\ pc'[t] \in {"load", "commit"} => Locked(t)'
             /\ pc'[t] = "commit" => Decided(t)'
  <2>1. pc[t] = "commit" => b \notin Ids(t)
    <3>1. pc[t] = "commit" => out[t] # Ledger!None
      BY ReceiptFields DEF Pending
    <3>. QED
      BY <3>1, Zenon DEF Cleanup
  <2>2. pc[t] = "commit" => \A c \in Ids(t) : rows'[c] = rows[c] /\ spent'[c] = spent[c]
    BY <1>1, <1>3, <2>1, LockNumbers, Zenon
  <2>. QED
    BY <1>1, <1>2, <2>2, OthersKeep, Zenon
<1>6. \A c \in Buckets : Sound(rows'[c], c, spent'[c], Early', clock' + Ahead)
  BY <1>1, <1>2, <1>3, <1>4, Zenon DEF Funds
<1>. QED
  BY <1>1, <1>2, <1>3, <1>5, <1>6, Zenon DEF Funds, Sound, Patient, NoRow

\* The passing of time keeps every bucket sound.
LEMMA TickStep ==
    ASSUME Funds, Shape, Tick
    PROVE  Funds'
<1>1. clock' = clock + 1 /\ UNCHANGED <<rows, spent, pc, job, now, held, writes, out>>
  BY Zenon DEF Tick, session
<1>2. /\ clock' \in Nat /\ clock <= clock' /\ Early \in Nat /\ Early' \in Nat /\ Early <= Early'
      /\ clock + Ahead \in Nat /\ clock' + Ahead \in Nat /\ clock + Ahead <= clock' + Ahead
  <2>1. clock \in Nat /\ Ahead \in Nat /\ Behind \in Nat
    BY ClockFacts, Zenon
  <2>. QED
    BY <1>1, <2>1 DEF Early
<1>3. ASSUME NEW b \in Buckets
      PROVE  Sound(rows'[b], b, spent'[b], Early', clock' + Ahead)
  <2>1. /\ Sound(rows[b], b, spent[b], Early, clock + Ahead) /\ spent[b] \in Nat
        /\ Rate * Early \in Nat /\ Rate * Early' \in Nat /\ Rate * Early <= Rate * Early'
    BY <1>2, RowFacts, MoreTime, Zenon DEF Funds
  <2>2. spent[b] <= Rate * Early => spent[b] <= Rate * Early'
    BY <2>1
  <2>3. rows[b].last \in 0 .. clock + Ahead => rows[b].last \in 0 .. clock' + Ahead
    BY <1>2
  <2>. QED
    BY <1>1, <2>1, <2>2, <2>3, Zenon DEF Sound
<1>4. ASSUME NEW t \in Sessions
      PROVE  /\ now'[t] \in 0 .. clock' + Ahead
             /\ pc'[t] \in {"load", "commit"} => Locked(t)'
             /\ pc'[t] = "commit" => Decided(t)'
  <2>1. \A b \in Ids(t) : rows'[b] = rows[b] /\ spent'[b] = spent[b]
    BY <1>1, Zenon
  <2>. QED
    BY <1>1, <1>2, <2>1, OthersKeep, Zenon
<1>. QED
  BY <1>1, <1>2, <1>3, <1>4, Zenon DEF Funds, Sound, Patient, NoRow

\* Every step keeps the funds in order.
LEMMA StepFunds == IInv /\ Funds /\ [Next]_vars => Funds'
<1> SUFFICES ASSUME IInv, Funds, [Next]_vars
             PROVE  Funds'
  OBVIOUS
<1> USE DEF IInv
<1>1. ASSUME NEW s \in Sessions,
             \/ (\E c \in Commands, intent \in Intents : Submit(s, c, intent))
             \/ (\E r \in Singles : SubmitSingle(s, r))
             \/ LockCommand(s) \/ Lookup(s) \/ LockBucket(s) \/ Fail(s)
      PROVE  Funds'
  <2>1. UNCHANGED <<clock, rows, spent, writes, now>> /\ pc'[s] \notin {"load", "commit"}
    BY <1>1 DEF Submit, SubmitSingle, LockCommand, Lookup, LockBucket, Fail, Shape
  <2>2. \A t \in Sessions \ {s} :
          pc'[t] = pc[t] /\ job'[t] = job[t] /\ out'[t] = out[t] /\ held'[t] = held[t]
    BY <1>1, Zenon DEF Submit, SubmitSingle, LockCommand, Lookup, LockBucket, Fail, Shape
  <2>3. Others(s) /\ now'[s] \in 0 .. clock + Ahead
    BY <2>1, <2>2, Zenon DEF Funds, Others
  <2>4. pc'[s] # "load" /\ pc'[s] # "commit"
    BY <2>1
  <2>. QED
    BY <2>1, <2>3, <2>4, QuietStep, Zenon
<1>2. ASSUME NEW s \in Sessions, CommitReplay(s) \/ Abort(s)
      PROVE  Funds'
  <2>1. UNCHANGED <<clock, rows, spent>> /\ End(s)
    BY <1>2, Zenon DEF CommitReplay, Abort
  <2>2. Others(s) /\ pc'[s] = "idle" /\ now'[s] = 0
    BY <2>1, Zenon DEF End, Others, Shape, Funds
  <2>3. pc'[s] # "load" /\ pc'[s] # "commit" /\ now'[s] \in 0 .. clock + Ahead
    BY <2>2, ClockFacts
  <2>. QED
    BY <2>1, <2>2, <2>3, QuietStep, Zenon
<1>3. ASSUME NEW s \in Sessions, NEW t \in 0 .. clock + Ahead, Observe(s, t)
      PROVE  Funds'
  <2>1. UNCHANGED <<clock, rows, spent, job, held, writes, out>> /\ pc'[s] = "load" /\ now'[s] = t
    BY <1>3, Zenon DEF Observe, Shape, Funds
  <2>2. Others(s)
    BY <1>3, Zenon DEF Observe, Others, Shape, Funds
  <2>3. Locked(s)'
    BY <1>3, <2>1, Zenon DEF Observe, Locked, Ids
  <2>4. pc'[s] # "commit"
    BY <2>1
  <2>. QED
    BY <2>1, <2>2, <2>3, <2>4, QuietStep, Zenon
<1>4. ASSUME UNCHANGED <<clock, rows, spent, pc, job, now, held, writes, out>>
      PROVE  Funds'
  <2>1. clock' \in Nat /\ clock <= clock' /\ Early' = Early
    <3>1. Early' = Early
      BY <1>4, Zenon DEF Early
    <3>. QED
      BY <1>4, <3>1, ClockFacts
  <2>2. ASSUME NEW t \in Sessions
        PROVE  /\ now'[t] \in 0 .. clock' + Ahead
               /\ pc'[t] \in {"load", "commit"} => Locked(t)'
               /\ pc'[t] = "commit" => Decided(t)'
    <3>1. \A b \in Ids(t) : rows'[b] = rows[b] /\ spent'[b] = spent[b]
      BY <1>4, Zenon
    <3>. QED
      BY <1>4, <2>1, <3>1, OthersKeep, Zenon
  <2>. QED
    BY <1>4, <2>1, <2>2, Zenon DEF Funds, Sound, Patient, NoRow
<1>5. ASSUME NEW s \in Sessions, LoseCaller(s)
      PROVE  Funds'
  BY <1>4, <1>5, Zenon DEF LoseCaller
<1>6. CASE UNCHANGED vars
  BY <1>4, <1>6, Zenon DEF vars, session
<1>. QED
  BY <1>1, <1>2, <1>3, <1>5, <1>6, DecideStep, CommitStep, CleanupStep, TickStep, Zenon DEF Next

\* Empty tables owe nothing.
LEMMA InitFunds == Init => Funds
<1> SUFFICES ASSUME Init PROVE Funds
  OBVIOUS
<1>1. clock = 0 /\ Early \in Nat /\ clock + Ahead \in Nat
  BY SetupFacts DEF Init, Early
<1>2. 0 <= Rate * Early
  BY <1>1, SetupFacts
<1>3. \A b \in Buckets : rows[b] = NoRow /\ spent[b] = 0
  BY Zenon DEF Init, Ledger!Init
<1>4. \A b \in Buckets : Sound(rows[b], b, spent[b], Early, clock + Ahead)
  BY <1>2, <1>3, Zenon DEF Sound
<1>5. \A s \in Sessions : now[s] \in 0 .. clock + Ahead
  BY <1>1 DEF Init
<1>6. \A s \in Sessions : pc[s] # "load" /\ pc[s] # "commit"
  BY DEF Init
<1>7. DOMAIN rows = Buckets /\ DOMAIN writes = Sessions /\ DOMAIN now = Sessions
  BY Zenon DEF Init
<1>. QED
  BY <1>1, <1>4, <1>5, <1>6, <1>7 DEF Funds

\* However many connections, atomic commands and single admissions share a bucket,
\* through lost commits, retries, expiry and cleanup, and whatever time passes
\* between their clock and their rows: the cost charged to it stays within its
\* limit and what has accrued, if its rows outlive their refill by the spread of
\* the readings, and its row lacks only what was charged (AdmitAtomicStrict,
\* admitStrict, Cleanup).
THEOREM BooksAlwaysBalance == Spec => []BooksBalance
<1>1. IInv /\ Funds => BooksBalance
  <2> SUFFICES ASSUME IInv, Funds, NEW b \in Buckets
               PROVE  /\ Patient(b) => spent[b] <= Limit[b] + Rate * (clock + Ahead)
                      /\ rows[b] # NoRow => Limit[b] <= rows[b].tokens + spent[b]
    BY Zenon DEF BooksBalance
  <2>1. Shape /\ Sound(rows[b], b, spent[b], Early, clock + Ahead)
    BY Zenon DEF IInv, Funds
  <2>2. /\ spent[b] \in Nat /\ Limit[b] \in Nat /\ clock + Ahead \in Nat /\ Early \in Nat
        /\ Early <= clock + Ahead
    <3>1. clock \in Nat /\ Ahead \in Nat /\ Behind \in Nat
      BY ClockFacts, Zenon
    <3>. QED
      BY <2>1, <3>1, SetupFacts DEF Early, Shape
  <2>3. CASE rows[b] = NoRow
    <3>1. /\ Rate * Early \in Nat /\ Rate * (clock + Ahead) \in Nat
          /\ Rate * Early <= Rate * (clock + Ahead)
      BY <2>2, MoreTime, Zenon
    <3>2. Patient(b) => spent[b] <= Rate * Early
      BY <2>1, <2>3, Zenon DEF Sound
    <3>. QED
      BY <2>2, <2>3, <3>1, <3>2
  <2>4. CASE rows[b] # NoRow
    <3>1. /\ rows[b].tokens \in Nat /\ rows[b].last \in 0 .. clock + Ahead
          /\ Limit[b] <= rows[b].tokens + spent[b]
          /\ Patient(b) => spent[b] + rows[b].tokens <= Limit[b] + Rate * rows[b].last
      BY <2>1, <2>4, Zenon DEF Sound
    <3>2. rows[b].last \in Nat /\ rows[b].last <= clock + Ahead
      BY <2>2, <3>1
    <3>3. /\ Rate * rows[b].last \in Nat /\ Rate * (clock + Ahead) \in Nat
          /\ Rate * rows[b].last <= Rate * (clock + Ahead)
      BY <2>2, <3>2, MoreTime, Zenon
    <3>. QED
      BY <2>2, <3>1, <3>3
  <2>. QED
    BY <2>3, <2>4, Zenon
<1>. QED
  BY <1>1, InitInv, StepInv, InitFunds, StepFunds, PTL DEF Spec

\* What a transaction has decided from is still what the tables hold when it
\* commits: nothing changes a row but under the lock of its bucket, and Cleanup
\* skips the rows that were selected.
THEOREM DecisionsStayCurrent == Spec => []DecidedFromCurrent
<1>1. Funds => DecidedFromCurrent
  BY Zenon DEF Funds, Decided, DecidedFromCurrent
<1>. QED
  BY <1>1, InitInv, StepInv, InitFunds, StepFunds, PTL DEF Spec
=============================================================================
