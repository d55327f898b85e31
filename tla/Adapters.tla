------------------------------- MODULE Adapters -------------------------------
(***************************************************************************)
(* The middlewares around a handler: adapters/http and adapters/queue on   *)
(* the strict service, ratelimitrpc on the released one.  A middleware     *)
(* asks the service for admission, once for each of its rules in order,    *)
(* and runs the handler when all of them let the call through.  HTTP and   *)
(* queue have one rule.  A caller that uses no adapter calls the service   *)
(* itself.                                                                 *)
(***************************************************************************)
EXTENDS Services

CONSTANT MaxRules  \* bound on the rules of the RPC middleware

ASSUME MaxRulesAssumption == MaxRules \in Nat \ {0}

VARIABLES adapter,  \* the middleware in use, or "none"
          rules,    \* FailureMode of the policy of each rule
          rule,     \* the rule at hand
          asked,    \* whether the service has been asked about it
          answer,   \* what the middleware answers
          handled,  \* how often the handler has run (history)
          charged   \* the rules that the backend charged (history)

adapterVars == <<adapter, rules, rule, asked, answer, handled, charged>>

\* The steps of the service.
ServiceProceeds ==
    \/ service = "strict" /\ Proceed /\ UNCHANGED releasedOnly
    \/ service = "released" /\ Released!Proceed /\ UNCHANGED strictOnly

\* The error of Admit, or "nil".
Returned ==
    IF service = "released" THEN errs[1]
    ELSE IF items = <<>> THEN "nil" ELSE items[1].err.what

------------------------------------------------------------------------------
\* The wrapped handler is called.
Receive(m) ==
    /\ answer # "pending"
    /\ adapter # "rpc" => Len(m) = 1
    /\ rules' = m /\ rule' = 1 /\ asked' = FALSE /\ answer' = "pending"
    /\ handled' = 0 /\ charged' = {}
    /\ UNCHANGED <<adapter, service, vars, releasedOnly>>

\* Subject, key or cost cannot be derived.
Invalid ==
    /\ answer = "pending" /\ ~asked
    /\ answer' = IF adapter = "http" THEN "invalid" ELSE "unavailable"
    /\ UNCHANGED <<adapter, rules, rule, asked, handled, charged, service, vars, releasedOnly>>

\* Service.Admit is called; the context is that of the call.
Ask ==
    /\ answer = "pending" /\ ~asked
    /\ asked' = TRUE
    /\ \/ service = "strict" /\ Begin("admit", <<rules[rule]>>) /\ UNCHANGED releasedOnly
       \/ /\ service = "released" /\ Released!Begin("admit", <<rules[rule]>>)
          /\ rule > 1 /\ ctx # "open" => ctx' = ctx
          /\ UNCHANGED strictOnly
    /\ UNCHANGED <<adapter, rules, rule, answer, handled, charged, service>>

Serve == asked /\ ServiceProceeds /\ UNCHANGED <<adapterVars, service>>

\* Mutant: only a rejection stops the call.
PassesUnlessRejected(err) == err # "rejected"

\* Whether the middleware goes on.
Passes(err) == err = "nil"

\* Service.Admit has returned.
Take ==
    /\ asked /\ pc = "idle"
    /\ asked' = FALSE
    /\ charged' = charged \cup (IF done = {} THEN {} ELSE {rule})
    /\ \/ /\ Passes(Returned) /\ rule < Len(rules)
          /\ rule' = rule + 1
          /\ UNCHANGED <<answer, handled>>
       \/ /\ Passes(Returned) /\ rule = Len(rules)
          /\ handled' = handled + 1 /\ answer' = "handled"
          /\ UNCHANGED rule
       \/ /\ ~Passes(Returned)
          /\ answer' = IF Returned = "rejected" THEN "limited" ELSE "unavailable"
          /\ UNCHANGED <<rule, handled>>
    /\ UNCHANGED <<adapter, rules, service, vars, releasedOnly>>

AdapterInit ==
    /\ ApplicationInit
    /\ adapter \in IF service = "strict" THEN {"none", "http", "queue"} ELSE {"none", "rpc"}
    /\ rules = <<"closed">> /\ rule = 1 /\ asked = FALSE /\ answer = "none"
    /\ handled = 0 /\ charged = {}

AdapterNext ==
    \/ adapter = "none" /\ ApplicationNext /\ UNCHANGED adapterVars
    \/ /\ adapter # "none"
       /\ \/ \E n \in 1 .. MaxRules : \E m \in [1 .. n -> {"open", "closed"}] : Receive(m)
          \/ Invalid \/ Ask \/ Serve \/ Take

AdapterSpec ==
    AdapterInit /\ [][AdapterNext]_<<vars, service, releasedOnly, adapterVars>>

------------------------------------------------------------------------------
(* Properties. *)

\* The handler runs at most once for a call, and only when each rule was charged
\* or its policy fails open.  A call that is turned away as limited did not pay
\* for the rule that refused it, and only that one, so trying again later never
\* pays twice for it; rules after the one that stopped the call are not asked.
\* Nothing was charged when HTTP answers that a request is invalid.
HandlesAdmitted ==
    adapter # "none" =>
        /\ handled = IF answer = "handled" THEN 1 ELSE 0
        /\ charged \subseteq 1 .. rule
        /\ \A i \in 1 .. (IF answer = "handled" THEN Len(rules) ELSE rule - 1) :
              i \in charged \/ rules[i] = "open"
        /\ answer = "limited" => rule \notin charged
        /\ answer = "invalid" => charged = {}
=============================================================================
