------------------------------- MODULE Gateway -------------------------------
(***************************************************************************)
(* The gateway's request handler (gateway/internal/proxy/handler.go and    *)
(* stream.go) over the budget enforcer, the configuration cache and the    *)
(* policy engine.  Every request is a process; its steps are the points    *)
(* where the handler waits for Redis, the advisor or a provider, and at    *)
(* each of them other requests, the clock, a configuration change, or the  *)
(* departure of the client may come in between.                            *)
(*                                                                         *)
(* The steps that touch Redis are those of Enforcer, instantiated as E;    *)
(* Implements says that nothing else happens to the buckets.               *)
(*                                                                         *)
(* External: the advisor's LLM answers with any of LLMAnswers, an upstream *)
(* provider with any of Usages or an error.  Faults adds, to those of      *)
(* Enforcer:                                                               *)
(*   "redis_error"  a check fails without an answer                        *)
(*   "cancel"       a client goes away, which cancels the request context  *)
(*   "crash"        the process serving a request dies                     *)
(***************************************************************************)
EXTENDS Advisor, Functions

CONSTANTS
  Req,          \* requests
  Callers,      \* the <<tenant, agent, task>> that requests come from
  Bodies,       \* request bodies
  Usages,       \* usages a provider may report
  LLMAnswers,   \* what the advisor's LLM may answer
  Mock,         \* in LLMAnswers if that may be the mock
  Tables,       \* contents of the budgets table
  DefaultOut,   \* defaultOutputTokenEstimate
  MaxInt,       \* the largest int
  TTL, Cap, Rate, Faults, MaxFaults, MaxUptime   \* as in Enforcer

VARIABLES
  bal, ts, now, resv, uptime, spent, unchecked, born, faults,   \* Enforcer
  table,        \* the budgets table in Postgres
  data,         \* ConfigCache.data, the cached limits
  h,            \* h[r]: the handler of request r
  ev            \* ev[r]: the spend event handed to the SpendWriter, if any

redis == <<bal, ts, now, resv, uptime, spent, unchecked, born, faults>>
config == <<table, data>>
vars == <<bal, ts, now, resv, uptime, spent, unchecked, born, faults,
          table, data, h, ev>>

-----------------------------------------------------------------------------
(* Integer addition wraps around. *)
Wrap(x) == ((x + MaxInt + 1) % (2 * (MaxInt + 1))) - (MaxInt + 1)

Body == [model : Model, in : Nat, max : Int, stream : BOOLEAN]

(* The pre-flight estimate: input tokens as the tokenizer counts them,     *)
(* output tokens as the client limits them.                                *)
OutTokens(body) == IF body.max <= 0 THEN DefaultOut ELSE body.max
Estimate(body) ==
  [d \in Dim |-> IF d = "tokens" THEN Wrap(body.in + OutTokens(body))
                 ELSE CostUSD(body.model, body.in, 0, OutTokens(body))]

(* The cost of a usage by the gateway's prices.  OpenAI and Anthropic      *)
(* report cached input tokens, which are cheaper; the mock provider, which *)
(* also serves unknown families, does not.                                 *)
Usage == [in : Nat, cached : Nat, out : Nat]
Cost(body, u, cached) ==
  [d \in Dim |-> IF d = "tokens" THEN u.in + u.out
                 ELSE CostUSD(body.model, u.in, cached, u.out)]
FullCost(body, u) ==
  Cost(body, u, IF Family[body.model] \in {"openai", "anthropic"} THEN u.cached ELSE 0)

(* What Reconcile is called with: only the non-streaming path knows of     *)
(* cached tokens.                                                          *)
Actual(body, u) == IF body.stream THEN Cost(body, u, 0) ELSE FullCost(body, u)

(* Every list, estimate and actual usage that can come up. *)
AllRefLists == {Resolve(Load(t), c) : t \in Tables, c \in Callers} \ {<<>>}
Retries(body) ==
  {[body EXCEPT !.model = m] : m \in CheaperAlternatives(body.model)}
  \cup {[body EXCEPT !.max = n] : n \in MinAllowance .. Estimate(body)["tokens"] - 1}
AllBodies == Bodies \cup UNION {Retries(b) : b \in Bodies}
AllEstimates == {Estimate(b) : b \in AllBodies}
AllActuals ==
  {Actual(b, u) : b \in AllBodies, u \in Usages} \cup {NoAmount}

AllSnapshots == {Load(t) : t \in Tables}

E == INSTANCE Enforcer
       WITH RefLists <- AllRefLists, Wants <- AllEstimates, Actuals <- AllActuals

(* Numbers of tokens are ints, and Cap and Rate bound what the rows of a   *)
(* bucket configure, in whichever version of the table.  No row is for an  *)
(* agent or a task called "-": its key would be that of the next scope.    *)
ASSUME GatewayAssumption ==
  /\ MaxInt \in Nat \ {0}
  /\ DefaultOut \in 1 .. MaxInt
  /\ Bodies \subseteq {b \in Body : b.in <= MaxInt /\ b.max <= MaxInt}
  /\ Usages \subseteq Usage
  /\ LLMAnswers \ {Raises, Unparsable, Mock} \subseteq Seq(LLMSuggestion)
  /\ Callers \subseteq Ident
  /\ TTL \in Nat \ {0} /\ MaxFaults \in Nat /\ MaxUptime \in Nat
  /\ Cap \in [Key -> [Dim -> Nat]] /\ Rate \in [Key -> [Dim -> Nat]]
  /\ \A t \in Tables : \A id \in DOMAIN t :
       /\ id \in Ident /\ "-" \notin {id[2], id[3]} /\ t[id] \in ConfigRow
       /\ BucketOf(id) \in Key
       /\ \A d \in Dim : /\ LimitsOf(t[id]).limit[d] <= Cap[BucketOf(id)][d]
                          /\ LimitsOf(t[id]).rate[d] <= Rate[BucketOf(id)][d]

-----------------------------------------------------------------------------
PC == {"new", "check", "advise", "retry", "upstream", "settle", "done", "crashed"}
NoDecision == [allowed |-> FALSE, index |-> 0, remaining |-> NoAmount]
NoEvent == [label |-> "none", cost |-> NoAmount]

(* A handler: asked is the request of the client, body what is checked and *)
(* dispatched, dec the denial that led to the advisor, dead that the       *)
(* context was already cancelled when Reconcile was called.                *)
NewHandler(body) ==
  [pc |-> "new", asked |-> body, body |-> body, refs |-> <<>>, dec |-> NoDecision,
   label |-> "allowed", code |-> 0, cancelled |-> FALSE, dead |-> FALSE]

NoBody == [model |-> None, in |-> 0, max |-> 0, stream |-> FALSE]

Handler ==
  [pc : PC, asked : Bodies \cup {NoBody}, body : AllBodies \cup {NoBody},
   refs : AllRefLists \cup {<<>>},
   dec : [allowed : {FALSE}, index : Int, remaining : Amount],
   label : {"allowed", "advised_retry", "rejected"},
   code : {0, 200, 400, 401, 403, 429, 502, 503},
   cancelled : BOOLEAN, dead : BOOLEAN]

Init ==
  /\ E!Init
  /\ table \in Tables
  /\ data = Load(table)
  /\ h = [r \in Req |-> NewHandler(NoBody)]
  /\ ev = [r \in Req |-> NoEvent]

(* The handler answers with a status code.  finish, where it is called,    *)
(* hands the spend event to the SpendWriter first.                         *)
Answer(r, hr, code) == h' = [h EXCEPT ![r] = [hr EXCEPT !.pc = "done", !.code = code]]
Emit(r, label, cost) == ev' = [ev EXCEPT ![r] = [label |-> label, cost |-> cost]]
Reject(r) == Answer(r, h[r], 429) /\ Emit(r, "rejected", NoAmount)

-----------------------------------------------------------------------------
(* authMiddleware: no key, a key that is not valid, or one whose scopes do *)
(* not allow the call.  401 stands for 403, too; which keys are valid is   *)
(* AuthCache's concern.                                                    *)
Unauthorized(r) ==
  /\ h[r].pc = "new"
  /\ Answer(r, h[r], 401)
  /\ UNCHANGED <<redis, config, ev>>

(* ChatCompletions up to the first budget check. *)
Malformed(r) ==
  /\ h[r].pc = "new"
  /\ Answer(r, h[r], 400)
  /\ UNCHANGED <<redis, config, ev>>

ArriveUnbudgeted(r, caller, body) ==
  /\ h[r].pc = "new"
  /\ Resolve(data, caller) = <<>>
  /\ Answer(r, NewHandler(body), 403)
  /\ Emit(r, "rejected", NoAmount)
  /\ UNCHANGED <<redis, config>>

Arrive(r, caller, body) ==
  /\ h[r].pc = "new"
  /\ Resolve(data, caller) # <<>>
  /\ h' = [h EXCEPT ![r] = [NewHandler(body) EXCEPT !.pc = "check",
                                                     !.refs = Resolve(data, caller)]]
  /\ UNCHANGED <<redis, config, ev>>

(* CheckAndDecrement, called for the request and again for an advised      *)
(* retry.  A command is not started once the request context is cancelled. *)
Checking(r) == h[r].pc \in {"check", "retry"} /\ ~h[r].cancelled

Admit(r) ==
  /\ Checking(r)
  /\ E!Reserve(r, h[r].refs, Estimate(h[r].body))
  /\ h' = [h EXCEPT ![r].pc = "upstream"]
  /\ UNCHANGED <<config, ev>>

(* The script denies the request: the advisor is asked, or a retry fails   *)
(* and the original decision is reported.                                  *)
Deny(r) ==
  /\ Checking(r)
  /\ LET dec == Decision(bal, ts, h[r].refs, now, Estimate(h[r].body))
     IN  /\ ~dec.allowed
         /\ \/ /\ h[r].pc = "check"
               /\ h' = [h EXCEPT ![r].pc = "advise", ![r].dec = dec]
               /\ UNCHANGED ev
            \/ h[r].pc = "retry" /\ Reject(r)
  /\ UNCHANGED <<redis, config>>

(* No answer from Redis.  The first check fails closed, and without        *)
(* calling finish; a failed retry is a rejection.                          *)
CheckFails(r) ==
  /\ h[r].cancelled \/ "redis_error" \in Faults
  /\ \/ h[r].pc = "check" /\ Answer(r, h[r], 503) /\ UNCHANGED ev
     \/ h[r].pc = "retry" /\ Reject(r)
  /\ UNCHANGED <<redis, config>>

(* The script ran but its reply was lost; the client library retries it or *)
(* reports an error.                                                       *)
LoseReply(r) ==
  /\ Checking(r)
  /\ E!LoseReply(r, h[r].refs, Estimate(h[r].body))
  /\ UNCHANGED <<config, h, ev>>

(* What AdvisorClient.Advise may return: the answer of the service, which  *)
(* asks an LLM or its mock, or nothing, if the call fails, takes longer    *)
(* than 300 ms or the context is cancelled.  The recent calls matter only  *)
(* to whether the prompts are growing; a failed query counts as none.      *)
recentCalls == BOOLEAN
Answers(hr) ==
  (LLMAnswers \ {Mock}) \cup
  {MockComplete(hr.body.model, Estimate(hr.body)["tokens"], hr.dec.remaining, growing) :
     growing \in IF Mock \in LLMAnswers THEN recentCalls ELSE {}}
Advices(hr) ==
  {<<>>} \cup
  (IF hr.cancelled THEN {}
   ELSE {Received(get_suggestions(hr.body.model, a)) : a \in Answers(hr)})

(* handleBudgetPressure: whatever the advisor says, the policy engine      *)
(* decides, by the figures of the denied check.                            *)
Advise(r, advice) ==
  /\ h[r].pc = "advise"
  /\ LET o == Decide(h[r].body.model, Estimate(h[r].body)["tokens"],
                     h[r].dec.remaining["tokens"], advice)
     IN  \/ o.action = "reject" /\ Reject(r)
         \/ /\ o.action = "retry_with_model"
            /\ h' = [h EXCEPT ![r].pc = "retry", ![r].label = "advised_retry",
                              ![r].body.model = o.model]
            /\ UNCHANGED ev
         \/ /\ o.action = "partial_allowance"
            /\ h' = [h EXCEPT ![r].pc = "retry", ![r].label = "advised_retry",
                              ![r].body.max = o.max]
            /\ UNCHANGED ev
  /\ UNCHANGED <<redis, config>>

-----------------------------------------------------------------------------
(* The end of the upstream call: Reconcile is called with actual usage act *)
(* and finish will report label and code.                                  *)
Reconcile(r, act, label, code) ==
  /\ h[r].pc = "upstream"
  /\ E!Settle(r, act)
  /\ h' = [h EXCEPT ![r].pc = "settle", ![r].label = label, ![r].code = code,
                    ![r].dead = h[r].cancelled]

(* doDispatch, streamDispatch: the call succeeds. *)
Complete(r, u) ==
  /\ Reconcile(r, Actual(h[r].body, u), h[r].label, 200)
  /\ UNCHANGED <<config, ev>>

(* Mutants of ProviderError: label and reason swapped in the call of       *)
(* finish, and an answer without the refund.                               *)
ProviderErrorMislabelled(r) ==
  /\ Reconcile(r, NoAmount, "upstream_error", 502)
  /\ UNCHANGED <<config, ev>>
ProviderErrorUnrefunded(r) ==
  /\ h[r].pc = "upstream"
  /\ Answer(r, h[r], 502)
  /\ Emit(r, "rejected", NoAmount)
  /\ UNCHANGED <<redis, config>>

(* handleProviderError: an error before anything was sent to the client;   *)
(* the reservation is refunded.  The code 502 stands for every status that *)
(* mapProviderStatus makes of the provider's.                              *)
ProviderError(r) ==
  /\ Reconcile(r, NoAmount, "rejected", 502)
  /\ UNCHANGED <<config, ev>>

(* streamDispatch: the stream fails, or ends without the terminal chunk    *)
(* that carries the usage, after output was sent to the client.            *)
StreamBreaks(r) ==
  /\ h[r].body.stream
  /\ Reconcile(r, NoAmount, h[r].label, 200)
  /\ UNCHANGED <<config, ev>>

(* The pipeline of Reconcile is executed, answered, sent again, or fails.  *)
Apply(r) ==
  /\ h[r].pc \in {"settle", "crashed"} /\ ~h[r].dead
  /\ E!Increment(r)
  /\ UNCHANGED <<config, h, ev>>

Applied(r) ==
  /\ h[r].pc = "settle"
  /\ E!Settled(r)
  /\ UNCHANGED <<config, h, ev>>

Resend(r) ==
  /\ h[r].pc = "settle" /\ ~h[r].dead
  /\ E!Replay(r)
  /\ UNCHANGED <<config, h, ev>>

(* A cancelled context keeps the pipeline from being started. *)
GiveUp(r) ==
  /\ h[r].pc = "settle"
  /\ \/ "redis_error" \in Faults
     \/ /\ h[r].cancelled
        /\ resv[r].todo = Commands(resv[r].refs, resv[r].est, resv[r].act)
  /\ E!Abandon(r)
  /\ UNCHANGED <<config, h, ev>>

(* Mutants of Finish: the event reports the estimate, and a failed         *)
(* Reconcile is waited for until it succeeds.                              *)
FinishEstimated(r) ==
  /\ h[r].pc = "settle"
  /\ resv[r].st \in {"settled", "abandoned"}
  /\ Answer(r, h[r], h[r].code)
  /\ Emit(r, h[r].label, resv[r].est)
  /\ UNCHANGED <<redis, config>>
FinishWhenSettled(r) ==
  /\ h[r].pc = "settle"
  /\ resv[r].st = "settled"
  /\ Answer(r, h[r], h[r].code)
  /\ Emit(r, h[r].label, resv[r].act)
  /\ UNCHANGED <<redis, config>>

(* Reconcile has returned, with or without an error: finish, and the       *)
(* response.                                                               *)
Finish(r) ==
  /\ h[r].pc = "settle"
  /\ resv[r].st \in {"settled", "abandoned"}
  /\ Answer(r, h[r], h[r].code)
  /\ Emit(r, h[r].label, resv[r].act)
  /\ UNCHANGED <<redis, config>>

-----------------------------------------------------------------------------
Cancel(r) ==
  /\ "cancel" \in Faults
  /\ h[r].pc \notin {"new", "done", "crashed"} /\ ~h[r].cancelled
  /\ h' = [h EXCEPT ![r].cancelled = TRUE]
  /\ UNCHANGED <<redis, config, ev>>

Crash(r) ==
  /\ "crash" \in Faults
  /\ h[r].pc \notin {"new", "done", "crashed"}
  /\ h' = [h EXCEPT ![r].pc = "crashed"]
  /\ UNCHANGED <<redis, config, ev>>

(* The control plane changes the table; the cache reloads it. *)
SaveBudget ==
  /\ table' \in Tables \ {table}
  /\ UNCHANGED <<redis, data, h, ev>>

(* Mutant of Refresh: a reload starts the buckets afresh. *)
RefreshReseeds ==
  /\ data' = Load(table)
  /\ bal' = [key \in Key |-> [d \in Dim |-> Nil]]
  /\ UNCHANGED <<ts, now, resv, uptime, spent, unchecked, born, faults, table, h, ev>>

Refresh ==
  /\ data' = Load(table)
  /\ UNCHANGED <<redis, table, h, ev>>

(* Redis' clock and its faults. *)
Server ==
  /\ E!Tick \/ E!Flush \/ E!StepBack
  /\ UNCHANGED <<config, h, ev>>

(* What the handler of r does by itself, given answers. *)
Step(r) ==
  \/ Admit(r) \/ Deny(r) \/ CheckFails(r)
  \/ \E advice \in Advices(h[r]) : Advise(r, advice)
  \/ \E u \in Usages : Complete(r, u)
  \/ ProviderError(r)
  \/ Apply(r) \/ Applied(r) \/ GiveUp(r) \/ Finish(r)

Next ==
  \/ \E r \in Req :
       \/ Unauthorized(r) \/ Malformed(r)
       \/ \E c \in Callers, b \in Bodies : ArriveUnbudgeted(r, c, b) \/ Arrive(r, c, b)
       \/ Step(r)
       \/ StreamBreaks(r) \/ LoseReply(r) \/ Resend(r) \/ Cancel(r) \/ Crash(r)
  \/ SaveBudget
  \/ Refresh
  \/ Server

Spec == Init /\ [][Next]_vars

(* Redis and the providers answer or time out (the clients have deadlines  *)
(* of a few seconds, 300 ms and 60 s), so no handler waits for ever.       *)
FairSpec == Spec /\ \A r \in Req : WF_vars(Step(r))

-----------------------------------------------------------------------------
TypeOK ==
  /\ E!TypeOK
  /\ table \in Tables
  /\ data \in AllSnapshots
  /\ h \in [Req -> Handler]
  /\ ev \in [Req -> [label : {"none", "allowed", "advised_retry", "rejected"},
                     cost : AllActuals]]

(* The handler is a client of the enforcer as Enforcer describes it: the   *)
(* buckets change only by checks, settlements and Redis itself, whatever   *)
(* the advisor says and whenever clients leave, processes die, the clock   *)
(* ticks or limits are changed.  What is proved of Enforcer therefore      *)
(* holds for the gateway.                                                  *)
Implements == E!Spec

(* A call goes upstream only under a reservation, still held in full, for  *)
(* what the request - after any change the policy engine made to it - may  *)
(* really use: in particular no request gets through on an estimate that   *)
(* wrapped around (handler.go:141, checkAndDecrement.lua:45).              *)
BackedDispatch ==
  \A r \in Req : h[r].pc = "upstream" =>
    /\ resv[r].st = "held"
    /\ resv[r].refs = h[r].refs
    /\ resv[r].est["tokens"] = h[r].body.in + OutTokens(h[r].body)
    /\ resv[r].est["usd"] = CostUSD(h[r].body.model, h[r].body.in, 0, OutTokens(h[r].body))

(* What the advisor's service hands on is fit for the policy engine,       *)
(* whatever the LLM says: at most three suggestions, of different types,   *)
(* each with what it suggests, and only switches to models that the        *)
(* gateway, by its own rule and its own table, takes for cheaper           *)
(* (schemas.py, policy.py, pricing.py against pricing.go).                 *)
AdviceFit ==
  \A r \in Req : h[r].pc = "advise" =>
    \A advice \in Advices(h[r]) :
      /\ Len(advice) <= 3
      /\ \A i, j \in DOMAIN advice : advice[i].type = advice[j].type => i = j
      /\ \A i \in DOMAIN advice :
           CASE advice[i].type = "switch_model" ->
                  advice[i].model \in CheaperAlternatives(h[r].asked.model)
             [] advice[i].type = "reduce_max_tokens" -> advice[i].max > 0
             [] OTHER -> TRUE

(* Advice changes one thing in a request at most: its model, to a cheaper  *)
(* one of the family, or its output limit, to what the denied check left   *)
(* in the bucket and below what the request had been estimated at; and the *)
(* spend event says so (handler.go:200-234, policy.go:105-172).            *)
AdvisedChange ==
  \A r \in Req : h[r].body # h[r].asked =>
    /\ \/ /\ h[r].body.model \in CheaperAlternatives(h[r].asked.model)
          /\ h[r].body = [h[r].asked EXCEPT !.model = h[r].body.model]
       \/ /\ h[r].body.max \in MinAllowance .. h[r].dec.remaining["tokens"]
          /\ h[r].body.max < Estimate(h[r].asked)["tokens"]
          /\ h[r].body = [h[r].asked EXCEPT !.max = h[r].body.max]
    /\ ev[r].label \in {"none", "advised_retry", "rejected"}

(* A request that has been answered holds nothing back: its reservation    *)
(* was either never made or settled in every scope (no faults).            *)
NothingStranded ==
  \A r \in Req : h[r].pc = "done" => resv[r].st \in {"free", "settled"}

(* When no request is in progress, what is missing from a bucket is what   *)
(* the spend events of its requests say, in every dimension that was       *)
(* enforced when they were checked: the two ledgers, Redis and Postgres,   *)
(* agree, as long as no reply is lost, no settlement fails and no bucket   *)
(* expires (both are fed by the end of doDispatch and streamDispatch).     *)
Charged(r, key, d) ==
  IF key \notin KeysOf(resv[r].refs) THEN 0
  ELSE IF Enforced(RefOf(resv[r].refs, key), d) THEN ev[r].cost[d] ELSE resv[r].est[d]

LedgersAgree ==
  faults = 0 /\ (\A r \in Req : h[r].pc \in {"new", "done"} /\ resv[r].st # "abandoned") =>
    \A key \in Key, d \in Dim : born[key] = 0 =>
      spent[key][d] = SumFunction([r \in Req |-> Charged(r, key, d)])

(* Every request that has begun is eventually answered. *)
Answered ==
  \A r \in Req : h[r].pc = "check" ~> h[r].pc \in {"done", "crashed"}

-----------------------------------------------------------------------------
(* What the repository says, and the code does not do. *)

(* "The call never reached (or never completed enough to bill against) the *)
(* provider successfully: refund the full reservation" (handler.go:338).   *)
RefundedOnError ==
  \A r \in Req : h[r].pc = "done" /\ h[r].code = 502 => resv[r].st = "settled"

(* "This is different from a *configured* budget of 0, which would         *)
(* enforce/reject normally via the Lua script." (handler.go:130)           *)
ZeroBudgetRejects ==
  \A r \in Req, id \in DOMAIN table :
    h[r].pc = "upstream" /\ BucketOf(id) \in KeysOf(h[r].refs) =>
      table[id].token_limit # 0 /\ table[id].dollar_limit # 0

=============================================================================
