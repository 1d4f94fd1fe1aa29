# Budget Governor in TLA+

A verification development for Budget Governor, the gateway that enforces
token and dollar budgets on LLM calls. TLA+ modules model the parts that decide
and account, TLC checks them on small instances, and TLAPS proves the central
guarantees for every instance. `PROJECT.json` is the machine-readable index:
components, runs, mutants, the map from definitions to source lines, findings,
hazards and theorems.

## 1. The system

| Component | State it keeps | Operations | Talks to |
|---|---|---|---|
| Budget enforcer (`budget/bucket.go`, `checkAndDecrement.lua`) | one Redis hash per task, agent or tenant bucket: remaining tokens, remaining dollars, time of the last refill, a lifetime | `CheckAndDecrement` (one atomic script over all buckets of a request), `Reconcile` (a plain pipeline of increments) | Redis |
| Configuration cache (`budget/configcache.go`) | snapshot of the `budgets` table | `Refresh`, `Resolve` | Postgres |
| Pricing and policy engine (`provider/pricing.go`, `policy/policy.go`) | none | `CostUSD`, `CheaperAlternatives`, `Decide` | - |
| Request handler (`proxy/handler.go`, `stream.go`) | one goroutine per request | `ChatCompletions`, `handleBudgetPressure`, `doDispatch`, `streamDispatch`, `handleProviderError`, `finish` | all of the above, advisor, providers, spend writer |
| Spend writer (`proxy/spend_writer.go`) | a bounded channel, the batch being collected | `Enqueue`, `Run`, `drainRemaining`, `writeBatch` | handlers, Postgres |
| Request log (`observability/logging.go`) | a bounded channel | `Log`, `Run`, `drain` | handlers, stdout |
| Start and shutdown (`cmd/gateway/main.go`) | the phase of `main`, one context for all goroutines | the waits for Postgres and Redis, the loads, the signal, `Shutdown` | all of the above |
| API key cache (`auth/auth.go`) | key -> identity and expiry | `Authenticate`, `evictExpired` | Postgres |
| Reconciliation job (`reconciliation/job.py`, `scheduler.py`) | tables `reconciliation_runs`, `reconciliation_drift` | `run_once`, `run_from_db`, `persist_result` | Postgres, provider cost APIs |
| Provider adapters (`provider/openai.go`, `anthropic.go`, `mock.go`) with `sseChunkWriter` | per call: the counts seen so far, whether anything was sent, the final usage | `Complete`, `Stream`, `Write` | the providers, the client |
| Advisor service (`advisor/app`, `providers/pricing.py`) and its client (`proxy/advisor_client.go`) | none | `get_suggestions`, `parse_llm_output`, `apply_guardrails`, `Advise` | an LLM or its mock, the handler |
| Control plane (`controlplane/app/api`) | tables `agents`, `api_keys`, `budgets` | `create_agent`, `upsert_budget` and reading endpoints, one database session per request | Postgres, and through it the configuration cache |
| Metrics, configuration, token estimation, migrations | see section 7 | | |

A request is authenticated, its buckets are resolved from the cached
configuration, an estimate of its cost is reserved in all of them by the
script, the provider is called, and the reservation is settled against the
actual usage. A denied request goes to the advisor; the policy engine may turn
a suggestion into one retry with a cheaper model or fewer output tokens. Every
outcome ends in `finish`, which hands a line to the request log and an event to
the spend writer. The
reconciliation job compares those events with the providers' bills.

**What is hard about it.** Requests of one tenant race on the same buckets, and
the settlement is *not* atomic as the check is. Redis can lose a reply, execute
half a pipeline, lose its data or step its clock; keys expire between check and
settlement. Limits are edited while requests hold reservations against the old
ones. Clients leave, which cancels the context that settlement and refund run on,
or stop reading, which nothing limits. The channel of the spend writer overflows,
its inserts fail, and the shutdown stops it before the handlers that feed it.
Revocation races with the key cache. The inserts of a reconciliation run fail one
by one. Requests to the control plane interleave at every await, and NULLs escape
its UNIQUE constraint. An LLM may answer anything. `PROJECT.json` lists these
hazards at their lines with the properties aimed at each.

**What makes each part correct.** Enforcer: no more is taken from a bucket than
limit and refill justify, nothing leaks, a failure costs at most what a call used
above its estimate. Handler: a
call goes upstream only under a full reservation, and every answered request is
settled and recorded. Spend writer: each event is written at most once, in
order, and accounted for. Key cache: revocation takes effect within a bound.
Reconciliation: incidents are true and complete, and every day is looked at.
Control plane: registering is all or nothing, a row is what was posted, and the
gateway comes to enforce it. Advisor: nothing an LLM says changes more in a
request than one field, within what the gateway itself verifies. Process: every
start and every shutdown ends, and a shutdown flushes what it finds.

## 2. Modules

```
BudgetBucket -> Enforcer -> MCEnforcer, EnforcerProofs
     |             | INSTANCE in Gateway    | INSTANCE in GatewayProofs
     v             v                        v
ConfigCache -> Advisor -> Gateway -> MCGateway, GatewayProofs
PolicyEngine -----^

SpendWriter -> GatewayProcess <- RequestLog (INSTANCE)
                     \-> ProcessProofs
AuthCache      -> AuthCacheProofs
ProviderStream -> ProviderStreamProofs
ControlPlane   -> MCControlPlane, ControlPlaneProofs
Reconciliation -> MCReconciliation, ReconciliationProofs
FoldProofs     -> EnforcerProofs, GatewayProofs
```

- **BudgetBucket** - the arithmetic of a bucket as pure operators: the three
  phases of the script (`Refilled`, `Lacks`, `Debited`, `Stamped`), the reply
  (`Decision`, with the truncation Redis applies to returned numbers), and the
  commands of `Reconcile` (`Delta`, `Commands`).
- **Enforcer** - the abstract specification of budget enforcement. Its state is
  the hashes (`bal`, `ts`), Redis' clock, and one reservation per request
  (`resv`). `Reserve` is a positive `CheckAndDecrement`; a negative one changes
  nothing. `Settle` fills the pipeline, `Increment` executes *one* HINCRBYFLOAT
  of it, `Settled` returns. `Tick` expires keys. `LoseReply`, `Replay`,
  `Abandon`, `Flush` and `StepBack` are what can go wrong. History variables
  keep the account of each bucket (`spent`, `unchecked`, `born`, `uptime`); what
  happens to a bucket does not depend on them. `Accounted` is the other side of
  that account, the sum of what the requests stand for; `Usage` is what they have
  used, and `Unbilled` the part above the estimate whose increment has not been
  executed. Its clients are the most general ones, any reference list,
  any estimate and any actual usage at any time.
- **ConfigCache**, **PolicyEngine** - pure operators, translated from the
  functions of the same names.
- **Advisor** - the advisor service and the gateway's client of it, as pure
  operators named as in the code: what an LLM answers is validated, filtered and
  decoded. `cheaper_alternatives` is the service's own copy of the rule that
  PolicyEngine has as `CheaperAlternatives`.
- **Gateway** - the request handler, composed with Advisor: `Advices(h[r])` is
  all that the advisor may return for a denied request. `h[r]` is the program counter and the
  locals of one request; its steps are the points where the code waits for
  Redis, the advisor or a provider. The steps on Redis are Enforcer's, through
  `E == INSTANCE Enforcer`. The budgets table (`table`), the cached snapshot
  (`data`) and the spend events (`ev`) complete the state. `SaveBudget` and
  `Refresh` change limits under requests in flight; `Cancel` is a client that
  leaves, `Crash` a process that dies.
- **ProviderStream** - one streamed call, event by event: the loops of the three
  adapters, the writer, and what `streamDispatch` concludes: usage, cost and
  whether the settlement is executed, which it may not be for a client that has
  left (`Leave`). `Block` is a client that does not read: `Write` waits until it
  reads or leaves. It justifies what
  Gateway takes as given of an upstream call: a full usage (`Complete`), an
  error before anything was sent (`ProviderError`), or a usage of zero
  (`StreamBreaks`).
- **SpendWriter**, **RequestLog** - channel, batch and table of the one, channel
  and output of the other. An INSERT that returns an error may have been
  committed. A line of the log whose write fails (`Unwritten`), or that is in the
  channel when the process ends (`Vanish`), is lost without being counted
  (`loglost`).
- **GatewayProcess** - `main`: the phases of a start (`Wait`, `Load`,
  `LoadFails`, `ListenFails`), handlers that call `Log` and then `Enqueue` as two
  steps, the signal that stops both goroutines at once, and the end.
- **ControlPlane** - `create_agent` and `upsert_budget`, one action per awaited
  statement, each session at a step of its own; Postgres' rules on unique keys
  and foreign keys; connections lost before or after a commit; the gateway's
  reload, whose cache keys have "" for NULL.
- **AuthCache** - lookup and store as two steps, with concurrent requests,
  eviction and revocation.
- **Reconciliation** - one action per awaited statement of the job.
- **FoldProofs** - not a model: lemmas about what a fold over a finite set or a
  list computes, which the accounts of the buckets and the filters of the
  advisor are.

Each `MC` module gives a specification small sets. ProviderStream, GatewayProcess and AuthCache need
no definitions for TLC and are run directly. Operators marked *Mutant of* are
deliberately wrong variants of the definition that follows; no specification
uses them. Each property is checked to fail when one of them is put in place.

## 3. Runs

Passing:

| Run | Properties | What it shows |
|---|---|---|
| `enforcer_ledger` | `Ledger`, `NeverUndercharged`, `NothingDestroyed` | three requests, nested buckets: every unit missing from a bucket belongs to exactly one request even while pipelines are half executed, and what is not spent comes back; whatever replies are lost and pipelines abandoned, all that is used is charged, except for what exceeds the estimate of a request whose increment is not executed |
| `enforcer_faults` | `TypeOK`, `NoOverspend`, `SpendBound`, `IInv` | the guarantee with two faults of five kinds, expiry, an edited limit, an estimate that wrapped around |
| `gateway_serve` | `TypeOK`, `BackedDispatch`, `AdviceFit`, `AdvisedChange`, `NothingStranded`, `LedgersAgree`, `Implements` | the handler end to end, with an LLM that says anything and an edit of the table: advice is fit and changes one field at most, and every step is a step of Enforcer or leaves the buckets alone |
| `gateway_faults` | `Implements`, `Answered` | the same with cancelled requests, dying processes and faults of Redis; every checked request that is not streamed is answered |
| `stream_calls` | `TypeOK`, `ChargedWhole`, `OneResponse`, `Settled` | a stream of each provider that ends, breaks or fails at any event is settled for nothing, or for the usage of `Complete` at its cost plus the discount on cached input; the settlement fails only for a client that has left; the client gets one response; the handler gets to its end unless the client neither reads nor leaves |
| `spend_events` | `TypeOK`, `InOrder`, `Conserved`, `LogAccounted`, `BufferedKept`, `EventuallyWritten`, `StartEnds`, `SignalEnds` | a process from start to end: one fate for each spend event and log line under overflow, failing inserts (also such as have been committed), failing writes, shutdown and crash; what is buffered at the signal is taken out and handed to a write; every start and every signal comes to an end |
| `control_requests` | `TypeOK`, `AgentsWhole`, `RowsAsPosted`, `EditEnforced`, `Served` | three concurrent requests and a lost connection: agents and keys are created together, a row is what was posted last or, after a race, a mixture of what was posted, the gateway comes to enforce an upsert that stands and whose row shares its cache key with no other, and no request waits for ever |
| `auth_safe` | `TypeOK`, `RevocationBound`, `IInv` | revocation takes effect within ttl plus one lookup |
| `recon_runs` | `TypeOK`, `IncidentsTruthful`, `IncidentsComplete`, `EveryDayReconciled` | incidents under failing statements and restarts; every window gets a row |

Violations. Each states what a comment or a document of the repository says,
and TLC's counterexample is what the code does; `findings` quotes the lines.

| Run | Property | The code |
|---|---|---|
| `gateway_refund` | `RefundedOnError` | the refund runs on the context of a client that has left, and does not start |
| `gateway_zero` | `ZeroBudgetRejects` | a budget of 0 is no limit: the script enforces only limits above 0 |
| `control_rows` | `OneRowPerScope` | two concurrent upserts both find no row and both insert one, NULLs being distinct to UNIQUE |

Further differences between documents or comments and the code. The models
follow the code; these have no run of their own.

- A budget in dollars only refills its whole limit per minute
  (`configcache.go:98`), where `configcache.go:20` has "refill rate, same unit as
  TokenLimit/DollarLimit as applicable".
- The spend writer stops at the signal, before the handlers do
  (`main.go:136-142`), where `spend_writer.go:73` has "a graceful shutdown doesn't
  lose buffered events". `BufferedKept` is the part of it that holds: nothing
  that was in the channel or the batch at the signal is left there, what handlers
  enqueue later may be. It does not say that the last INSERT succeeds: above 5957
  rows (`spend_writer.go:107-116`) it has too many parameters, and all are lost.
- The same goes for the log, where `logging.go:65` has "a graceful shutdown
  doesn't lose in-flight logs": a line that comes after the drain is lost with the
  process, uncounted (`logging.go:78-87`). So is one whose write fails at any time
  (`logging.go:98-102`).
- The next scheduled reconciliation takes the next day's window (`job.py:242`),
  where `docs/ARCHITECTURE.md:131` has a failed run "is retried on the next
  scheduled invocation".
- The mock LLM takes the last three of `recent_calls` for the newest
  (`llm_client.py:129`); `recentCalls` sends the newest first
  (`handler.go:262`), so a shrinking prompt counts as growing.
- `schemas.py:43` counts "an unrecognized field" as a validation failure; the
  models of pydantic ignore unknown fields unless told otherwise.
- `Reconcile` (`bucket.go:235`) issues no EXPIRE, so on an expired key it
  creates one without a lifetime (`checkAndDecrement.lua:24-25`: "EXPIRE applied
  to touched bucket keys").
- The 503 of an unavailable budget backend (`handler.go:146-150`) is answered
  without `finish`, which is "common to every terminal outcome"
  (`handler.go:381`).
- A stream that breaks before its terminal chunk is settled for a usage of zero,
  which refunds it in full (`stream.go:124-128`), where `docs/ARCHITECTURE.md:129`
  has "tokens observed so far are charged". If the client has left by then, the
  settlement runs on its cancelled context and fails, and the estimate stays
  charged, also for a stream that was complete.
- `streamDispatch` "mirrors doDispatch's non-streaming path" (`stream.go:97`)
  but prices with no cached input tokens (`stream.go:127`); `Complete` of both
  providers passes them (`openai.go:165`, `anthropic.go:161`). `ChargedWhole`
  states the difference: the discount on cached input.
- A usage above the estimate decreases the balance further "rather than silently
  under-billing this one" (`bucket.go:225`). If the pipeline fails, the error is
  logged (`handler.go:308`, `stream.go:128`) and the excess is never charged;
  `NeverUndercharged` bounds the loss by that excess.
- The http.Server (`main.go:117`) has no WriteTimeout: a client that stops
  reading a stream keeps its handler and its reservation as long as it keeps the
  connection.
- On overflow the newest event is dropped (`spend_writer.go:63`), where
  `docs/ARCHITECTURE.md:128` has "oldest events are dropped". A batch whose
  INSERT fails (`spend_writer.go:84`) is discarded and not counted.
- An entry's lifetime starts when it is stored (`auth.go:118`), not when its row
  was read, so a revoked key is served past ttl (`auth.go:179`) by up to one
  lookup. `RevocationBound` is the bound that holds.
- `persist_result` (`job.py:180-212`) inserts without a transaction: a run
  marked completed can miss incidents, where `docs/ARCHITECTURE.md:131` has
  "rather than partially reconciling".
- There is no circuit breaker, no retry of a provider call and no
  last-known-good fallback of the key cache (`docs/ARCHITECTURE.md:127-129`).

`Ledger`, `NeverUndercharged`, `NothingDestroyed` and `LedgersAgree` are about
the first life of a bucket (`born[k] = 0`). When a key expires, or Redis loses
it, the bucket is created afresh with a full balance while requests charged to
the old one may still be settled, and no account of it can add up. `SpendBound`
is what holds of every life.

### Bounds

- *Enforcer*: one agent bucket under one tenant bucket, so that a request
  touches one or both; two or three requests, the least with which a pipeline
  can be interleaved with a check *and* another pipeline. Limits of 2 to 4
  tokens with estimates of 1 and 2 make the last unit contended. Two ticks
  (`MaxUptime`) give a refill, the cap and, with `TTL = 2`, an expiry. Two
  faults (`MaxFaults`) combine any two kinds. `Abandon` is not counted: it ends
  a reservation, so it cannot repeat for ever.
- *Gateway*: two requests; three bodies (plain, streamed, one whose estimate
  wraps around with `MaxInt = 7`); two tables that differ in which scopes exist
  and which dimensions are enforced; two prices of which the cheaper model has
  the dearer input, as between gpt-4.1 and gpt-5; nine answers of an LLM, among
  them none, one that cannot be read, too many suggestions, wrong values, good
  ones behind wrong ones, and the mock's. `gateway_faults` keeps one caller, one
  body, token limits only and no advice so that faults can be added.
- *ProviderStream*: every bill with counts up to 2 (so that a count that is
  dropped or added twice shows), up to two pieces of content, a line to be
  skipped, two `message_delta` events, an error event at every place; prices of 3,
  1 and 5 for input, cached input and output, so that a count in the wrong place
  shows in the cost.
- *GatewayProcess*: three requests, capacity 2, batches of 2, 2 rows per INSERT:
  a drain (capacity plus a batch begun) can exceed what one INSERT takes, as
  50000 exceeds 5957; three events fill the channel and overflow it. The log
  holds one line; of three lines the write of the second fails (`Unwritten`).
  Two pings stand for thirty.
- *ControlPlane*: three sessions, so that two can race on the agent, or on the
  row, that the third creates; a name two can want; scopes with a NULL task, with
  an empty one, and with both ids; four combinations of limits, of which three
  differ in one column or both; one lost connection (`MaxLost`).
- *AuthCache*: two requests, two keys, `TTL = 2`, lookups of up to 2 ticks.
- *Reconciliation*: three tenants, three windows with drift in both directions,
  a difference exactly at the threshold, nothing reported, nothing spent.
- Requests, and with them their reservations, are symmetric, and runs of
  invariants alone use that; runs with a temporal property do not.
- Deadlock is checked for Gateway and AuthCache, which never run out of work.
  Enforcer, ProviderStream, GatewayProcess, ControlPlane and Reconciliation do
  a bounded amount and stop.

### Fairness

`Gateway!FairSpec` has weak fairness of what each handler does by itself (`Step`).
It stands for Redis, advisor and providers answering *or* timing out: the provider
clients have a timeout of 60 s, the advisor is called with 300 ms, and go-redis
bounds dial, read and write. `gateway_faults` has bodies that are not streamed, so
`Answered` says nothing of a handler that writes to a client which does not read.
`ProviderStream!FairSpec` rests on the same 60 s, which also cover the reading of
the body. They do not cover `Write`: while it waits for a client that is still
connected nothing is assumed, and `Settled` has the hypothesis that the client
reads on or leaves. `GatewayProcess!FairSpec` assumes that the goroutines are
scheduled, the ticker fires, inserts and writes of the log return (their context
has no deadline), and `main` takes its next step. The waits after the signal are
bounded by the code (10 s for the handlers, 0.5 s of sleep); of the start only the
number of pings is (30 per dependency, 2 s apart), as `PingContext` and the first
`Refresh` have no deadline of their own: that they return is an assumption.
Handlers are not assumed to end, and requests and faults not to happen.
`ControlPlane!FairSpec` assumes that statements return and that reloads succeed
again and again; a reload that fails is a stuttering step.
`Reconciliation!FairSpec` assumes that the scheduler fires, calls return, and days
pass.

## 4. Proofs

The `...Proofs` modules are checked by TLAPS. Each defines the inductive
invariant of its component, proves that the initial states satisfy it and that
every action keeps it (one lemma per action or group of actions), and draws the
properties of section 3 from it. Every invariant of a passing run is stated by
a theorem. What is proved holds for every value of the
constants that the named assumptions allow.

| Module | Theorems | Properties they state |
|---|---|---|
| `EnforcerProofs` | `Inductive`, `TypeCorrect`, `NeverOverdrawn`, `SpendingBounded`, `LedgerKept`, `NoFreeCall`, `BudgetConserved` | `IInv`, `TypeOK`, `NoOverspend`, `SpendBound`, `Ledger`, `NeverUndercharged`, `NothingDestroyed` |
| `GatewayProofs` | `GatewayInductive`, `HandlerImplementsEnforcer`, `GatewayNeverOverdrawn`, `GatewayTypeCorrect`, `DispatchBacked`, `AdviceAlwaysFit`, `AdviceBounded`, `AnsweredHoldsNothing`, `AnswerFinal`, `BooksAgree`, `GatewayNoFreeCall`, `GatewayConserves` | `Implements`, `E!NoOverspend` and `E!SpendBound`, `TypeOK`, `BackedDispatch`, `AdviceFit`, `AdvisedChange`, `NothingStranded`, `LedgersAgree`, `E!NeverUndercharged`, `E!NothingDestroyed` |
| `ProcessProofs` | `ProcessInductive`, `ProcessTypeCorrect`, `EventsInOrder`, `EventsConserved`, `LinesAccounted`, `NothingLeftBehind` | `TypeOK`, `InOrder`, `Conserved`, `LogAccounted`, `BufferedKept` |
| `ProviderStreamProofs` | `StreamInductive`, `StreamTypeCorrect`, `StreamCharged`, `StreamOneResponse` | `TypeOK`, `ChargedWhole`, `OneResponse` |
| `ControlPlaneProofs` | `ControlPlaneInductive`, `ControlPlaneTypeCorrect`, `RegistrationAtomic`, `RowsHoldPosts` | `TypeOK`, `AgentsWhole`, `RowsAsPosted` |
| `ReconciliationProofs` | `ReconciliationInductive`, `ReconciliationTypeCorrect`, `NoFalseIncident`, `NoMissingIncident` | `TypeOK`, `IncidentsTruthful`, `IncidentsComplete` |
| `AuthCacheProofs` | `Inductive`, `CacheTypeCorrect`, `RevocationTakesEffect` | `IInv`, `TypeOK`, `RevocationBound` |
| `FoldProofs` | lemmas on `SumFunction` and `FoldLeft` | - |

### Assumptions

- *Enforcer* (`BucketAssumption`, `EnforcerAssumption`): amounts are integers;
  limits, rates and actual usages are naturals; the keys of one list are
  distinct (they belong to different scopes); `Cap` and `Rate` bound the limits
  and rates of every list, which is what "the budget" means when it is edited.
- *Gateway* (`GatewayAssumption`, `ConfigAssumption`, `PolicyAssumption`,
  `AdvisorAssumption`): the numbers of a body are ints of the build; `Cap` and
  `Rate` bound what the tables hold; prices are naturals; no row of the budgets
  table is for an agent or a task called "-". The control plane does not refuse
  such a row, but `Key` (`bucket.go:80`) fills the place of a missing id with "-",
  so its bucket would be that of the next wider scope and the script would debit
  it twice. What callers send as ids is not restricted. An answer of the LLM that
  can be read is a list of records of the right shape (`LLMSuggestion`), of any
  length and with any values; one that is not fails in `parse_llm_output` as one
  that is not JSON does, and is `Unparsable`. That the handler's reference
  lists, estimates and usages satisfy *EnforcerAssumption* is not assumed but
  proved (`FitClient`).
- *AnsweredHoldsNothing* has the hypothesis that `"abandon"` is not among the
  faults. It is needed: a pipeline that fails is logged and forgotten
  (`handler.go`), and its reservation stays. Every other fault, cancellation and
  crash is allowed.
- *LedgerKept*, *BooksAgree* and the theorems on `NeverUndercharged` and
  `NothingDestroyed` have the hypothesis that `Req` is finite: a sum over an
  infinite set means nothing. No bound on its size is needed.
- *NoFreeCall*, *BudgetConserved*, *GatewayNoFreeCall* and *GatewayConserves* have
  the hypothesis that `"replay"` and `"flush"` are not among the faults. Both are
  needed: a pipeline that is sent again refunds twice (`bucket.go:241`), and a
  flush before the first tick starts the accounts afresh in the same instant.
  Lost replies, failed pipelines, steps of the clock, expiry, cancellations and
  crashes are allowed.
- *BudgetConserved* has the hypothesis that a bucket has one limit, and
  *GatewayConserves* that there is one version of the table, from which the
  former follows (`OneLimit`: rows of a table have different keys). A limit that
  is lowered takes budget away, as it should.
- The others: capacities, batch sizes and numbers of attempts are positive; ids
  the control plane gives out differ from NULL and ""; observed and reported
  costs are naturals and the threshold is a percentage below 100.

TLC evaluates all of them on every run.

### The inductive invariants

**Enforcer.** `SpendBound` alone is not inductive: from an arbitrary balance a
check may admit anything. What carries the induction is `Backed` (a balance, plus
what was taken, plus what the next check will add for the time since the last
refill, is at most what limit and clock justify; `Elapsed` in it is what makes the
clamp on clock steps and the new timestamp of phase 3 matter), `NoOverspend` (with
`Backed` it yields `SpendBound`), `Untouched` (an absent field has nothing on its
account and a key with a refill time has both fields, which makes an increment on
an expired key harmless) and `TodoOK` (what is left of a pipeline is part of the
pipeline that `Reconcile` fills for its reservation).

**The ledger.** `Excess` is what was taken from a bucket beyond what its requests
account for. `StepExcess` goes through the actions: a check, a settlement and each
single increment move both sides by the same amount, a lost reply moves only the
first, up; so the excess is 0 until a reply is lost and never shrinks unless a
pipeline is sent again. Two facts carry it: an increment is the only one of its
pipeline for its bucket and dimension (keys of a list are distinct), and an
expired bucket has been born again. `NothingDestroyed` follows with one more
invariant, `Present` (a bucket with a reservation exists): a refill cut off at the
limit loses nothing because what was taken is not negative, which follows from
`Covered` (what was taken is at least what the requests account for) and the sum
of naturals. `NeverUndercharged` follows from `Covered` too: what a request has
used is at most what it accounts for plus its `Unbilled` excess (`SumBelow`).

**Folds.** The library's induction theorems take operators, which the provers
cannot instantiate. FoldProofs does without: a non-empty set of naturals has a
least element (from the well-foundedness of <), so a *set* that contains 0 and
successors contains all naturals, so a set of subsets that is closed under adding
the chosen element contains all subsets (`SubsetInduction`). By it the CHOOSE in
the definition of a fold has a solution (`FoldExists`), and what holds of every
step holds of the result: `SumChange` (a sum changes by what one term changes),
`SumBelow` (a sum is bounded if its terms are) and `FilterFold` (a fold that keeps
or skips each element stays in a set of lists and gets no longer). For the same
reason `parse_llm_output` and `apply_guardrails` are written as folds.

**Gateway.** `GInv` is the enforcer's invariant together with `Handlers`: for
each request, `InStep` says of every place in the handler what it has reserved,
which body it will dispatch and what it has reported. The refinement is proved
with it: whether a step of the handler is a step of the enforcer depends on the
reservation being in the state the code takes for granted, which nothing in Redis
enforces. So a step that keeps `InStep` is a step of `E` or leaves Redis alone
(`NextImplements`), a step of `E` keeps the enforcer's invariant (its proof is
instantiated, `P == INSTANCE EnforcerProofs`), and `SpendingBounded` carries over
to the gateway. `AdvisedChange` rests on `DecideFacts`: whatever list arrives,
`Decide` returns a rejection or a change that is acceptable by the gateway's own
figures. `BackedDispatch` needs, besides, that a wrapped estimate is refused in
every enforced dimension. `AdviceFit` is `FilterFold` twice, for the validation and
for the guardrails, then the decoding. `BooksAgree` is `LedgerKept` for the
instance: a request that is done and settled has reported what it was settled for
(`InStep`), so the sum over reservations is the sum over events. `AnswerFinal` is
an action property, by the places of the handler at which each step is possible
and the states its reservation can be in there.

**Process.** `InOrder` and `Conserved` speak of one sequence: written rows, then
the batch, then the channel. The lemmas show that a receive, a flush and a drain
regroup that sequence without changing it, that an enqueue appends to it, and
that overflow and a failing insert move events to the sets of the lost ones. For
the log the end of the process moves the channel there as well (`Vanish`).
`BufferedKept` needs `Counted` (what had been enqueued at the signal is no more
than what has been enqueued now) and `Kept`, which is about the goroutine's exit:
what is still in the channel was put there after the signal.

**Stream.** The properties depend on what providers send, so `Protocol` is proved
first, of every transcript the model knows: nothing but `[DONE]` follows OpenAI's
usage, Anthropic's `message_start` comes first and its last `message_delta` before
`message_stop` has the final count. `Counted` then says that the adapter's
counters are those of the events read so far, `Sent` that the usage the writer
keeps is none or the full one and the client's last piece comes last, `Concluded`
what `streamDispatch` makes of both, in tokens and, by `CostFacts`, in dollars.

**Control plane.** `AgentsWhole` is not inductive because a session between its
INSERT and its COMMIT has nothing in the tables yet: `Reserved` says that it holds
a name nobody else holds or has, which is Postgres' wait on the unique key.
`RowsAsPosted` needs `Traced`: who has written a row is done and so cannot change
what it posted, and a session about to update has found a row of its own scope.

**Reconciliation.** `UnderWay` ties the locals of a run to the tables: the
tenants looked up so far, the results, and the incidents stored so far, at each
awaited statement.

**Key cache.** `EntryBound` is how long an entry can outlive the revocation;
`LookupBound` that a lookup under way read its row before the revocation, at most
`MaxLookup` ago.

### Only model-checked

- Every liveness property (`Answered`, `EventuallyWritten`, `StartEnds`,
  `SignalEnds`, `Settled`, `EditEnforced`, `Served`, `EveryDayReconciled`):
  fairness and ENABLED are beyond the prover. So are the absence of deadlock and
  the three counterexamples of section 3.

## 5. Abstractions

- Amounts are integers in model units; `Unit` says how many make a token or a
  dollar, for the one place where it matters (truncated replies). The rounding
  of Lua's `tostring` (14 digits) and of floats is not modelled.
- One tick is one minute, so a rate per minute is a rate per tick.
- Limits and rates are not negative, as the API's callers set them.
- Models stand for normalized names; a confidence is in percent; messages and
  advisory text are left out. A provider's usage is any of a small set, also
  above the estimate. The status 502 stands for all that `mapProviderStatus`
  returns.
- The two copies of the price table are one constant; the two rules that read it
  are two definitions. An LLM's answer is a list of suggestions, not text.
- The id of a row that the control plane inserts is the session that inserted
  it. Columns other than the two limits behave as these do.
- `SaveBudget` replaces the table by another; a reload that fails is a
  stuttering step.
- go-redis looks at the context before it starts a command; a cancellation
  during one does not undo it.
- `AuthCache!MaxLookup` is an assumption on the environment: the code sets no
  deadline of its own on the lookup.
- The branch of `streamDispatch` for a writer that cannot flush is unreachable
  with gin and left out.

## 6. Plan

Done, in this order: the core (Enforcer, Gateway and what they are made of),
ProviderStream, AuthCache, Reconciliation; the advisor composed with the gateway,
the life of the process with spend writer and request log, and the control plane;
the invariants of all of them as theorems, and the refinement of Enforcer by
Gateway; the ledgers and the advisor's filters, by induction over sums and lists.

Left: the action properties of the other components (a spend event once written
is never changed, a revoked key does not come back into the cache after its
bound) as theorems of their own, and liveness, which needs another prover.

## 7. Not modelled

- The HTTP clients and prompts of a real LLM, and the usage clients of the
  reconciliation job: text in and out; what they return is any of a set.
- `create_tenant` has the shape of `create_agent`. The reading endpoints of the
  control plane and its authentication read rows and keep no state.
- Token estimation is a function of text; an estimate that is too low or too
  high is what Enforcer's unchecked debits and refunds are about.
- Metrics, the readiness probe, environment variables, JSON, migrations and
  seeds, dashboards and load tests are input, output or declarations.
