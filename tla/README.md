# A formal model of the equity research platform

TLA+ modules, TLC configurations and TLAPS proofs about the core logic of the
platform in `src/src/financial_intelligence` (paths below are relative to that
directory).  The models are translated from the code; where the code and a
document, comment or docstring disagree, the model follows the code and the
disagreement is listed under *Findings*.

| file | role |
| --- | --- |
| `WorkflowStatus` | the lifecycle table of a workflow |
| `WorkflowLifecycle` | abstract: what a client is promised about one workflow |
| `WorkflowManager` | request threads over the workflow, checkpoint, memory and notification stores |
| `PlanExecution` | the bounded execution of a plan, with pause, cancel and resume |
| `Startup`, `RequestSafety` | which deployments start and what they are wired to; one HTTP request from the socket to its reply |
| `BoundedHttpClient`, `LlmGateway` | one provider request with its retries; what a model call makes of it |
| `TaskGraph`, `Planning` | validation and order of a task graph; from a research request to a plan |
| `ClaimRules`, `CriticLoop`, `Synthesis` | verification of a claim; the critic cycle around it; from claims to a rendered report |
| `CompanyResolution`, `CompanyRoute` | resolution of a query to one company; its route |
| `ResearchData`, `CompanyFacts` | capability calls over caches, live sources and fixtures; the SEC parser |
| `Watchlist` | lists of companies and the checks that walk them |
| `Ordering` | sorting and filtering by counting, for the modules that sort |
| `WorkflowManagerProofs`, `PlanExecutionProofs`, `RequestSafetyProofs`, `ResearchDataProofs` | theorems about the module they are named after |
| `PlanningProofs` | theorems about `Planning`, the algorithms of `TaskGraph` it uses and the `BoundedHttpClient` it drives |
| `PublicationProofs` | theorems about `CriticLoop` and `Synthesis` |
| `CompanyProofs` | theorems about `CompanyRoute`, `Watchlist` and `CompanyFacts` |
| `Recursion` | induction over numbers, and facts about `Ordering`, for the proofs |
| `MC*.tla`, `*.cfg` | small instances for TLC |

## 1. The system

A FastAPI service.  A question about a company is resolved to one company,
planned (a fixed planner or a language model whose output is validated),
executed task by task under budgets, kept as a workflow that may need approval
and can be paused, resumed and cancelled, and finally verified, synthesised and
reported.  The route handlers are plain functions, so the server runs requests
on a pool of threads; every store is an in-memory dictionary with a lock that
is held for one call only.  Whatever spans two store calls can interleave.

| component | state | operations | talks to | hard behaviour | what makes it correct |
| --- | --- | --- | --- | --- | --- |
| Workflow lifecycle table (`domain/workflow`) | none | transition check, approval decision | used by manager and store | - | final statuses are final |
| Workflow manager (`application/manage_research_workflow`, `create_research_workflow`) | local copies of the record during an operation | create, execute, pause, resume, cancel, approve, reject | all stores, plan execution, company resolution | read-decide-write races, stale copies held for minutes, order of record, memory, checkpoint and notification | approval gate, finality, no orphaned run, truthful answers and notifications, checkpoint not ahead of its record |
| Workflow, memory, notification stores (`infrastructure/{workflow,memory,notification}`) | records by key | save, get, append, publish | - | the check of the stored status is under the lock, the decision is not | transitions and versions checked against what is stored now |
| Plan execution (`application/execute_research_plan`, `domain/orchestration`) | plan, counters, results, round | execute a prepared plan | capability executor, control token | retries against budgets, token written by another thread in two steps, resume from a checkpoint | budgets, dependency order, no success lost or repeated, everything settled, termination |
| Task graph (`domain/orchestration/graph`) | none | validate, order, ready tasks, failure propagation | plan execution, planners | cycles, order of propagation | dependencies first, stable order |
| Planning (`create_research_plan`, planners, `planner_output`, `research_orchestrator`) | none | plan, validate planner output, hand over to a workflow | LLM gateway, workflow manager | an untrusted planner's answer, four checks in a row | only runnable plans, only for a unique company |
| Capability executor, tool calls (`capability_executor`, `tool_call_execution`, `capability_result_adapters`) | none | run a task, run a tool call | snapshots | gates in a row, a status mapped twice | no success without data, nothing fetched for a refused call |
| HTTP client (`infrastructure/http`) | attempts of one request | get, post | providers | retry after a timeout, `Retry-After`, lost answers | attempts and waits bounded, only a lost answer or a server error is followed by a repeat |
| LLM gateway (`infrastructure/llm`) | none | complete | HTTP client | classifying failures, unreadable costs | no failure or paid answer reported as success |
| Settings and composition (`config/settings`, `composition`) | none after start-up | validate, wire, readiness | everything | the same choice made in two places | every deployment that starts works, readiness tells the truth |
| Request safety (`api/middleware`, `security`) | one request's buffer | admit or refuse | routes | streamed bodies, order of middlewares | whole body within the limits, keys and hosts checked |
| Routes (`api/routes`) | none | map requests and results | use cases | exceptions they do not catch become 500 | - |
| Verification (`domain/verification`) | none | status, score and contradictions of a claim; critic | evidence | two dates per reference, thresholds, a budget | status justified by the evidence, doubt never helps |
| Synthesis (`domain/synthesis`, `request_research_synthesis`) | one request's verifications | verify, gate, assemble | verification, company resolution | the clock is read many times, a limited summary | a fact is proven, a disagreement is shown |
| Reports (`infrastructure/reporting`) | none | render | synthesis | three formats | no format loses a side |
| Company identity (`resolve_company`, catalog) | catalog, constant | resolve | - | one text, several companies | one company or none |
| Financial, market, news, industry, regulatory snapshots | caches | snapshot, fallback | providers | fetch outside the lock, expiry, precedence of sources | origin told truthfully, the right company |
| Watchlists (`manage_watchlist`) | watchlists, published checks | create, evaluate | workflows, notifications | overlapping checks, every entry resolved again, a plan that fails beside others | a result for each company of the list, a workflow for each success |
| MCP tools | none | read | snapshots | - | - |

`PROJECT.json` lists every component with its sources and status, and every
hazard at the line where it bites.

## 2. How the modules fit together

```
Startup <- RequestSafety             the edge of the process
BoundedHttpClient, LlmGateway,
TaskGraph <- Planning                from a request to a plan
PlanExecution                        from a plan to results
WorkflowStatus <- WorkflowLifecycle, WorkflowManager      the stored workflow
CompanyResolution <- CompanyRoute, ResearchData, Watchlist
ClaimRules <- CriticLoop, Synthesis  from evidence to a report
Ordering <- Planning, CompanyResolution, CompanyFacts, Synthesis      sorted()
```

An arrow is EXTENDS.  `Planning` composes three modules: the steps of the HTTP client
are steps of the planner that asks a model, so every outcome of the network reaches the
plan.  `PlanExecution` starts from the plans `PlanRunnable` describes, and
`RequestSafety` from the deployments `Startup` lets through.

Parts that share no state are checked in one run without multiplying their states: the
`MC` module has a variable `part`, set in the initial state; a behaviour takes the
steps of that part and leaves the others at one idle state.

**Left in the plan:** `ResumableExecution`, the manager's checkpoints composed with the
engine's counters, for a manual pause that does not reach the running execution (its
abstract specification: one execution whose attempts never exceed the budget);
the filing pipeline and the deduplication of news.

## 3. WorkflowManager

One workflow; store calls are keyed by workflow and none touches two.  `wf` is
the stored record reduced to status, approval, checkpoint version and the
execution its latest checkpoint came from.  Each thread has a location, the
operation it serves, and `copy`, the record it computed from its read and will
write.  One action is one store call with the local computation that leads up
to it:

| action | code |
| --- | --- |
| `Create` | `CreateResearchWorkflow.execute`: record stored as READY or AWAITING_APPROVAL |
| `Begin`, `Read` | `get_workflow`, the operation's checks (`Admits`), and the record it proposes |
| `Commit` | `_commit_or_conflict` and what follows it in each operation |
| `IdentityMismatch` | company resolution no longer gives the workflow's company |
| `FinishRun` | `execute_prepared` returns; the checkpoint is built on the copy held since the start |
| `PersistMemory` | `_persist_memory`, any part of which may fail |
| `CommitResult`, `SaveCheckpoint`, `Notify`, `Resave` | the tail of `_apply_execution_result`, in its order |
| `ExecuteResumed` | `resume` calling `execute`, which reads the record again |
| `Announce` | `_notify` of a cancellation or an identity mismatch |

The two ways `save_workflow` refuses a record are apart because the caller treats
them apart: `WorkflowTransitionError` (`StaleStatus`) becomes a CONFLICT answer,
`WorkflowStoreError` (`StaleVersion`) leaves the operation as an exception, `ERROR`
in `told`.  `lease`, `told` are history variables; nothing reads `told`, and
`lease` only names executions.

A request to pause from inside an execution exists only for an in-process caller
of `execute` that passes a control token; the API passes none and pauses through
the record.  Both are in the model (`Outcomes` holds PAUSED).

`WorkflowLifecycle` is the promise to a client who sees only status and
approval: transitions follow the table, work advances only with the approval
cleared, the final status stays.  It deliberately does not promise the approval
stored beside CANCELLED or FAILED: a canceller that read the record before an
approval writes the old approval back.

## 4. PlanExecution

One run of `execute_prepared` for one plan, and the runs that resume it.  A
turn of the loop is `Round`; the executor call is split into `Call` and `Return` so
that the control token can change while the call is out.  `ApplyCancellation`
is separate from `Round` because the loop reads `is_cancelled` first and `is_pause`
later, and `RequestPause`/`RequestCancel` are separate from `CompleteRequest`
because the token's methods assign the two flags one after the other.  `Doomed` is
the least set closed under the propagation rule, which is where the code's
`while changed` loop ends whatever the order of its iteration (an open task is
visited again until nothing changes, and a settled one is never reopened).

`Resume` is `ManageResearchWorkflow.resume` after a pause that the engine saw: the
checkpoint's plan and counters are where the run stopped.  Runs that another
thread paused through the record are the business of `ResumableExecution` (section 2).

Task identity, evidence, capability names, messages and time are left out.
A result is SUCCESS, PARTIAL, BLOCKED, FAILED or RETRYABLE (a failure the retry
policy accepts); an unavailable capability and a result for another company are FAILED.

## 5. A research request: Startup, RequestSafety, Planning

`Startup` is two functions of a deployment: what the validators of `Settings` let pass
(`Valid`) and what `build_container` wires (`Router`, `MarketSource`, `FinancialSource`,
`Ready`).  `RequestSafety` lets a deployment start and takes one request through it:
`Arrive` is the middleware's look at Host and Content-Length, `Receive` and
`Disconnect` its buffering of the stream, `Route` the correlation and header
middlewares, `require_api_key`, the route and the exception handlers.  A body is the
sequence of its chunks' sizes.

`BoundedHttpClient` is one `get_json` or `post_json`: an attempt on the wire has any
outcome the transport can report; `served` counts the times the provider completed the
request, which the client cannot know when the answer is lost, or when a gateway's or a
server's error comes in its place (`AnswerLost`).  `LlmGateway` maps the
client's answer as `OpenRouterAdapter` does.  `Planning` has the three entries (plan,
workflow, orchestrate) and the four planners; a model's text is reduced to the task list
it states.  `TaskGraph` is written with a function over the rounds where the code loops, and the tie-break by
random UUID is any `Rank` of the tasks.

## 6. Publication: ClaimRules, CriticLoop, Synthesis

`ClaimRules` states classification, score, status, contradictions and the critic as
functions of claim, evidence and time.  Lexical rules are reduced to what they find;
scores are counted in 120ths, which are exact for bundles of up to four references.
`CriticLoop` drives them as the engine's docstrings describe: verify, ask the critic,
research once more.  Its caller is external, since no code of the application calls
`assess_critic` yet.  `Synthesis` is POST `/research/synthesis`: the claims are verified
one by one (`VerifyNextClaim`), the day may change between any two steps (`DayPasses`),
and `Synthesize` admits, gates, labels, orders, assembles and renders.

## 7. Research data: CompanyResolution, ResearchData, CompanyFacts, Watchlist

`CompanyResolution` is the precedence of ticker, alias, name and candidates with the
constraints of country and exchange.  `ResearchData` has request threads that call a
capability by route, by task or by tool: `BeginCall` is everything up to the port
(gates, resolution, listing), `LookUp` and `StoreData` the two sections under the
cache's lock, `Fetch` what happens outside it: live source, fallback, fixture.  `source`
in the data and `stored` are history: no guard reads them.  A cache key holds the whole
question but for the limit of news, which only separates the route's entries
from those of tasks and tools; news has no live source, so they hold the same data.

`CompanyFacts` parses one SEC payload, row by row and tag by tag, into a package or an
exception (`Raised`).  A figure's filing is its own: the code puts figures of several
filings under one `filing_id`, so `PackageIsTraceable` promises of each figure where it
is from and that no row replaces it, and of the filing shown that it is the last
of the income figures'.

`Watchlist` lets the checks of a list overlap.  A list keeps each query as
`WatchlistEntry` normalises it (`Normalized`), and a check resolves it again.  Each entry
is a step of its own, with a result (`CreationResults`): a workflow if its plan is made, a
failure if the planner refuses or fails, which is any entry's at any time here.  Results
are kept in `checks`, then in `answers`; the announcement counts results, so
`MonitoringKeepsCompanies` says of what it is the count and when that is also the
number of workflows.

## 8. Runs

| run | instance | properties |
| --- | --- | --- |
| `workflow_safety` | 3 threads (symmetric), 1 task, `MaxVersion` = 1 | type, approval gate, no orphaned run, checkpoint order, truthful notifications and answers, finality, refinement of `WorkflowLifecycle` |
| `workflow_liveness` | 2 threads, 1 task, `MaxVersion` = 2, fairness | a workflow does not stay RUNNING |
| `plan_safety` | all acyclic plans of 3 tasks, any required set, 1 or 2 attempts each, 4 budgets, 1 resume | type, budgets, dependency order, settling, guards never needed, successes kept |
| `research_request` | some 200 deployments, bodies of up to 3 chunks of 0 to 2 units, 4 planners, task lists of up to 3 tasks, 2 retries | whole and bounded bodies, admission, readiness, wiring; runnable and free plans, identity first, bounded retries, only a lost answer or a server error is followed by a repeat |
| `publication` | up to 3 references of 19 sorts in 3 attempts over 4 days; requests of 1 to 3 claims in every format | critic never stuck, verified is grounded, doubt never helps; facts proven, disagreement cited, summary keeps facts, complete is whole |
| `research_data` | 3 companies with clashing names and tickers; 2 threads (symmetric), 3 calls; 3 filings with odd rows; 2 lists, 2 checks, any plan may fail | entitled resolution, truthful origin, right company, no trace of a refused call, live entries kept, every figure traceable and not superseded, checks keep their companies |
| `stale_execution`, `conflicts_answered`, `discarded_memory`, `pause_preserves`, `budget_verdict`, `latest_period` | as above | violated: see *Findings* |

**Bounds.**  Three threads are the smallest number at which the interesting
races meet: an execution that has been running for a while, an operation that moves
the workflow away, and one that brings it back.  `MaxVersion` bounds only pauses:
it is the one operation that lets a workflow go round again (pause, resume,
pause, ...), and a pause beyond it is not begun; an execution may still end with
the next version, so versions reach `MaxVersion` + 1.  One pause is enough for a
stale execution to meet a newer one; the liveness run has two.  A memory record
belongs to one task and tasks do not interact there, so one task is enough.
The theorems of section 9 hold without any of these bounds.

Three tasks give chains, forks and joins with a required and an optional
branch.  Budgets are the number of tasks (which plans of two attempts exceed: not
admitted), exactly what a plan needs, and more calls than attempts, so each of the
two limits is the one that stops a run.  The order of the tasks runs against the
numbers that dependencies follow, so priority and dependency disagree.
`MaxSessions` = 1 resumes a paused run once.

`research_request`: `MaxBody` = `MaxChunks` = 3 with chunks of 0, 1 and 2 units reach both
limits from below, exactly and above, with empty chunks between.  The settings vary in
two slices, one for authentication, hosts and readiness, one for the planner and the
model: no validator looks at fields of both.  `MaxRetries` = 2 is the
smallest number with a retry after a retry.  `MaxTasks` = 3 and `MaxDepth` = 2 let
chains exceed the depth and not the count; the lists hold every dependency set of up to
three tasks.

`publication`: `MaxAge` = 2 days, evidence of days 0 to 4 and `LastDay` = 3 give evidence
that is fresh, becomes stale, is dated in the future, or was retrieved in it.  Three
references are enough for one that supports, one that contradicts and one beside the
point; `MaxAttempts` = 3 reaches the end of the critic's budget.  `MaxSummary` = 2 is
smaller than the three claims of the largest requests, so something must be left out.
`Today` = {2, 3} puts midnight between any two readings.

`research_data`: two calls race for one cache entry and a third meets what they left;
`TTL` = 2 and `MaxNow` = 2 let an entry be fresh, and expire exactly; `StaleAfter` = 1 makes
fixtures stale at 2.  The catalog has a ticker two companies share on two exchanges, an
alias that is another's ticker, and names that clash.  The payloads have an original
filing, the next year's with comparative figures, an amendment that comes after it,
and one odd row of each sort the parser looks at, a fiscal year that no period takes
among them.  One watchlist's text has blanks to normalise.

**Deadlock** is not checked: a cancelled workflow that no client addresses again, a run
that is done, a request that is answered, and calls at their bound are supposed to stop.

**Fairness.**  `FairSpec` asks for weak fairness of each thread's `Continue`: a
request thread that has begun an operation goes on.  The code has no wait in it:
every store call returns, the research itself ends (its loop is bounded, which
`GuardsNeverFire` and the round bound show, and each capability call has a
timeout), and the operating system schedules the pool's threads.  Clients are not
fair: nobody has to begin anything.

## 9. Proofs

Every safety invariant and every action property the passing runs check is also a
theorem, proved with TLAPS for every set of threads and tasks, every plan and budget,
every deployment and body, every task list a model may send, every bundle of evidence
and request, every catalog, payload and reference data, and without the bounds of the
runs.  The only assumptions are the modules' own about their constants, and TLC evaluates
them in the runs: bounds are natural numbers (`BoundAssumption`, `RetriesAssumption`,
`MaxAgeAssumption`, `BudgetAssumption`, `LimitsAssumption`, `CeilingAssumption`), limits
and periods positive where the code asks for it (`DataAssumption`: TTL and `StaleAfter`;
`SummaryAssumption`: `max_summary_items` is 1 to 10); plans are finite
(`PlansAssumption`); inputs have the shape their constructors admit
(`PayloadsAssumption`, `ObjectivesAssumption`, `CriticAssumption`, `RequestsAssumption`,
`FactsAssumption`, `WatchlistAssumption`); and the catalog has unique ids and unique
tickers on an exchange, which `_validated_snapshot` checks (`CatalogAssumption`).

`WorkflowManagerProofs`.  The invariants of the run are not inductive: what a thread
is about to write depends on what it read earlier.  `Inductive` adds `StoreOK` for
the record before it is created and `ThreadOK` for each thread, one fact per thing
the thread carries: the statuses it can hold at each place (`PlaceOK`), that the
approval in its copy fits the approval gate (`ApprovalOK`), which copies may be ahead
of the stored version (`VersionOK`), that an execution's lease is not from the
future and the current one is not behind the stored version (`LeaseOK`), and that a
final status it has stored is still the stored one (`SettledOK`).  The argument for
finality is the store's guard: from a final status only the same status is
accepted, so a write that lands late either conflicts or changes nothing that was
announced.  Each action has a lemma; `Bystander` carries the facts about the other
threads through any write (`Evolves` says what a write may do).  The refinement then
needs only the invariant and `CanMove`.  `RestStaysConsistent` reads from the same
invariant what the races leave behind: when every operation has returned, no
workflow is RUNNING and the checkpoint is of the record's version (exceptions out of
resolution or the executor excepted, section 11).

`PlanExecutionProofs`.  `Inductive` adds when a task can be RUNNING (`PhaseOK`); that
the engine's counters are the calls made for as long as some task can still run
(`CountersOK`: they are reset only when nothing can) and stay within the budget
(`LimitsOK`); that calls are counted as attempts before they are made, and a task
waiting for its retry has an attempt left (`AttemptsOK`); and that whatever was
started has only succeeded direct dependencies (`OrderOK`, from which the indirect
ones follow by the definition of `Ancestors` as a least set).  `LoopOK`, proved on top of
it, is why the loop ends by itself and leaves nothing open.  `RoundsPaid`: every round
before this one made a try of its own, and the tries, pairs of a task and the number of
one of its attempts, are a finite set whose size is the engine's counter; so the sum
of attempts over the tasks needs no induction.  `RetriesOK`: a task that waits for its
retry could be started at once, so none waits when nothing is ready.  `NothingOpen`
follows: a run ends by itself only then, and `Finalized` settles what is still pending.
`Explained`: before any resume, what settled without a call has a failed dependency;
a pending task that was not ready has one that did not succeed, and that one is
settled too.  Three more theorems say what a caller can rely on.  `SettledStays`: no end
of a task is ever rewritten, of which `SuccessStays` is a case.  `VerdictsAreTrue`: a
verdict is what the tasks' ends give (`AssessmentTrue`) and stays so, also when the
token is written after the loop.  `BudgetVerdictIsEarned` is the other half of finding 5:
a budget verdict may come when all work is done, but it never comes before the budget is
spent, because no counter is ahead of the calls made (`SpendingOK`), even though a resume
may begin with fresh ones; and the calls are among the attempts the plan allows
(`Tries` is a subset of `Allowed`), so a plan that is allowed fewer never gets one.

`RequestSafetyProofs`.  `SafetyInductive` says what has been checked by the time a
request gets where it is: nothing is received before the process serves, no route runs
before the head was admitted, and a body is complete only within both limits.  `TotalType`
gives the type of a body's size, the fold of its chunks.

`PlanningProofs`.  `HttpInductive`: while the caller waits, every request the provider
served has lost its answer or had a server error in its place (`served <= lost`), and what was slept is at most 40 units (two
seconds) an attempt; the theorems about the client follow, since an answer that arrives
ends the call.  For a company that is not resolved the wire stays untouched and the
outcome holds no tasks, on each entry.  `PlanningInductive` says of the outcome what the
caller relies on: it is a runnable plan or holds no tasks (`GoodOutcome`), and the work
of the model planner's is that of the free answer it got (`FreeAnswer`).  It rests on
what the algorithms of `TaskGraph` compute for every list of tasks, of any length.
`ValidGraphIsExact`: Kahn's rounds accept a list exactly when every reference is to
another task of it and no set of its tasks keeps itself waiting (`Acyclic`).
`OrderIsAsPromised`: the order of such a list holds every task once, each after its
dependencies and each the first by priority and id of those that could take its place
(`Placed`).  `AncestorsAreNeeded`: the walk of the budget's check reaches the least set
closed under dependencies (`Needed`).  Since that set does not depend on how the
tasks are numbered, the depth survives the sorting and the renaming between the list the
planner checked and the plan the executor checks again: `PlansAreAdmitted`.

`Recursion`.  The library's induction theorems take an operator, which no installed prover
instantiates.  Induction is therefore stated about sets: a set of numbers that is not
empty has a least one (`LeastNatural`), a set with 0 that holds the successors of its
members holds them all (`NaturalsReached`), and a function given by a first value and
steps exists (`RecursionExists`), which is what a fold or a recursive function needs; and
sets of numbers up to N that grow in every round until they are done are done after N
rounds (`RoundsSuffice`).  `Ordering` counts who comes before whom, so that sorting can be
proved about: under a strict total order each place is taken by one member
(`EveryPlaceTaken`), tuples are compared that way (`PrecedesOrders`), and a list
comprehension keeps what it should, in its order (`AtPlacesFacts`).

`PublicationProofs`.  `CriticInductive`: the result is the verification of what the
caller holds at the moment, and the verdict the critic's reading of it; the properties of
the cycle are then facts about `Verify` and `Assess`.  `DoubtNeverHelps` compares two
bundles: a reference that supports nothing adds to what lowers the score and nothing
to what raises it, and cannot remove a contradiction.  `OrderDecidesNothing` compares a
bundle with the same references in another order: what is counted is counted
through a bijection of their places (`RenumberedCount`), so score, status and refusal
are the same.  `SynthesisInductive`: each result
is the settled verification of its claim at one moment up to now, and what is published is
assembled from all of them (`document = Assembled(...)`, `report = Rendered(...)`), so
the properties of a document follow from how the gate, the labels, the order
and the summary are defined.

`CompanyProofs`.  `ResolvedIsEntitled` is a fact about `Resolve`, way by way;
`ExplicitTickerDecides` gives its outcome exactly for a query with a ticker, by the companies
that bear it (`Bearers`), and needs the catalog's unique tickers to rule out ambiguity
on a named exchange.
`WatchlistInductive` knows that every check under way has a number of its own, that each
check, answered ones included, has a result of the right company for each entry it
has passed, and one workflow for each success among them (`Tallied`).  It is
preserved since a query resolves to the same company each time, normalised or not
(`NormalizedFacts`), and since appending a workflow of one check
changes nothing another counts.  `PackagesAreTraceable` follows the parser from the
rows it selects, which none was filed after (`SelectedFacts`), by facts and period to the
filing shown (`LatestFiledFacts`).

`ResearchDataProofs`.  Call numbers are distinct (`NumbersOK`); a call that is under way
has stored nothing, and what it fetched is its own or a fixture (`ThreadOK`); a cache entry
knows the call it came from and expires TTL after that call stored it (`EntryOK`).  Hence
a hit is never the caller's own data and, being alive now, is younger than TTL at any
earlier time the call may have begun (`HitTruthful`).  `Bystander` carries what other
threads rely on through any step.  On top of it `GatesInductive` says that a refused call
never gets to the cache, for `RefusedStaysTraceless`, and `RightInductive` that each entry
answers the question of its key and each call asks a question of its own, for
`AnswersStayRight`.  `LiveEntryStays` needs no invariant: the second look
under the lock is what makes it true.

| theorem | property |
| --- | --- |
| `TypeCorrect`, `SafetyTypesHold`, `PlanningTypesHold` | `TypeOK` (two modules), `SafetyTypeOK`, `PlanningTypeOK` |
| `NoWorkWithoutApproval` | `ApprovalGate` |
| `NoOrphanedRun` | `RunningHasExecutor` |
| `CheckpointsInStep` | `CheckpointFollowsRecord` |
| `ReportsStayTrue` | `NotificationsTruthful`, `AnswersStayTrue` |
| `FinalStays` | `TerminalIsFinal` |
| `ManagerImplementsLifecycle` | `Lifecycle` (refinement) |
| `BudgetHolds` | `BudgetRespected` |
| `DependenciesHold` | `DependenciesFirst` |
| `GuardsAreIdle` | `GuardsNeverFire` |
| `EverythingSettles` | `EverythingSettled` |
| `SuccessStays` | `SuccessKept` |
| `BodiesWholeAndBounded` | `BodyWholeAndBounded` |
| `ProtectedRoutesAdmit` | `ProtectedAdmission` |
| `ReadinessAgrees`, `PlannersHaveModels` | `NotReadyServesNobody`, `PlannerHasModel` |
| `RetriesStayBounded`, `OnlyLostIsRepeated` | `RetriesBounded`, `AnsweredNotRepeated` |
| `NothingBeforeIdentity` | `IdentityFirst` |
| `PlansAreRunnable`, `ModelPlansAreFree` | `PlanRunnable`, `PlanIsTheFreeAnswer` |
| `CriticGoesOn`, `VerifiedStaysGrounded` | `CriticNeverStuck`, `VerifiedIsGrounded` |
| `DoubtCannotHelp` | `DoubtNeverHelps` |
| `PublishedFactsAreProven`, `DisagreementReachesReader` | `FactsAreProven`, `DisagreementIsCited` |
| `FactsComeFirst`, `CompleteMeansWhole` | `SummaryKeepsFacts`, `CompleteIsWhole` |
| `ResolvedByRight` | `ResolvedIsEntitled` |
| `MonitoringStaysTrue` | `MonitoringKeepsCompanies` |
| `PackagesAreTraceable` | `PackageIsTraceable` |
| `OriginStaysTruthful` | `OriginTruthful` |
| `LiveEntryStays` | `FreshEntryKept` |
| `RefusedStaysTraceless` | `RefusedLeavesNoTrace` |
| `AnswersStayRight` | `RightCompany` |

Theorems that say more than a run checks, stated where they are proved:

| theorem | what it says for every value of the constants |
| --- | --- |
| `ValidGraphIsExact` | a task list is accepted exactly when it refers to its own tasks and nothing waits for itself |
| `OrderIsAsPromised` | every task once, after its dependencies, the least of the ready ones first |
| `AncestorsAreNeeded` | the depth check counts exactly what a task waits for |
| `PlansAreAdmitted` | what planning passes, the executor's check passes under the same budget |
| `SettledStays` | no end of a task is rewritten |
| `VerdictsAreTrue` | COMPLETED, FAILED and BLOCKED are what the tasks' ends give |
| `BudgetVerdictIsEarned` | no budget verdict before the budget is spent |
| `OrderDecidesNothing` | verification does not depend on the order of the references |
| `ExplicitTickerDecides` | a query with a ticker is decided by who bears it, and by nothing else |
| `RestStaysConsistent` | at rest nothing is RUNNING and the checkpoint is in step |

**Model-checked only:** `ExecutionEnds`, which is liveness under fairness and out of the
prover's reach; and the six violations under *Findings*, which need a trace
and not a proof.

## 10. Findings

Each is a run TLC violates, with a trace of a dozen steps or fewer.

1. `stale_execution`: the guard against stale executions compares statuses, and a
   pause and a resume bring the status back.  The execution that was paused
   away commits its result over the one that is running.
2. `conflicts_answered`: only the transition error is turned into a CONFLICT.  A
   checkpoint version overtaken by another operation raises out of the operation,
   at the commit, at `save_checkpoint` and at the save with the notification warning
   (which the implementation report calls provably safe).
3. `discarded_memory`: memory records are written before the commit that may be
   refused, and stay.
4. `pause_preserves`: a pause seen before the first task skips the tasks it should
   keep; so does one read between its two assignments.
5. `budget_verdict`: a plan that succeeds with exactly its budget is reported as
   over budget.
6. `latest_period`: an amendment of an older year, filed after the newer annual report,
   makes the older year "the latest available" package.

Seen while modelling, at places where a comment promises more than the code does, and not
listed as findings because no run is about them: a transport exception the client does
not classify leaves `LlmRouterPort.complete`, which "must never raise"; the handler for
unexpected exceptions answers outside the header middleware; a result
message of 501 to 1000 characters raises out of the tool-call service, which
"never raises"; a claim over some 470 characters that is
not verified is refused with a 400, because the critic's query is limited to 500; a
prose claim with one reference for and one against it is a CONFLICT without a
contradiction record; evidence dated in the future does not support a claim but
counts towards the authority of a material one; a monitoring check says that it "created
workflows", and counts them in `workflow_count` (`manage_watchlist.py:186`, 197 and
203), for entries whose plan failed and that have none; a SEC package gives one
`filing_id` to figures of several filings, and a balance figure may be of a filing
later than the date shown (`sec_company_facts.py:146`, 225 to 289; the comment at 216
speaks of the date and the accession number only).

## 11. Not modelled, and why

- Restarts: stores live in memory, so a restart is the initial state again.
- Exceptions out of company resolution or the executor while RUNNING: the adapters
  turn failures into results; the workflow would stay RUNNING, see the hazards.
- A manual pause together with the counters of the run it does not reach (section 2).
- MCP tools: the same use cases read-only, with no decision of their own.
- Ratios, price statistics and other decimal arithmetic; parsing of filings (the US
  filing pipeline and the Indian adapter); deduplication and conflicts of news events:
  pure functions over provider documents or constant reference data.
- `RequestResearchReport`: no route reaches it, and it only records a request for a
  workflow whose status is final.
- Branches no input reaches: the executor's answer to an exception and to a result for a
  foreign company (no adapter of the repository gives either), the CONFLICT of a watchlist
  whose policy is disabled (stored policies are enabled).  The default registry has no
  unavailable capability; the instance has one, so that the gate is checked.  The
  tool-call service is not wired by the composition, only by tests; it is
  modelled as those use it.
- Text, layout, headers, correlation ids, key hashing and logging: no property here is
  about them.
