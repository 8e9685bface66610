------------------------------- MODULE Planning -------------------------------
(***************************************************************************)
(* From a research request to a plan, and to the workflow stored for it:   *)
(* CreateResearchPlan, CreateResearchWorkflow and ResearchOrchestrator     *)
(* over the PlannerPort implementations.  The planner that asks a model    *)
(* does so through LlmGateway and BoundedHttpClient, whose steps are steps *)
(* of this module, so every network outcome reaches the plan.              *)
(*                                                                         *)
(* Abstracted: prompts, descriptions and messages; a text of the model is  *)
(* [kind, tasks]; the company is its identity's outcome (CompanyResolution *)
(* models it); the ports ask the same immutable catalog, so resolving      *)
(* twice gives the same outcome twice.                                     *)
(***************************************************************************)
EXTENDS BoundedHttpClient, LlmGateway, TaskGraph, Ordering, Functions

CONSTANTS Planners,      \* PlannerPort implementations to look at
          Objectives,    \* objectives requests may have
          Unavailable,   \* capabilities the registry lists as unavailable
          MaxTasks,      \* budget: max_tasks
          MaxDepth       \* budget: max_plan_depth

ASSUME BudgetAssumption == MaxTasks \in Nat \ {0} /\ MaxDepth \in Nat \ {0}

\* Tasks as the model writes them: any name, any references, a priority.
ASSUME PayloadsAssumption ==
    \A p \in Payloads :
        p.text.tasks \in Seq([capability : STRING, deps : SUBSET Nat, priority : Nat])

VARIABLES
    request,   \* what the caller asks for, the planner configured, and the
               \* outcome of resolving the company
    stage,     \* where the request is
    outcome,   \* what the planner answered
    plan,      \* the plan returned to the caller or stored with a workflow
    status     \* the answer to the caller

planningVars == <<request, stage, outcome, plan, status>>

CapabilityIds ==
    {"company_resolution", "market_intelligence", "financial_intelligence",
     "news_event_intelligence", "industry_intelligence",
     "regulatory_intelligence"}

\* The capabilities a plan may use: company resolution runs before planning.
PlannerCapabilities == (CapabilityIds \ Unavailable) \ {"company_resolution"}

ObjectiveCapabilities ==
    [company_overview |-> <<"market_intelligence", "financial_intelligence",
                            "news_event_intelligence">>,
     market_analysis |-> <<"market_intelligence">>,
     financial_analysis |-> <<"financial_intelligence">>,
     news_and_events |-> <<"news_event_intelligence">>,
     industry_analysis |-> <<"industry_intelligence">>,
     regulatory_analysis |-> <<"regulatory_intelligence">>,
     comprehensive_equity_research |->
        <<"market_intelligence", "financial_intelligence",
          "news_event_intelligence", "industry_intelligence",
          "regulatory_intelligence">>]

ASSUME ObjectivesAssumption == Objectives \subseteq DOMAIN ObjectiveCapabilities

Requests ==
    [entry : {"plan", "workflow", "orchestrate"}, valid : BOOLEAN,
     objective : Objectives, planner : Planners,
     identity : {"RESOLVED", "UNRESOLVED", "INVALID"}]

NoPlan == <<>>

Outcome(s) == [status |-> s, budget |-> FALSE, tasks |-> NoPlan]
OverBudget == [status |-> "FAILED", budget |-> TRUE, tasks |-> NoPlan]
Planned(tasks) == [status |-> "OK", budget |-> FALSE, tasks |-> tasks]

\* ResearchPlan: the tasks in topological order, their dependencies as
\* positions in that order.
InOrder(tasks, rank) ==
    LET order == TopologicalOrder(tasks, rank)
        place == [i \in Positions(tasks) |->
                    CHOOSE p \in Positions(tasks) : order[p] = i]
    IN [p \in Positions(tasks) |->
          [tasks[order[p]] EXCEPT !.deps = {place[d] : d \in @}]]

\* The last checks of both planners, in their order.
Checked(tasks, rank) ==
    IF ~ValidGraph(tasks) THEN Outcome("FAILED")
    ELSE IF ~WithinBudget(tasks, MaxTasks, MaxDepth) THEN OverBudget
    ELSE IF tasks = NoPlan THEN Outcome("FAILED")
    ELSE Planned(InOrder(tasks, rank))

\* DeterministicPlanner.build_plan: unavailable capabilities are left out, and
\* the financial task of a comprehensive plan waits for the market task.
DeterministicTasks(objective) ==
    LET listed == ObjectiveCapabilities[objective]
        kept == InSequence({i \in 1..Len(listed) : listed[i] \notin Unavailable},
                           LAMBDA i, j : i < j)
        waits(k) == /\ objective = "comprehensive_equity_research"
                    /\ listed[kept[k]] = "financial_intelligence"
    IN [k \in DOMAIN kept |->
          [capability |-> listed[kept[k]], priority |-> 10 * kept[k],
           deps |-> {j \in 1..(k - 1) : waits(k) /\ listed[kept[j]] = "market_intelligence"}]]

\* PlannerOutput.parse and PlannerTaskSpec: the text is the JSON object the
\* contract asks for, and its references are to other tasks of the list.
Parses(text) ==
    /\ text.kind = "research_plan"
    /\ text.tasks # <<>> /\ Len(text.tasks) <= 20
    /\ References(text.tasks)

\* Faulty variant: a capability may be asked for twice.
EligibleOnly(tasks) ==
    \A i \in Positions(tasks) : tasks[i].capability \in PlannerCapabilities

\* _build_tasks: only eligible capabilities, each at most once.
Acceptable(tasks) ==
    /\ \A i \in Positions(tasks) : tasks[i].capability \in PlannerCapabilities
    /\ IsInjective([i \in Positions(tasks) |-> tasks[i].capability])

\* What LlmPlannerAdapter makes of the router's response.
Accepted(response, rank) ==
    CASE response.status = "RAISED" -> Outcome("FAILED")
      [] response.status = "FAILED" ->
            Outcome(IF response.failure = "POLICY_VIOLATION"
                    THEN "UNAVAILABLE" ELSE "FAILED")
      [] OTHER ->
            IF Parses(response.text) /\ Acceptable(response.text.tasks)
            THEN Checked(response.text.tasks, rank)
            ELSE Outcome("FAILED")

Ranks(n) == {r \in [1..n -> 1..n] : IsInjective(r)}

-----------------------------------------------------------------------------
(* One request *)

PlanningInit ==
    /\ request \in Requests
    /\ stage = "validate"
    /\ outcome = Outcome("NONE")
    /\ plan = NoPlan
    /\ status = "NONE"

AnswerCaller(s) == stage' = "done" /\ status' = s

\* ResearchRequest's checks, the first thing every entry does.
Validate ==
    /\ stage = "validate"
    /\ IF request.valid
       THEN /\ stage' = IF request.entry = "orchestrate" THEN "planner" ELSE "identity"
            /\ UNCHANGED status
       ELSE AnswerCaller("INVALID")
    /\ UNCHANGED <<request, outcome, plan>> /\ UNCHANGED httpVars

\* CreateResearchPlan resolves the company before it asks the planner.
ResolveFirst ==
    /\ stage = "identity"
    /\ CASE request.identity = "RESOLVED" -> stage' = "planner" /\ UNCHANGED status
         [] request.identity = "UNRESOLVED" -> AnswerCaller("RESOLUTION_BLOCKED")
         [] OTHER -> AnswerCaller("INVALID")
    /\ UNCHANGED <<request, outcome, plan>> /\ UNCHANGED httpVars

\* Faulty variant: an ambiguous company is planned for.
PlansUnlessInvalid == request.identity # "INVALID"

\* Each planner that plans resolves the company itself.
PlannerResolves == request.identity = "RESOLVED"

\* Every planner that answers without the network: the deterministic one, the
\* unavailable one, and any of them on a company it cannot resolve.
PlanLocally ==
    /\ stage = "planner"
    /\ \/ /\ request.planner = "unavailable"
          /\ outcome' = Outcome("UNAVAILABLE")
       \/ /\ request.planner # "unavailable" /\ ~PlannerResolves
          /\ outcome' = Outcome("INVALID")
       \/ /\ request.planner = "deterministic" /\ PlannerResolves
          /\ LET tasks == DeterministicTasks(request.objective)
             IN \E rank \in Ranks(Len(tasks)) : outcome' = Checked(tasks, rank)
       \/ /\ request.planner = "llm_disabled" /\ PlannerResolves
          /\ outcome' = Accepted(CompleteDisabled, <<>>)
    /\ stage' = "planned"
    /\ UNCHANGED <<request, plan, status>> /\ UNCHANGED httpVars

\* The model planner sends its one request, with the configured ceiling as
\* max_output_tokens: OpenRouterAdapter never refuses it.
AskModel ==
    /\ stage = "planner"
    /\ request.planner = "llm" /\ PlannerResolves
    /\ ~AboveCeiling(Ceiling)
    /\ stage' = "model"
    /\ UNCHANGED <<request, outcome, plan, status>> /\ UNCHANGED httpVars

ModelOnTheWire ==
    /\ stage = "model"
    /\ HttpNext
    /\ UNCHANGED planningVars

Response == Complete(answer)

ModelAnswered ==
    /\ stage = "model" /\ answer # Pending
    /\ LET n == IF Response.status = "SUCCEEDED" THEN Len(Response.text.tasks) ELSE 0
       IN \E rank \in Ranks(n) : outcome' = Accepted(Response, rank)
    /\ stage' = "planned"
    /\ UNCHANGED <<request, plan, status>> /\ UNCHANGED httpVars

\* CreateResearchPlan's reading of the outcome, and CreateResearchWorkflow's
\* reading of that.
PlanStatus(o) ==
    CASE o.status = "INVALID" -> "INVALID"
      [] o.status = "FAILED" /\ o.budget -> "BUDGET_EXCEEDED"
      [] o.status = "OK" -> "OK"
      [] OTHER -> "UNAVAILABLE"

WorkflowOperationStatus(s) == IF s \in {"OK", "INVALID"} THEN s ELSE "FAILED"

OrchestrationStatus(o) ==
    CASE o.status = "OK" -> "OK"
      [] o.status = "UNAVAILABLE" -> "PLANNER_UNAVAILABLE"
      [] OTHER -> "PLANNER_FAILED"

AnswerPlanned ==
    /\ stage = "planned"
    /\ plan' = outcome.tasks
    /\ AnswerCaller(CASE request.entry = "plan" -> PlanStatus(outcome)
                      [] request.entry = "workflow" ->
                            WorkflowOperationStatus(PlanStatus(outcome))
                      [] OTHER -> OrchestrationStatus(outcome))
    /\ UNCHANGED <<request, outcome>> /\ UNCHANGED httpVars

PlanningNext ==
    Validate \/ ResolveFirst \/ PlanLocally \/ AskModel \/ ModelOnTheWire
    \/ ModelAnswered \/ AnswerPlanned

PlanningSpec ==
    HttpInit /\ PlanningInit /\ [][PlanningNext]_<<planningVars, httpVars>>

-----------------------------------------------------------------------------
(* Properties *)

PlanningTypeOK ==
    /\ request \in Requests
    /\ stage \in {"validate", "identity", "planner", "model", "planned", "done"}
    /\ outcome.status \in {"NONE", "OK", "INVALID", "FAILED", "UNAVAILABLE"}
    /\ answer \in Answers
    /\ attempt \in 0..MaxRetries /\ served \in Nat /\ lost \in Nat /\ slept \in Nat

\* A plan that leaves planning can be executed from its first task to its
\* last: every dependency stands before its task, no capability is planned
\* twice, none that cannot run is planned, and the budget allows all of it.
\* PlanExecution starts from such plans only.
PlanRunnable ==
    /\ \A p \in Positions(plan) :
          /\ plan[p].deps \subseteq 1..(p - 1)
          /\ plan[p].capability \in PlannerCapabilities
          /\ \A q \in Positions(plan) \ {p} : plan[q].capability # plan[p].capability
    /\ Len(plan) <= MaxTasks
    /\ status = "OK" => plan # NoPlan

\* A plan of the model planner is what the provider's last answer said, task
\* for task, and that answer states that it cost nothing, however many
\* attempts, lost answers and refusals came before it.
PlanIsTheFreeAnswer ==
    request.planner = "llm" /\ plan # NoPlan =>
        /\ answer.kind = "OK" /\ answer.value.cost = "zero"
        /\ {[capability |-> plan[p].capability, priority |-> plan[p].priority] :
              p \in Positions(plan)}
           = {[capability |-> answer.value.text.tasks[i].capability,
               priority |-> answer.value.text.tasks[i].priority] :
              i \in Positions(answer.value.text.tasks)}

\* Nothing is planned, stored or asked of a model for a company that is not
\* uniquely identified, on the entry that resolves first and on the one that
\* leaves it to the planner.
IdentityFirst ==
    request.identity # "RESOLVED" =>
        plan = NoPlan /\ answer = Pending /\ attempt = 0 /\ served = 0

=============================================================================
