---------------------------- MODULE PlanExecution ----------------------------
(***************************************************************************)
(* ExecuteResearchPlan.execute_prepared: a plan's tasks are run one at a   *)
(* time, in dependency order, under attempt and call budgets, with bounded *)
(* retries and a control token that another thread may use to pause or     *)
(* cancel.  A paused run is started again from its checkpoint, with the    *)
(* counters and results the checkpoint holds, as ManageResearchWorkflow    *)
(* does on resume.                                                         *)
(*                                                                         *)
(* Abstracted: a task's capability, its evidence and messages; a result is *)
(* its status and whether the retry policy accepts it.                     *)
(***************************************************************************)
EXTENDS Naturals, FiniteSets, Functions

CONSTANTS Tasks,       \* the tasks of a plan
          Plans,       \* plans: dependencies, required tasks, attempts, order
          Budgets,     \* execution budgets
          MaxSessions  \* bound: how often a paused run is resumed

ASSUME PlansAssumption ==
    /\ IsFiniteSet(Tasks)
    /\ \A p \in Plans :
          /\ p.deps \in [Tasks -> SUBSET Tasks]
          /\ p.required \subseteq Tasks
          /\ p.maxAttempts \in [Tasks -> Nat \ {0}]
          /\ p.rank \in [Tasks -> Nat]
    /\ Budgets \subseteq [tasks : Nat, perTask : Nat, total : Nat,
                          depth : Nat, calls : Nat]
    /\ MaxSessions \in Nat

VARIABLES
    plan, budget,        \* fixed inputs
    status, attempts,    \* per task: status and attempt_count
    total, calls,        \* OrchestrationState.total_attempts, external_calls
    partial,             \* some result is PARTIAL
    rounds,              \* rounds of the loop in this session
    pc, current,         \* where the engine is; the task it has started
    verdict,             \* the run's status once it has one
    cancelled, pausing,  \* the control token's two flags
    request,             \* the control call that is half done
    paused,              \* the run ended with is_pause: the workflow is PAUSED
    session,             \* history: resumes so far
    made, executed       \* history: executor calls per task, and altogether

inputs == <<plan, budget>>
engine == <<status, attempts, total, calls, partial, rounds, pc, current, verdict>>
control == <<cancelled, pausing, request>>
history == <<made, executed>>
vars == <<inputs, engine, control, history, paused, session>>

TaskStatus == {"PENDING", "READY", "RUNNING", "SUCCEEDED", "FAILED", "SKIPPED", "BLOCKED"}

Failing == {"FAILED", "BLOCKED", "SKIPPED"}

NoTask == 0

\* Faulty variant: everything that has not failed counts as open.
NotFailed(t) == status[t] \notin Failing

Open(t) == status[t] \in {"PENDING", "READY"}

Init ==
    /\ plan \in Plans /\ budget \in Budgets
    /\ status = [t \in Tasks |-> "PENDING"]
    /\ attempts = [t \in Tasks |-> 0]
    /\ total = 0 /\ calls = 0 /\ partial = FALSE /\ rounds = 0
    /\ pc = "start" /\ current = NoTask /\ verdict = "NONE"
    /\ cancelled = FALSE /\ pausing = FALSE /\ request = "none"
    /\ paused = FALSE /\ session = 0
    /\ made = [t \in Tasks |-> 0] /\ executed = 0

-----------------------------------------------------------------------------
(* The plan and its budget *)

\* All tasks t depends on, directly or not: the least set that holds t's
\* dependencies and theirs.
Ancestors(t) ==
    {a \in Tasks : \A S \in SUBSET Tasks :
        (/\ plan.deps[t] \subseteq S
         /\ \A s \in S : plan.deps[s] \subseteq S) => a \in S}

\* validate_tasks; what it calls depth is the number of ancestors plus one.
Admitted ==
    /\ Cardinality(Tasks) <= budget.tasks
    /\ \A t \in Tasks : /\ plan.maxAttempts[t] <= budget.perTask
                        /\ Cardinality(Ancestors(t)) + 1 <= budget.depth
    /\ SumFunctionOnSet(plan.maxAttempts, Tasks) <= budget.total
    /\ Cardinality(Tasks) <= budget.calls

\* The open tasks that depend, directly or through open tasks, on a failed,
\* blocked or skipped one: the least set closed under that rule, which is
\* where the loop of apply_failure_propagation stops.
Doomed ==
    {t \in Tasks : Open(t) /\ \A S \in SUBSET Tasks :
        (\A u \in Tasks :
            (Open(u) /\ \E d \in plan.deps[u] : status[d] \in Failing \/ d \in S)
                => u \in S) => t \in S}

Propagated ==
    [t \in Tasks |-> IF t \notin Doomed THEN status[t]
                     ELSE IF t \in plan.required THEN "BLOCKED" ELSE "SKIPPED"]

\* Faulty variant: one succeeded dependency is enough.
AnySuffices(st) ==
    {t \in Tasks : st[t] \in {"PENDING", "READY"}
                   /\ plan.deps[t] # {} => \E d \in plan.deps[t] : st[d] = "SUCCEEDED"}

\* Faulty variant: a task waiting for its retry is forgotten.
PendingOnly(st) ==
    {t \in Tasks : st[t] = "PENDING" /\ \A d \in plan.deps[t] : st[d] = "SUCCEEDED"}

\* ready_tasks
Ready(st) ==
    {t \in Tasks : st[t] \in {"PENDING", "READY"}
                   /\ \A d \in plan.deps[t] : st[d] = "SUCCEEDED"}

\* Stable order: priority, then task id.
IsNext(t, st) == t \in Ready(st) /\ \A u \in Ready(st) : plan.rank[t] <= plan.rank[u]

MaxRounds == Cardinality(Tasks) * budget.perTask + Cardinality(Tasks) + 2

-----------------------------------------------------------------------------
(* The engine *)

\* Leave the loop with a verdict; Finish comes next.
Stop(v) == pc' = "finish" /\ verdict' = v

\* validate_tasks, and the look at the token before the first task.  A run
\* cancelled there skips every open task, whichever flag is set, and its
\* result carries fresh counters and no results.
Start ==
    /\ pc = "start"
    /\ rounds' = 0
    /\ \/ /\ ~Admitted
          /\ Stop("BUDGET_EXCEEDED")
          /\ total' = 0 /\ calls' = 0 /\ partial' = FALSE
          /\ UNCHANGED status
       \/ /\ Admitted /\ cancelled
          /\ Stop("CANCELLED")
          /\ status' = [t \in Tasks |-> IF Open(t) THEN "SKIPPED" ELSE status[t]]
          /\ total' = 0 /\ calls' = 0 /\ partial' = FALSE
       \/ /\ Admitted /\ ~cancelled
          /\ pc' = "round"
          /\ UNCHANGED <<status, total, calls, partial, verdict>>
    /\ UNCHANGED <<inputs, attempts, current, control, history, paused, session>>

\* Faulty guard: one attempt and one call more.
SpentOneLate == total > budget.total \/ calls > budget.calls

Spent == total >= budget.total \/ calls >= budget.calls

\* Faulty variant: a plan without required tasks gets no status.
RequiredAssessment(st) ==
    CASE plan.required = {} -> "NONE"
      [] plan.required # {} /\ (\E t \in plan.required : st[t] # "SUCCEEDED") -> "FAILED"
      [] OTHER -> "COMPLETED"

\* Status of a run that no stop ended, by its required and optional tasks.
Assessment(st) ==
    LET some(S, s) == \E t \in S : st[t] = s
        optional == Tasks \ plan.required
    IN CASE some(plan.required, "FAILED") ->
                IF some(plan.required, "SUCCEEDED") THEN "PARTIAL" ELSE "FAILED"
         [] ~some(plan.required, "FAILED") /\ some(plan.required, "BLOCKED") ->
                IF some(plan.required, "SUCCEEDED") THEN "PARTIAL" ELSE "BLOCKED"
         [] OTHER ->
                IF /\ plan.required # {}
                   /\ \A t \in plan.required : st[t] = "SUCCEEDED"
                   /\ ~partial /\ ~some(optional, "FAILED")
                THEN "COMPLETED" ELSE "PARTIAL"

\* _finalize_no_ready: tasks still PENDING are settled.
Finalized(st) ==
    [t \in Tasks |-> IF st[t] # "PENDING" THEN st[t]
                     ELSE IF t \in plan.required THEN "BLOCKED" ELSE "SKIPPED"]

\* Schedule the next ready task, or end the run when there is none.  The
\* engine's own guards against a spent task and a task over its limit are the
\* two inner alternatives; GuardsNeverFire says they are never taken.
Schedule ==
    LET st == Propagated
    IN \/ /\ Ready(st) = {}
          /\ status' = Finalized(st)
          /\ Stop(Assessment(Finalized(st)))
          /\ UNCHANGED <<attempts, current>>
       \/ \E t \in Tasks :
             /\ IsNext(t, st)
             /\ IF attempts[t] >= budget.perTask
                THEN /\ status' = [st EXCEPT ![t] = "SKIPPED"]
                     /\ UNCHANGED <<attempts, current, pc, verdict>>
                ELSE IF attempts[t] >= plan.maxAttempts[t]
                THEN status' = st /\ Stop(Assessment(st)) /\ UNCHANGED <<attempts, current>>
                ELSE /\ status' = [st EXCEPT ![t] = "RUNNING"]
                     /\ attempts' = [attempts EXCEPT ![t] = @ + 1]
                     /\ current' = t
                     /\ pc' = "calling"
                     /\ UNCHANGED verdict

\* One turn of the loop.  The token and the budgets are looked at first, even
\* when nothing is left to do.
Round ==
    /\ pc = "round"
    /\ IF rounds >= MaxRounds
       THEN Stop(Assessment(status)) /\ UNCHANGED <<status, attempts, current, rounds>>
       ELSE /\ rounds' = rounds + 1
            /\ \/ cancelled /\ pc' = "stopping" /\ UNCHANGED <<status, attempts, current, verdict>>
               \/ /\ ~cancelled /\ Spent /\ Stop("BUDGET_EXCEEDED")
                  /\ UNCHANGED <<status, attempts, current>>
               \/ ~cancelled /\ ~Spent /\ Schedule
    /\ UNCHANGED <<inputs, total, calls, partial, control, history, paused, session>>

\* _apply_cancellation, with the second flag read after the first.
ApplyCancellation ==
    /\ pc = "stopping"
    /\ status' = IF pausing THEN status
                 ELSE [t \in Tasks |-> IF Open(t) THEN "SKIPPED" ELSE status[t]]
    /\ Stop("CANCELLED")
    /\ UNCHANGED <<inputs, attempts, total, calls, partial, rounds, current>>
    /\ UNCHANGED <<control, history, paused, session>>

\* The executor starts on the task: the call is made.
Call ==
    /\ pc = "calling"
    /\ pc' = "called"
    /\ made' = [made EXCEPT ![current] = @ + 1]
    /\ executed' = executed + 1
    /\ UNCHANGED <<inputs, status, attempts, total, calls, partial, rounds, current, verdict>>
    /\ UNCHANGED <<control, paused, session>>

\* Faulty policy: the attempts of the run are not looked at.
RetryWithinTask(t) == attempts[t] < plan.maxAttempts[t] + 1

\* RetryPolicy.should_retry for a retryable failure, after the counters grew.
MayRetry(t) ==
    /\ attempts[t] < plan.maxAttempts[t]
    /\ attempts[t] < budget.perTask
    /\ total' < budget.total

\* _result_to_task_status.  An unavailable capability and a result for another
\* company are failures too, and are not retryable.
Ended(result) ==
    CASE result \in {"SUCCESS", "PARTIAL"}   -> "SUCCEEDED"
      [] result = "BLOCKED"                  -> "BLOCKED"
      [] result \in {"FAILED", "RETRYABLE"}  -> "FAILED"

\* The call ends; a failure may be given another attempt.
Return(result) ==
    /\ pc = "called"
    /\ total' = total + 1 /\ calls' = calls + 1
    /\ partial' = (partial \/ result = "PARTIAL")
    /\ status' = [status EXCEPT ![current] =
          IF result = "RETRYABLE" /\ MayRetry(current) THEN "READY" ELSE Ended(result)]
    /\ pc' = "round" /\ current' = NoTask
    /\ UNCHANGED <<inputs, attempts, rounds, verdict, control, history, paused, session>>

Results == {"SUCCESS", "PARTIAL", "BLOCKED", "FAILED", "RETRYABLE"}

\* ManageResearchWorkflow.execute reads is_pause once more: PAUSED, or the
\* status that goes with the verdict.
Finish ==
    /\ pc = "finish"
    /\ pc' = "done"
    /\ paused' = pausing
    /\ UNCHANGED <<inputs, status, attempts, total, calls, partial, rounds, current>>
    /\ UNCHANGED <<verdict, control, history, session>>

\* Resume: a fresh token, and the checkpoint's plan, counters and results.
Resume ==
    /\ pc = "done" /\ paused
    /\ session < MaxSessions
    /\ session' = session + 1
    /\ pc' = "start" /\ verdict' = "NONE" /\ paused' = FALSE
    /\ cancelled' = FALSE /\ pausing' = FALSE /\ request' = "none"
    /\ UNCHANGED <<inputs, status, attempts, total, calls, partial, rounds, current, history>>

-----------------------------------------------------------------------------
(* The control token, written by another thread, one flag at a time *)

RequestPause ==
    /\ pc # "done" /\ request = "none"
    /\ cancelled' = TRUE /\ request' = "pause"
    /\ UNCHANGED <<inputs, engine, pausing, history, paused, session>>

RequestCancel ==
    /\ pc # "done" /\ request = "none"
    /\ cancelled' = TRUE /\ request' = "cancel"
    /\ UNCHANGED <<inputs, engine, pausing, history, paused, session>>

\* The second assignment of request_pause or cancel.
CompleteRequest ==
    /\ pc # "done" /\ request # "none"
    /\ pausing' = (request = "pause")
    /\ request' = "none"
    /\ UNCHANGED <<inputs, engine, cancelled, history, paused, session>>

Next ==
    \/ Start \/ Round \/ ApplyCancellation \/ Call \/ Finish \/ Resume
    \/ \E result \in Results : Return(result)
    \/ RequestPause \/ RequestCancel \/ CompleteRequest

Spec == Init /\ [][Next]_vars

-----------------------------------------------------------------------------
(* Properties *)

TypeOK ==
    /\ plan \in Plans /\ budget \in Budgets
    /\ status \in [Tasks -> TaskStatus]
    /\ attempts \in [Tasks -> Nat]
    /\ total \in Nat /\ calls \in Nat /\ partial \in BOOLEAN /\ rounds \in Nat
    /\ pc \in {"start", "round", "stopping", "calling", "called", "finish", "done"}
    /\ current \in Tasks \cup {NoTask}
    /\ pc \in {"calling", "called"} => current \in Tasks /\ status[current] = "RUNNING"
    /\ verdict \in {"NONE", "COMPLETED", "PARTIAL", "FAILED", "BLOCKED",
                    "CANCELLED", "BUDGET_EXCEEDED"}
    /\ verdict = "NONE" <=> pc \notin {"finish", "done"}
    /\ cancelled \in BOOLEAN /\ pausing \in BOOLEAN
    /\ request \in {"none", "pause", "cancel"}
    /\ paused \in BOOLEAN /\ session \in Nat
    /\ made \in [Tasks -> Nat] /\ executed \in Nat

\* Over all sessions of a workflow, pauses and resumes included, no more calls
\* reach the executor than the budget allows, nor more for one task than the
\* task's own limit.
BudgetRespected ==
    /\ executed <= budget.total
    /\ executed <= budget.calls
    /\ \A t \in Tasks : made[t] <= plan.maxAttempts[t]

\* A task is given to the executor only after everything it depends on, at
\* any distance, has succeeded.
DependenciesFirst ==
    \A t \in Tasks : made[t] > 0 => \A a \in Ancestors(t) : status[a] = "SUCCEEDED"

\* Work that has succeeded is never thrown away or done again, in this session
\* or a resumed one.
SuccessKept ==
    [][\A t \in Tasks : status[t] = "SUCCEEDED"
          => status'[t] = "SUCCEEDED" /\ made'[t] = made[t]]_vars

\* A run that no stop or budget ended has settled every task, and has tried
\* each task whose dependencies all succeeded, unless an earlier stop skipped it.
Natural == pc \in {"finish", "done"} /\ verdict \notin {"CANCELLED", "BUDGET_EXCEEDED"}

EverythingSettled ==
    Natural => \A t \in Tasks :
        /\ status[t] \notin {"PENDING", "READY", "RUNNING"}
        /\ session = 0 /\ made[t] = 0
              => \E d \in plan.deps[t] : status[d] \in Failing

\* The guards against a loop without progress, a second run of a success and an
\* attempt over the limit are never needed: retries and budgets end the loop.
RoundsLeft == pc = "round" => rounds < MaxRounds

AttemptsLeft ==
    pc = "round" => \A t \in Ready(Propagated) :
        attempts[t] < budget.perTask /\ attempts[t] < plan.maxAttempts[t]

GuardsNeverFire == RoundsLeft /\ AttemptsLeft

-----------------------------------------------------------------------------
(* What the repository says and the code does not do *)

\* "request_pause is a soft stop that preserves pending tasks for resume": in
\* a workflow left PAUSED, only failures upstream have skipped tasks.
PausePreservesWork ==
    pc = "done" /\ paused =>
        \A t \in Tasks : status[t] = "SKIPPED"
            => \E d \in plan.deps[t] : status[d] \in Failing

\* A run is reported as over budget only when work was left undone.
BudgetVerdictJust ==
    verdict = "BUDGET_EXCEEDED" /\ Admitted => \E t \in Tasks : status[t] # "SUCCEEDED"

=============================================================================
