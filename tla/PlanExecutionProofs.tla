------------------------- MODULE PlanExecutionProofs -------------------------
(***************************************************************************)
(* Proofs about PlanExecution, for any tasks, plans, budgets and number of *)
(* resumes.  The budget of a workflow holds over all its sessions because  *)
(* the counters a checkpoint carries agree with the calls made as long as  *)
(* some task can still run.                                                *)
(***************************************************************************)
EXTENDS PlanExecution, FiniteSetTheorems, TLAPS

-----------------------------------------------------------------------------
(* The inductive invariant *)

\* The loop is entered only with an admitted plan, and the task that is
\* RUNNING is the one the executor has.
PhaseOK ==
    /\ pc \in {"round", "stopping", "calling", "called"} => Admitted
    /\ \A t \in Tasks : status[t] = "RUNNING" => pc \in {"calling", "called"} /\ t = current

\* Some task may still be given to the executor.
Live == Admitted /\ \E t \in Tasks : status[t] \in {"PENDING", "READY", "RUNNING"}

\* The engine's counters are the calls made, a call in progress aside.  They
\* are reset only when nothing can run any more.
CountersOK ==
    /\ Live => /\ total = calls
               /\ executed = IF pc = "called" THEN total + 1 ELSE total
    /\ pc = "calling" => total < budget.total /\ calls < budget.calls

LimitsOK == executed <= budget.total /\ executed <= budget.calls

\* An attempt is counted before its call is made.
AttemptsOK ==
    \A t \in Tasks :
        /\ made[t] <= attempts[t]
        /\ pc = "calling" /\ t = current => made[t] < attempts[t]
        /\ attempts[t] <= plan.maxAttempts[t]
        /\ status[t] = "PENDING" => attempts[t] = 0
        /\ status[t] = "READY" => attempts[t] < plan.maxAttempts[t]

\* What a task depends on directly has succeeded before the task is started.
OrderOK ==
    \A t \in Tasks :
        made[t] > 0 \/ status[t] \in {"RUNNING", "SUCCEEDED"}
            => \A d \in plan.deps[t] : status[d] = "SUCCEEDED"

Inductive ==
    TypeOK /\ PhaseOK /\ CountersOK /\ LimitsOK /\ AttemptsOK /\ OrderOK

-----------------------------------------------------------------------------
(* Lemmas *)

\* Whether a plan fits its budget does not change while it runs.
LEMMA AdmittedFixed == UNCHANGED inputs => (Admitted' <=> Admitted)
  BY DEF inputs, Admitted, Ancestors

\* Failure propagation settles open tasks and touches no other.
LEMMA PropagatedFacts ==
    ASSUME TypeOK
    PROVE  /\ Propagated \in [Tasks -> TaskStatus]
           /\ \A t \in Tasks : \/ Propagated[t] = status[t]
                               \/ Open(t) /\ Propagated[t] \in {"BLOCKED", "SKIPPED"}
  BY DEF TypeOK, Propagated, Doomed, TaskStatus

\* The inputs: sizes and limits are natural numbers.
LEMMA InputFacts ==
    ASSUME TypeOK
    PROVE  /\ plan.deps \in [Tasks -> SUBSET Tasks]
           /\ plan.maxAttempts \in [Tasks -> Nat \ {0}]
           /\ budget.total \in Nat /\ budget.calls \in Nat /\ budget.perTask \in Nat
  BY PlansAssumption DEF TypeOK

LEMMA AssessmentFacts ==
    ASSUME NEW st
    PROVE  Assessment(st) \in {"COMPLETED", "PARTIAL", "FAILED", "BLOCKED"}
  BY DEF Assessment

\* A step, outside a call, in which tasks are at most settled.
Settles ==
    /\ \A t \in Tasks : \/ status'[t] = status[t]
                        \/ Open(t) /\ status'[t] \in {"BLOCKED", "SKIPPED"}
    /\ UNCHANGED <<inputs, attempts, made, executed, current>>
    /\ pc \notin {"calling", "called"} /\ pc' \notin {"calling", "called"}
    /\ pc' \in {"round", "stopping"} => Admitted
    /\ UNCHANGED <<total, calls>> \/ ~Live'

LEMMA SettlingKeeps ==
    ASSUME Inductive, TypeOK', Settles
    PROVE  Inductive'
  <1> USE DEF Inductive
  <1>1. UNCHANGED inputs /\ plan' = plan /\ budget' = budget /\ (Admitted' <=> Admitted)
    BY AdmittedFixed DEF Settles, inputs
  <1>2. PhaseOK'
    BY <1>1 DEF PhaseOK, Settles
  <1>3. CountersOK'
    <2>1. Live' => Live
      BY <1>1 DEF Live, Settles, Open
    <2> QED
      BY <2>1 DEF CountersOK, Settles
  <1>4. LimitsOK'
    BY <1>1 DEF LimitsOK, Settles
  <1>5. AttemptsOK'
    BY <1>1 DEF AttemptsOK, Settles
  <1>6. OrderOK'
    BY <1>1, InputFacts DEF OrderOK, Settles, Open
  <1> QED
    BY <1>2, <1>3, <1>4, <1>5, <1>6

-----------------------------------------------------------------------------
(* The invariant holds initially, and every action keeps it *)

LEMMA InitInductive == Init => Inductive
  <1> SUFFICES ASSUME Init PROVE Inductive
    OBVIOUS
  <1> USE DEF Init
  <1>1. TypeOK
    BY DEF TypeOK, TaskStatus, NoTask
  <1>2. PhaseOK /\ CountersOK /\ OrderOK
    BY DEF PhaseOK, CountersOK, OrderOK
  <1>3. LimitsOK /\ AttemptsOK
    BY <1>1, InputFacts DEF LimitsOK, AttemptsOK
  <1> QED
    BY <1>1, <1>2, <1>3 DEF Inductive

LEMMA StartKeeps == Inductive /\ Start => Inductive'
  <1> SUFFICES ASSUME Inductive, Start PROVE Inductive'
    OBVIOUS
  <1>1. pc = "start" /\ UNCHANGED <<inputs, attempts, current, control, history, paused, session>>
    BY DEF Start
  <1>2. CASE /\ ~Admitted /\ Stop("BUDGET_EXCEEDED") /\ UNCHANGED status
             /\ total' = 0 /\ calls' = 0 /\ partial' = FALSE
    <2>1. TypeOK'
      BY <1>1, <1>2 DEF Inductive, TypeOK, Stop, Start, inputs, control, history
    <2>2. ~Live'
      BY <1>1, <1>2, AdmittedFixed DEF Live
    <2> QED
      BY <1>1, <1>2, <2>1, <2>2, SettlingKeeps DEF Settles, Stop, history
  <1>3. CASE /\ Admitted /\ Stop("CANCELLED")
             /\ status' = [t \in Tasks |-> IF Open(t) THEN "SKIPPED" ELSE status[t]]
             /\ total' = 0 /\ calls' = 0 /\ partial' = FALSE
    <2>1. TypeOK'
      BY <1>1, <1>3 DEF Inductive, TypeOK, TaskStatus, Stop, Start, inputs, control, history
    <2>2. ~Live'
      BY <1>1, <1>3 DEF Live, Inductive, PhaseOK, Open
    <2> QED
      BY <1>1, <1>3, <2>1, <2>2, SettlingKeeps DEF Settles, Stop, history
  <1>4. CASE Admitted /\ pc' = "round" /\ UNCHANGED <<status, total, calls, partial, verdict>>
    <2>1. TypeOK'
      BY <1>1, <1>4 DEF Inductive, TypeOK, Start, inputs, control, history
    <2> QED
      BY <1>1, <1>4, <2>1, SettlingKeeps DEF Settles, history
  <1> QED
    BY <1>2, <1>3, <1>4 DEF Start

\* The loop's round that gives task t to the executor.
LEMMA StartTaskKeeps ==
    ASSUME Inductive, NEW t \in Tasks, t \in Ready(Propagated), Admitted, ~Spent,
           pc = "round", pc' = "calling", current' = t,
           attempts[t] < plan.maxAttempts[t],
           status' = [Propagated EXCEPT ![t] = "RUNNING"],
           attempts' = [attempts EXCEPT ![t] = @ + 1],
           UNCHANGED <<inputs, total, calls, made, executed>>, TypeOK'
    PROVE  Inductive'
  <1> USE DEF Inductive
  <1>1. /\ plan' = plan /\ budget' = budget /\ total' = total /\ calls' = calls
        /\ made' = made /\ executed' = executed /\ (Admitted' <=> Admitted)
    BY AdmittedFixed DEF inputs
  <1>2. /\ Open(t) /\ Propagated[t] = status[t]
        /\ \A d \in plan.deps[t] : status[d] = "SUCCEEDED" /\ d # t
    BY PropagatedFacts, InputFacts DEF Ready, Open
  <1>3. /\ status'[t] = "RUNNING"
        /\ \A u \in Tasks \ {t} : /\ status'[u] = Propagated[u]
                                  /\ \/ status'[u] = status[u]
                                     \/ Open(u) /\ status'[u] \in {"BLOCKED", "SKIPPED"}
    BY PropagatedFacts
  <1>4. /\ attempts'[t] = attempts[t] + 1
        /\ \A u \in Tasks \ {t} : attempts'[u] = attempts[u]
        /\ \A u \in Tasks : attempts[u] \in Nat /\ made[u] \in Nat
    BY DEF TypeOK
  <1>5. PhaseOK'
    BY <1>1, <1>3 DEF PhaseOK
  <1>6. CountersOK'
    <2>1. total \in Nat /\ calls \in Nat /\ budget.total \in Nat /\ budget.calls \in Nat
      BY InputFacts DEF TypeOK
    <2>2. total < budget.total /\ calls < budget.calls
      BY <2>1 DEF Spent
    <2>3. Live
      BY <1>2 DEF Live, Open
    <2> QED
      BY <1>1, <2>2, <2>3 DEF CountersOK
  <1>7. LimitsOK'
    BY <1>1 DEF LimitsOK
  <1>8. AttemptsOK'
    <2>1. \A u \in Tasks : plan.maxAttempts[u] \in Nat
      BY InputFacts
    <2> QED
      BY <1>1, <1>3, <1>4, <2>1 DEF AttemptsOK
  <1>9. OrderOK'
    <2> SUFFICES ASSUME NEW u \in Tasks, NEW d \in plan.deps[u],
                        made[u] > 0 \/ status'[u] \in {"RUNNING", "SUCCEEDED"}
                 PROVE  status'[d] = "SUCCEEDED"
      BY <1>1 DEF OrderOK
    <2>1. d \in Tasks
      BY InputFacts
    <2>2. status[d] = "SUCCEEDED"
      BY <1>2, <1>3, <2>1 DEF OrderOK, Open
    <2> QED
      BY <1>2, <1>3, <2>1, <2>2 DEF Open
  <1> QED
    BY <1>5, <1>6, <1>7, <1>8, <1>9

LEMMA RoundKeeps == Inductive /\ Round => Inductive'
  <1> SUFFICES ASSUME Inductive, Round PROVE Inductive'
    OBVIOUS
  <1>1. /\ pc = "round" /\ Admitted /\ TypeOK
        /\ UNCHANGED <<inputs, total, calls, partial, control, made, executed, paused, session>>
        /\ rounds' \in Nat
    BY DEF Inductive, Round, PhaseOK, TypeOK, history
  <1>2. ASSUME NEW v \in {"COMPLETED", "PARTIAL", "FAILED", "BLOCKED", "BUDGET_EXCEEDED"},
               Stop(v), UNCHANGED <<attempts, current>>,
               status' \in [Tasks -> TaskStatus],
               \A t \in Tasks : \/ status'[t] = status[t]
                                \/ Open(t) /\ status'[t] \in {"BLOCKED", "SKIPPED"}
        PROVE  Inductive'
    <2>1. TypeOK'
      BY <1>1, <1>2 DEF TypeOK, Stop, inputs, control
    <2> QED
      BY <1>1, <1>2, <2>1, SettlingKeeps DEF Settles, Stop
  <1>3. CASE Stop(Assessment(status)) /\ UNCHANGED <<status, attempts, current, rounds>>
    BY <1>1, <1>2, <1>3, AssessmentFacts DEF TypeOK
  <1>4. CASE cancelled /\ pc' = "stopping" /\ UNCHANGED <<status, attempts, current, verdict>>
    <2>1. TypeOK'
      BY <1>1, <1>4 DEF TypeOK, inputs, control
    <2> QED
      BY <1>1, <1>4, <2>1, SettlingKeeps DEF Settles
  <1>5. CASE Stop("BUDGET_EXCEEDED") /\ UNCHANGED <<status, attempts, current>>
    BY <1>1, <1>2, <1>5 DEF TypeOK
  <1>6. CASE ~Spent /\ Schedule
    <2> DEFINE st == Propagated
    <2>1. /\ st \in [Tasks -> TaskStatus]
          /\ \A t \in Tasks : \/ st[t] = status[t]
                              \/ Open(t) /\ st[t] \in {"BLOCKED", "SKIPPED"}
      BY <1>1, PropagatedFacts
    <2> HIDE DEF st
    <2>2. CASE /\ status' = Finalized(st) /\ Stop(Assessment(Finalized(st)))
               /\ UNCHANGED <<attempts, current>>
      <3>1. /\ status' \in [Tasks -> TaskStatus]
            /\ \A t \in Tasks : \/ status'[t] = status[t]
                                \/ Open(t) /\ status'[t] \in {"BLOCKED", "SKIPPED"}
        BY <2>1, <2>2 DEF Finalized, TaskStatus, Open
      <3> QED
        BY <1>2, <2>2, <3>1, AssessmentFacts
    <2>3. CASE \E t \in Tasks :
                 /\ IsNext(t, st)
                 /\ IF attempts[t] >= budget.perTask
                    THEN /\ status' = [st EXCEPT ![t] = "SKIPPED"]
                         /\ UNCHANGED <<attempts, current, pc, verdict>>
                    ELSE IF attempts[t] >= plan.maxAttempts[t]
                    THEN status' = st /\ Stop(Assessment(st)) /\ UNCHANGED <<attempts, current>>
                    ELSE /\ status' = [st EXCEPT ![t] = "RUNNING"]
                         /\ attempts' = [attempts EXCEPT ![t] = @ + 1]
                         /\ current' = t
                         /\ pc' = "calling"
                         /\ UNCHANGED verdict
      <3>1. PICK t \in Tasks :
                 /\ IsNext(t, st)
                 /\ \/ /\ status' = [st EXCEPT ![t] = "SKIPPED"]
                       /\ UNCHANGED <<attempts, current, pc, verdict>>
                    \/ status' = st /\ Stop(Assessment(st)) /\ UNCHANGED <<attempts, current>>
                    \/ /\ ~(attempts[t] >= plan.maxAttempts[t])
                       /\ status' = [st EXCEPT ![t] = "RUNNING"]
                       /\ attempts' = [attempts EXCEPT ![t] = @ + 1]
                       /\ current' = t
                       /\ pc' = "calling"
                       /\ UNCHANGED verdict
        BY <2>3
      <3>2. t \in Ready(st) /\ Open(t)
        BY <2>1, <3>1 DEF IsNext, Ready, Open
      <3>3. CASE /\ status' = [st EXCEPT ![t] = "SKIPPED"]
                 /\ UNCHANGED <<attempts, current, pc, verdict>>
        <4>1. /\ status' \in [Tasks -> TaskStatus]
              /\ \A u \in Tasks : \/ status'[u] = status[u]
                                  \/ Open(u) /\ status'[u] \in {"BLOCKED", "SKIPPED"}
          BY <2>1, <3>2, <3>3 DEF TaskStatus
        <4>2. TypeOK'
          BY <1>1, <3>3, <4>1 DEF TypeOK, inputs, control
        <4> QED
          BY <1>1, <3>3, <4>1, <4>2, SettlingKeeps DEF Settles
      <3>4. CASE status' = st /\ Stop(Assessment(st)) /\ UNCHANGED <<attempts, current>>
        BY <1>2, <2>1, <3>4, AssessmentFacts
      <3>5. CASE /\ ~(attempts[t] >= plan.maxAttempts[t])
                 /\ status' = [st EXCEPT ![t] = "RUNNING"]
                 /\ attempts' = [attempts EXCEPT ![t] = @ + 1]
                 /\ current' = t
                 /\ pc' = "calling"
                 /\ UNCHANGED verdict
        <4>1. /\ status' \in [Tasks -> TaskStatus] /\ status'[t] = "RUNNING"
              /\ attempts' \in [Tasks -> Nat] /\ attempts[t] < plan.maxAttempts[t]
          BY <1>1, <2>1, <3>5, InputFacts DEF TypeOK, TaskStatus
        <4>2. TypeOK'
          BY <1>1, <3>5, <4>1 DEF TypeOK, inputs, control
        <4> QED
          BY <1>1, <1>6, <3>2, <3>5, <4>1, <4>2, StartTaskKeeps DEF st
      <3> QED
        BY <3>1, <3>3, <3>4, <3>5
    <2> QED
      BY <1>6, <2>2, <2>3 DEF Schedule, st
  <1> QED
    BY <1>3, <1>4, <1>5, <1>6 DEF Round

LEMMA ApplyCancellationKeeps == Inductive /\ ApplyCancellation => Inductive'
  <1> SUFFICES ASSUME Inductive, ApplyCancellation PROVE Inductive'
    OBVIOUS
  <1>1. /\ status' \in [Tasks -> TaskStatus]
        /\ \A t \in Tasks : \/ status'[t] = status[t]
                            \/ Open(t) /\ status'[t] \in {"BLOCKED", "SKIPPED"}
    BY DEF ApplyCancellation, Inductive, TypeOK, TaskStatus
  <1>2. TypeOK'
    BY <1>1 DEF ApplyCancellation, Inductive, TypeOK, Stop, inputs, control, history
  <1> QED
    BY <1>1, <1>2, SettlingKeeps DEF ApplyCancellation, Settles, Stop, history

LEMMA CallKeeps == Inductive /\ Call => Inductive'
  <1> SUFFICES ASSUME Inductive, Call PROVE Inductive'
    OBVIOUS
  <1> USE DEF Inductive
  <1>1. /\ pc = "calling" /\ pc' = "called"
        /\ current \in Tasks /\ status[current] = "RUNNING"
        /\ made' = [made EXCEPT ![current] = @ + 1] /\ executed' = executed + 1
        /\ plan' = plan /\ budget' = budget /\ (Admitted' <=> Admitted)
        /\ UNCHANGED <<status, attempts, total, calls, partial, rounds, current, verdict>>
        /\ UNCHANGED <<cancelled, pausing, request, paused, session>>
    BY AdmittedFixed DEF Call, TypeOK, inputs, control
  <1>2. /\ made'[current] = made[current] + 1
        /\ \A t \in Tasks \ {current} : made'[t] = made[t]
        /\ \A t \in Tasks : made[t] \in Nat /\ attempts[t] \in Nat
    BY <1>1 DEF TypeOK
  <1>3. TypeOK'
    BY <1>1 DEF TypeOK
  <1>4. Live /\ Admitted
    BY <1>1 DEF Live, PhaseOK
  <1>5. total \in Nat /\ calls \in Nat /\ budget.total \in Nat /\ budget.calls \in Nat
    BY InputFacts DEF TypeOK
  <1>6. total = calls /\ executed = total /\ total < budget.total /\ calls < budget.calls
    BY <1>1, <1>4 DEF CountersOK
  <1>7. PhaseOK' /\ CountersOK' /\ LimitsOK'
    BY <1>1, <1>4, <1>5, <1>6 DEF PhaseOK, CountersOK, LimitsOK
  <1>8. AttemptsOK'
    BY <1>1, <1>2, InputFacts DEF AttemptsOK
  <1>9. OrderOK'
    BY <1>1, <1>2 DEF OrderOK
  <1> QED
    BY <1>3, <1>7, <1>8, <1>9

LEMMA ReturnKeeps ==
    ASSUME Inductive, NEW result \in Results, Return(result)
    PROVE  Inductive'
  <1> USE DEF Inductive
  <1>1. /\ pc = "called" /\ pc' = "round"
        /\ current \in Tasks /\ status[current] = "RUNNING"
        /\ total' = total + 1 /\ calls' = calls + 1 /\ current' = NoTask
        /\ partial' = (partial \/ result = "PARTIAL")
        /\ plan' = plan /\ budget' = budget /\ (Admitted' <=> Admitted)
        /\ UNCHANGED <<attempts, rounds, verdict, cancelled, pausing, request>>
        /\ UNCHANGED <<made, executed, paused, session>>
    BY AdmittedFixed DEF Return, TypeOK, inputs, control, history
  <1>2. PICK s \in {"SUCCEEDED", "BLOCKED", "FAILED", "READY"} :
            /\ status' = [status EXCEPT ![current] = s]
            /\ s = "READY" => MayRetry(current)
    BY DEF Return, Ended, Results
  <1>3. /\ status'[current] = s
        /\ \A t \in Tasks \ {current} : status'[t] = status[t] /\ status[t] # "RUNNING"
    BY <1>1, <1>2 DEF TypeOK, PhaseOK
  <1>4. TypeOK'
    BY <1>1, <1>2 DEF TypeOK, TaskStatus
  <1>5. PhaseOK'
    BY <1>1, <1>3 DEF PhaseOK
  <1>6. CountersOK' /\ LimitsOK'
    <2>1. Live
      BY <1>1 DEF Live, PhaseOK
    <2> QED
      BY <1>1, <2>1 DEF CountersOK, LimitsOK
  <1>7. AttemptsOK'
    BY <1>1, <1>2, <1>3 DEF AttemptsOK, MayRetry
  <1>8. OrderOK'
    <2> SUFFICES ASSUME NEW t \in Tasks, NEW d \in plan.deps[t],
                        made[t] > 0 \/ status'[t] \in {"RUNNING", "SUCCEEDED"}
                 PROVE  status'[d] = "SUCCEEDED"
      BY <1>1 DEF OrderOK
    <2>1. d \in Tasks
      BY InputFacts
    <2>2. status[d] = "SUCCEEDED"
      BY <1>1, <1>3 DEF OrderOK
    <2> QED
      BY <1>1, <1>3, <2>1, <2>2
  <1> QED
    BY <1>4, <1>5, <1>6, <1>7, <1>8

LEMMA FinishKeeps == Inductive /\ Finish => Inductive'
  <1> SUFFICES ASSUME Inductive, Finish PROVE Inductive'
    OBVIOUS
  <1>1. TypeOK'
    BY DEF Finish, Inductive, TypeOK, inputs, control, history
  <1> QED
    BY <1>1, SettlingKeeps DEF Finish, Settles, history

LEMMA ResumeKeeps == Inductive /\ Resume => Inductive'
  <1> SUFFICES ASSUME Inductive, Resume PROVE Inductive'
    OBVIOUS
  <1>1. TypeOK'
    <2>1. session' \in Nat
      BY DEF Resume, Inductive, TypeOK
    <2>2. paused' \in BOOLEAN /\ cancelled' \in BOOLEAN /\ pausing' \in BOOLEAN
      BY Zenon DEF Resume
    <2> QED
      BY <2>1, <2>2 DEF Resume, Inductive, TypeOK, inputs, history
  <1> QED
    BY <1>1, SettlingKeeps DEF Resume, Settles, history

\* The control token touches nothing the invariant speaks of.
LEMMA TokenKeeps ==
    ASSUME Inductive, RequestPause \/ RequestCancel \/ CompleteRequest
    PROVE  Inductive'
  <1> USE DEF Inductive
  <1>1. UNCHANGED <<inputs, engine, history, paused, session>> /\ (Admitted' <=> Admitted)
    BY AdmittedFixed DEF RequestPause, RequestCancel, CompleteRequest
  <1>2. TypeOK'
    <2>1. cancelled' \in BOOLEAN /\ pausing' \in BOOLEAN
      BY DEF RequestPause, RequestCancel, CompleteRequest, TypeOK
    <2>2. request' = "none" \/ request' \in {"pause", "cancel"}
      BY DEF RequestPause, RequestCancel, CompleteRequest
    <2> QED
      BY <1>1, <2>1, <2>2 DEF TypeOK, inputs, engine, history
  <1>3. PhaseOK' /\ CountersOK'
    BY <1>1 DEF PhaseOK, CountersOK, Live, inputs, engine, history
  <1>4. LimitsOK' /\ AttemptsOK' /\ OrderOK'
    BY <1>1 DEF LimitsOK, AttemptsOK, OrderOK, inputs, engine, history
  <1> QED
    BY <1>2, <1>3, <1>4

LEMMA NextKeeps == Inductive /\ [Next]_vars => Inductive'
  <1> SUFFICES ASSUME Inductive, [Next]_vars PROVE Inductive'
    OBVIOUS
  <1>1. CASE UNCHANGED vars
    <2>1. UNCHANGED <<inputs, engine, control, history, paused, session>>
          /\ (Admitted' <=> Admitted)
      BY <1>1, AdmittedFixed DEF vars
    <2>2. TypeOK' /\ PhaseOK' /\ CountersOK'
      BY <2>1 DEF Inductive, TypeOK, PhaseOK, CountersOK, Live, inputs, engine, control, history
    <2>3. LimitsOK' /\ AttemptsOK' /\ OrderOK'
      BY <2>1 DEF Inductive, LimitsOK, AttemptsOK, OrderOK, inputs, engine, history
    <2> QED
      BY <2>2, <2>3 DEF Inductive
  <1>2. CASE Start \/ Round \/ ApplyCancellation
    BY <1>2, StartKeeps, RoundKeeps, ApplyCancellationKeeps
  <1>3. CASE Call \/ Finish \/ Resume
    BY <1>3, CallKeeps, FinishKeeps, ResumeKeeps
  <1>4. CASE \E result \in Results : Return(result)
    BY <1>4, ReturnKeeps
  <1>5. CASE RequestPause \/ RequestCancel \/ CompleteRequest
    BY <1>5, TokenKeeps
  <1> QED
    BY <1>1, <1>2, <1>3, <1>4, <1>5 DEF Next

-----------------------------------------------------------------------------
(* Why the loop ends, and what it leaves behind *)

\* The calls made, told apart by their task and their number.
Tries == {x \in Tasks \X (1..budget.perTask) : x[2] <= made[x[1]]}

\* Every round of a session but the last has paid with a call.
RoundsPaid ==
    /\ Cardinality(Tries) = executed
    /\ pc \in {"round", "called"} => rounds <= executed
    /\ pc = "calling" => rounds <= executed + 1
    /\ pc = "called" => made[current] > 0

\* A task that waits for its retry could be started at once.
RetriesOK ==
    \A t \in Tasks : status[t] = "READY" =>
        \A d \in plan.deps[t] : status[d] = "SUCCEEDED"

NothingOpen ==
    Natural => \A t \in Tasks : status[t] \notin {"PENDING", "READY", "RUNNING"}

\* Before any resume, a task that is settled without a call has a failure
\* upstream, unless a stop settled it.
Explained ==
    session = 0 /\ (pc \in {"finish", "done"} => Natural) =>
        \A t \in Tasks : status[t] \in Failing \cup {"SUCCEEDED"} /\ made[t] = 0
            => \E d \in plan.deps[t] : status[d] \in Failing

LoopOK == RoundsPaid /\ RetriesOK /\ NothingOpen /\ Explained

\* A doomed task has a dependency that has failed or is doomed itself.
LEMMA DoomedHasReason ==
    ASSUME TypeOK, NEW t \in Doomed
    PROVE  Open(t) /\ \E d \in plan.deps[t] : status[d] \in Failing \/ d \in Doomed
  <1>1. t \in Tasks /\ Open(t)
    BY DEF Doomed
  <1> SUFFICES ASSUME ~\E d \in plan.deps[t] : status[d] \in Failing \/ d \in Doomed
               PROVE  FALSE
    BY <1>1
  <1> DEFINE S == Doomed \ {t}
  <1>2. S \in SUBSET Tasks
    BY DEF Doomed
  <1>3. ASSUME NEW u \in Tasks, Open(u), \E d \in plan.deps[u] : status[d] \in Failing \/ d \in S
        PROVE  u \in S
    <2>1. u # t
      BY <1>3
    <2>2. ASSUME NEW T \in SUBSET Tasks,
                 \A v \in Tasks :
                    (Open(v) /\ \E d \in plan.deps[v] : status[d] \in Failing \/ d \in T)
                        => v \in T
          PROVE  u \in T
      <3>1. Doomed \subseteq T
        BY <2>2 DEF Doomed
      <3> QED
        BY <1>3, <2>2, <3>1
    <2>3. u \in Doomed
      BY <1>3, <2>2 DEF Doomed
    <2> QED
      BY <2>1, <2>3
  <1>4. t \in S
    BY <1>2, <1>3 DEF Doomed
  <1> QED
    BY <1>4

\* Propagation gives every task it settles a failed dependency.
LEMMA PropagatedHasReason ==
    ASSUME TypeOK, NEW t \in Tasks, Propagated[t] # status[t]
    PROVE  \E d \in plan.deps[t] : Propagated[d] \in Failing
  <1>1. t \in Doomed
    BY DEF Propagated
  <1>2. PICK d \in plan.deps[t] : status[d] \in Failing \/ d \in Doomed
    BY <1>1, DoomedHasReason
  <1>3. d \in Tasks
    BY InputFacts
  <1> QED
    BY <1>2, <1>3 DEF Propagated, Failing

\* In the loop a ready task has an attempt left.
LEMMA AttemptsRemain == Inductive => AttemptsLeft
  <1> SUFFICES ASSUME Inductive, pc = "round", NEW t \in Tasks, t \in Ready(Propagated)
               PROVE  attempts[t] < budget.perTask /\ attempts[t] < plan.maxAttempts[t]
    BY DEF AttemptsLeft, Ready
  <1>1. status[t] \in {"PENDING", "READY"}
    BY PropagatedFacts DEF Ready, Inductive, Open
  <1>2. plan.maxAttempts[t] <= budget.perTask
    BY DEF Inductive, PhaseOK, Admitted
  <1>3. attempts[t] < plan.maxAttempts[t]
    BY <1>1, InputFacts DEF Inductive, AttemptsOK, TypeOK
  <1> QED
    BY <1>2, <1>3, InputFacts DEF Inductive, TypeOK

\* There are at most perTask calls of each task, so rounds are left.
LEMMA RoundsRemain == Inductive /\ RoundsPaid => RoundsLeft
  <1> SUFFICES ASSUME Inductive, RoundsPaid, pc = "round" PROVE rounds < MaxRounds
    BY DEF RoundsLeft
  <1> DEFINE most == Cardinality(Tasks) * budget.perTask
  <1>1. budget.perTask \in Nat /\ rounds \in Nat /\ executed \in Nat
    BY InputFacts DEF Inductive, TypeOK
  <1>2. IsFiniteSet(Tasks) /\ Cardinality(Tasks) \in Nat
    BY PlansAssumption, FS_CardinalityType
  <1> DEFINE numbers == 1..budget.perTask
             all == Tasks \X numbers
  <1>3. IsFiniteSet(numbers) /\ Cardinality(numbers) = budget.perTask
    <2>1. IsFiniteSet(numbers)
      BY <1>1, FS_Interval
    <2>2. Cardinality(numbers) = budget.perTask
      BY <1>1, FS_Interval
    <2> QED
      BY <2>1, <2>2
  <1>4. IsFiniteSet(all) /\ Cardinality(all) = most
    <2> HIDE DEF numbers
    <2> QED
      BY <1>2, <1>3, FS_Product
  <1>5. Cardinality(Tries) <= most
    <2>1. Tries \in SUBSET all
      BY DEF Tries
    <2> HIDE DEF all
    <2> QED
      BY <1>4, <2>1, FS_Subset
  <1>6. most \in Nat
    BY <1>4, FS_CardinalityType
  <1> HIDE DEF most
  <1>7. rounds <= most
    BY <1>1, <1>5, <1>6 DEF RoundsPaid
  <1>8. rounds < most + Cardinality(Tasks) + 2
    BY <1>1, <1>2, <1>6, <1>7
  <1> QED
    BY <1>8 DEF MaxRounds, most

LEMMA InitLoop == Init => LoopOK
  <1> SUFFICES ASSUME Init PROVE LoopOK
    OBVIOUS
  <1> USE DEF Init
  <1>1. Tries = {}
    <2>1. budget.perTask \in Nat
      BY InitInductive, InputFacts DEF Inductive
    <2> QED
      BY <2>1 DEF Tries
  <1>2. RoundsPaid
    BY <1>1, FS_EmptySet DEF RoundsPaid
  <1> QED
    BY <1>2 DEF LoopOK, RetriesOK, NothingOpen, Natural, Explained, Failing

LEMMA TriesFixed == UNCHANGED <<budget, made>> => Tries' = Tries
  BY DEF Tries

\* A step that leaves the tasks alone and neither enters the loop nor ends it
\* without a stop.
LEMMA QuietKeepsLoop ==
    ASSUME Inductive, LoopOK,
           UNCHANGED <<inputs, status, rounds, current, made, executed>>,
           pc' \in {"round", "calling", "called"} => pc' = pc,
           Natural' => Natural,
           session' = 0 => session = 0 /\ (pc \in {"finish", "done"} /\ Natural' => Natural)
                             /\ (pc \in {"finish", "done"} => pc' \in {"finish", "done"})
    PROVE  LoopOK'
  <1> USE DEF LoopOK
  <1>1. plan' = plan /\ budget' = budget /\ Tries' = Tries
    BY TriesFixed DEF inputs
  <1>2. RoundsPaid'
    BY <1>1 DEF RoundsPaid
  <1>3. RetriesOK' /\ NothingOpen'
    BY <1>1 DEF RetriesOK, NothingOpen
  <1>4. Explained'
    BY <1>1 DEF Explained
  <1> QED
    BY <1>2, <1>3, <1>4

LEMMA StartKeepsLoop == Inductive /\ LoopOK /\ Start => LoopOK'
  <1> SUFFICES ASSUME Inductive, LoopOK, Start PROVE LoopOK'
    OBVIOUS
  <1> USE DEF LoopOK
  <1>1. /\ plan' = plan /\ budget' = budget /\ Tries' = Tries
        /\ UNCHANGED <<made, executed, session>> /\ pc = "start" /\ rounds' = 0
        /\ pc' \in {"finish", "round"}
    BY TriesFixed DEF Start, Stop, inputs, history
  <1>2. RoundsPaid'
    BY <1>1 DEF RoundsPaid, Inductive, TypeOK
  <1>3. RetriesOK'
    BY <1>1 DEF RetriesOK, Start, Open
  <1>4. ~Natural'
    BY <1>1 DEF Start, Stop, Natural
  <1>5. NothingOpen' /\ Explained'
    BY <1>1, <1>4 DEF NothingOpen, Explained, Start, Stop
  <1> QED
    BY <1>2, <1>3, <1>5

LEMMA CallKeepsLoop == Inductive /\ LoopOK /\ Call => LoopOK'
  <1> SUFFICES ASSUME Inductive, LoopOK, Call PROVE LoopOK'
    OBVIOUS
  <1> USE DEF LoopOK
  <1>1. /\ plan' = plan /\ budget' = budget /\ pc = "calling" /\ pc' = "called"
        /\ made' = [made EXCEPT ![current] = @ + 1] /\ executed' = executed + 1
        /\ UNCHANGED <<status, rounds, current, session>>
    BY DEF Call, inputs
  <1>2. /\ current \in Tasks /\ made[current] \in Nat /\ executed \in Nat /\ rounds \in Nat
        /\ made'[current] = made[current] + 1
        /\ \A t \in Tasks \ {current} : made'[t] = made[t]
        /\ \A t \in Tasks : made[t] \in Nat
    BY <1>1 DEF Inductive, TypeOK
  <1>3. made[current] + 1 <= budget.perTask /\ budget.perTask \in Nat
    <2>1. made[current] < attempts[current] /\ attempts[current] <= plan.maxAttempts[current]
      BY <1>1, <1>2 DEF Inductive, AttemptsOK
    <2>2. plan.maxAttempts[current] <= budget.perTask
      BY <1>1, <1>2 DEF Inductive, PhaseOK, Admitted
    <2> QED
      BY <1>2, <2>1, <2>2, InputFacts DEF Inductive, TypeOK
  <1>4. Cardinality(Tries') = executed'
    <2> DEFINE new == <<current, made[current] + 1>>
    <2>1. Tries' = Tries \cup {new}
      <3>1. ASSUME NEW x \in Tries' PROVE x \in Tries \cup {new}
        BY <1>1, <1>2 DEF Tries
      <3>2. ASSUME NEW x \in Tries PROVE x \in Tries'
        BY <1>1, <1>2 DEF Tries
      <3>3. new \in Tries'
        BY <1>1, <1>2, <1>3 DEF Tries
      <3> QED
        BY <3>1, <3>2, <3>3
    <2>2. new \notin Tries
      BY <1>2 DEF Tries
    <2>3. IsFiniteSet(Tries)
      <3>1. IsFiniteSet(Tasks) /\ IsFiniteSet(1..budget.perTask)
        BY <1>3, PlansAssumption, FS_Interval
      <3>2. IsFiniteSet(Tasks \X (1..budget.perTask))
        BY <3>1, FS_Product
      <3> QED
        BY <3>2, FS_Subset DEF Tries
    <2> HIDE DEF new
    <2>4. Cardinality(Tries \cup {new}) = Cardinality(Tries) + 1
      BY <2>2, <2>3, FS_AddElement
    <2> QED
      BY <1>1, <2>1, <2>4 DEF RoundsPaid
  <1>5. RoundsPaid'
    BY <1>1, <1>2, <1>4 DEF RoundsPaid
  <1>6. RetriesOK' /\ NothingOpen'
    BY <1>1 DEF RetriesOK, NothingOpen, Natural
  <1>7. Explained'
    BY <1>1, <1>2 DEF Explained
  <1> QED
    BY <1>5, <1>6, <1>7

LEMMA ReturnKeepsLoop ==
    ASSUME Inductive, LoopOK, NEW result \in Results, Return(result)
    PROVE  LoopOK'
  <1> USE DEF LoopOK
  <1>1. /\ plan' = plan /\ budget' = budget /\ Tries' = Tries /\ pc = "called" /\ pc' = "round"
        /\ UNCHANGED <<rounds, made, executed, session>>
        /\ current \in Tasks /\ status[current] = "RUNNING" /\ made[current] > 0
    BY TriesFixed DEF Return, RoundsPaid, Inductive, TypeOK, inputs, history
  <1>2. PICK s \in {"SUCCEEDED", "BLOCKED", "FAILED", "READY"} :
            status' = [status EXCEPT ![current] = s]
    BY DEF Return, Ended, Results
  <1>3. /\ status'[current] = s
        /\ \A t \in Tasks \ {current} : status'[t] = status[t]
    BY <1>1, <1>2 DEF Inductive, TypeOK
  <1>4. RoundsPaid'
    BY <1>1 DEF RoundsPaid
  <1>5. RetriesOK'
    BY <1>1, <1>3, InputFacts DEF RetriesOK, Inductive, OrderOK
  <1>6. NothingOpen'
    BY <1>1 DEF NothingOpen, Natural
  <1>7. Explained'
    <2> SUFFICES ASSUME session = 0, NEW t \in Tasks, made[t] = 0,
                        status'[t] \in Failing \cup {"SUCCEEDED"}
                 PROVE  \E d \in plan.deps[t] : status'[d] \in Failing
      BY <1>1 DEF Explained
    <2>1. PICK d \in plan.deps[t] : status[d] \in Failing
      BY <1>1, <1>3 DEF Explained
    <2>2. d \in Tasks \ {current}
      BY <1>1, <2>1, InputFacts DEF Failing, Inductive
    <2> QED
      BY <1>3, <2>1, <2>2
  <1> QED
    BY <1>4, <1>5, <1>6, <1>7

\* A round starts a task, ends the run when nothing is ready, or stops it; the
\* loop's other guards are never taken.
LEMMA RoundKeepsLoop == Inductive /\ LoopOK /\ Round => LoopOK'
  <1> SUFFICES ASSUME Inductive, LoopOK, Round PROVE LoopOK'
    OBVIOUS
  <1> USE DEF LoopOK
  <1> DEFINE st == Propagated
  <1>1. /\ plan' = plan /\ budget' = budget /\ Tries' = Tries /\ pc = "round"
        /\ UNCHANGED <<made, executed, session>> /\ TypeOK
        /\ rounds \in Nat /\ executed \in Nat
    BY TriesFixed DEF Round, Inductive, TypeOK, inputs, history
  <1>2. rounds < MaxRounds /\ AttemptsLeft
    BY <1>1, RoundsRemain, AttemptsRemain DEF RoundsLeft
  <1>3. /\ st \in [Tasks -> TaskStatus]
        /\ \A t \in Tasks : /\ st[t] # "RUNNING"
                            /\ \/ st[t] = status[t]
                               \/ Open(t) /\ st[t] \in {"BLOCKED", "SKIPPED"}
    BY <1>1, PropagatedFacts DEF Inductive, PhaseOK
  <1>4. \A t \in Tasks : st[t] \in Failing \cup {"SUCCEEDED"} /\ made[t] = 0 /\ session = 0
           => \E d \in plan.deps[t] : st[d] \in Failing
    <2> SUFFICES ASSUME NEW t \in Tasks, made[t] = 0, session = 0,
                        st[t] \in Failing \cup {"SUCCEEDED"}
                 PROVE  \E d \in plan.deps[t] : st[d] \in Failing
      OBVIOUS
    <2>1. CASE st[t] = status[t]
      <3>1. PICK d \in plan.deps[t] : status[d] \in Failing
        BY <1>1, <2>1 DEF Explained
      <3>2. d \in Tasks
        BY <1>1, InputFacts
      <3> QED
        BY <1>3, <3>1, <3>2 DEF Open, Failing
    <2>2. CASE st[t] # status[t]
      BY <1>1, <2>2, PropagatedHasReason
    <2> QED
      BY <2>1, <2>2
  <1>5. \A t \in Tasks : st[t] = "READY" => t \in Ready(st)
    <2> SUFFICES ASSUME NEW t \in Tasks, st[t] = "READY", NEW d \in plan.deps[t]
                 PROVE  st[d] = "SUCCEEDED"
      BY DEF Ready
    <2>1. d \in Tasks /\ status[d] = "SUCCEEDED"
      BY <1>1, <1>3, InputFacts DEF RetriesOK
    <2> QED
      BY <1>3, <2>1 DEF Open
  <1> HIDE DEF st
  <1>6. CASE UNCHANGED status /\ pc' = "stopping"
    BY <1>1, <1>6 DEF RoundsPaid, RetriesOK, NothingOpen, Natural, Explained
  <1>7. CASE UNCHANGED status /\ Stop("BUDGET_EXCEEDED")
    BY <1>1, <1>7 DEF RoundsPaid, RetriesOK, NothingOpen, Natural, Explained, Stop
  <1>8. CASE /\ Ready(st) = {} /\ status' = Finalized(st)
             /\ Stop(Assessment(Finalized(st)))
    <2>1. \A t \in Tasks : /\ st[t] # "PENDING" => status'[t] = st[t]
                           /\ st[t] = "PENDING" => status'[t] \in {"BLOCKED", "SKIPPED"}
      BY <1>8 DEF Finalized
    <2>2. \A t \in Tasks : status'[t] \in Failing \cup {"SUCCEEDED"}
      BY <1>3, <1>5, <1>8, <2>1 DEF TaskStatus, Failing
    <2>3. RoundsPaid' /\ RetriesOK' /\ NothingOpen'
      BY <1>1, <1>8, <2>2 DEF RoundsPaid, RetriesOK, NothingOpen, Stop, Failing
    <2>4. ASSUME NEW t \in Tasks, made[t] = 0, session = 0
          PROVE  \E d \in plan.deps[t] : status'[d] \in Failing
      <3>1. CASE st[t] = "PENDING"
        <4>1. PICK d \in plan.deps[t] : st[d] # "SUCCEEDED"
          BY <1>8, <3>1 DEF Ready
        <4>2. d \in Tasks
          BY <1>1, InputFacts
        <4> QED
          BY <2>1, <2>2, <4>1, <4>2 DEF Failing
      <3>2. CASE st[t] # "PENDING"
        <4>1. PICK d \in plan.deps[t] : st[d] \in Failing
          BY <1>4, <2>1, <2>2, <2>4, <3>2
        <4>2. d \in Tasks
          BY <1>1, InputFacts
        <4> QED
          BY <2>1, <4>1, <4>2 DEF Failing
      <3> QED
        BY <3>1, <3>2
    <2>5. Explained'
      BY <1>1, <2>4 DEF Explained
    <2> QED
      BY <2>3, <2>5
  <1>9. CASE \E t \in Tasks : /\ IsNext(t, st)
                              /\ status' = [st EXCEPT ![t] = "RUNNING"]
                              /\ current' = t /\ pc' = "calling" /\ rounds' = rounds + 1
    <2>1. PICK t \in Tasks : /\ t \in Ready(st)
                             /\ status' = [st EXCEPT ![t] = "RUNNING"]
                             /\ current' = t /\ pc' = "calling" /\ rounds' = rounds + 1
      BY <1>9 DEF IsNext
    <2>2. /\ status'[t] = "RUNNING" /\ st[t] \in {"PENDING", "READY"}
          /\ \A u \in Tasks \ {t} : status'[u] = st[u]
      BY <1>3, <2>1 DEF Ready
    <2>3. RoundsPaid'
      BY <1>1, <2>1 DEF RoundsPaid
    <2>4. RetriesOK'
      <3> SUFFICES ASSUME NEW u \in Tasks, status'[u] = "READY", NEW d \in plan.deps[u]
                   PROVE  status'[d] = "SUCCEEDED"
        BY <1>1 DEF RetriesOK
      <3>1. d \in Tasks /\ st[d] = "SUCCEEDED"
        BY <1>1, <1>5, <2>2, InputFacts DEF Ready
      <3> QED
        BY <2>2, <3>1
    <2>5. NothingOpen'
      BY <2>1 DEF NothingOpen, Natural
    <2>6. Explained'
      <3> SUFFICES ASSUME NEW u \in Tasks, status'[u] \in Failing \cup {"SUCCEEDED"},
                          made[u] = 0, session = 0
                   PROVE  \E d \in plan.deps[u] : status'[d] \in Failing
        BY <1>1 DEF Explained
      <3>1. PICK d \in plan.deps[u] : st[d] \in Failing
        BY <1>4, <2>2 DEF Failing
      <3>2. d \in Tasks
        BY <1>1, InputFacts
      <3> QED
        BY <2>2, <3>1, <3>2 DEF Failing
    <2> QED
      BY <2>3, <2>4, <2>5, <2>6
  <1>10. /\ rounds' = rounds + 1
         /\ \/ pc' = "stopping" /\ UNCHANGED status
            \/ Stop("BUDGET_EXCEEDED") /\ UNCHANGED status
            \/ Schedule
    <2>1. budget.perTask \in Nat /\ IsFiniteSet(Tasks) /\ Cardinality(Tasks) \in Nat
      BY <1>1, InputFacts, PlansAssumption, FS_CardinalityType
    <2>2. MaxRounds \in Nat
      <3>1. Cardinality(Tasks) * budget.perTask \in Nat
        BY <2>1
      <3> QED
        BY <2>1, <3>1 DEF MaxRounds
    <2>3. ~(rounds >= MaxRounds)
      BY <1>1, <1>2, <2>2
    <2> QED
      BY <2>3 DEF Round
  <1>11. CASE Schedule
    <2>1. CASE \E t \in Tasks :
                 /\ IsNext(t, st)
                 /\ IF attempts[t] >= budget.perTask
                    THEN /\ status' = [st EXCEPT ![t] = "SKIPPED"]
                         /\ UNCHANGED <<attempts, current, pc, verdict>>
                    ELSE IF attempts[t] >= plan.maxAttempts[t]
                    THEN status' = st /\ Stop(Assessment(st)) /\ UNCHANGED <<attempts, current>>
                    ELSE /\ status' = [st EXCEPT ![t] = "RUNNING"]
                         /\ attempts' = [attempts EXCEPT ![t] = @ + 1]
                         /\ current' = t
                         /\ pc' = "calling"
                         /\ UNCHANGED verdict
      <3>1. \A t \in Tasks : IsNext(t, st) =>
               ~(attempts[t] >= budget.perTask) /\ ~(attempts[t] >= plan.maxAttempts[t])
        <4> SUFFICES ASSUME NEW t \in Tasks, t \in Ready(st)
                     PROVE  ~(attempts[t] >= budget.perTask) /\ ~(attempts[t] >= plan.maxAttempts[t])
          BY DEF IsNext
        <4>1. attempts[t] < budget.perTask /\ attempts[t] < plan.maxAttempts[t]
          BY <1>1, <1>2 DEF AttemptsLeft, st
        <4>2. attempts[t] \in Nat /\ budget.perTask \in Nat /\ plan.maxAttempts[t] \in Nat
          BY <1>1, InputFacts DEF TypeOK
        <4> QED
          BY <4>1, <4>2
      <3> QED
        BY <1>9, <1>10, <2>1, <3>1
    <2> QED
      BY <1>8, <1>11, <2>1 DEF Schedule, st
  <1> QED
    BY <1>6, <1>7, <1>10, <1>11

LEMMA LoopKeeps == Inductive /\ LoopOK /\ [Next]_vars => LoopOK'
  <1> SUFFICES ASSUME Inductive, LoopOK, [Next]_vars PROVE LoopOK'
    OBVIOUS
  <1>1. CASE Start \/ Round \/ Call
    BY <1>1, StartKeepsLoop, RoundKeepsLoop, CallKeepsLoop
  <1>2. CASE \E result \in Results : Return(result)
    BY <1>2, ReturnKeepsLoop
  <1>3. CASE ApplyCancellation
    <2>1. /\ plan' = plan /\ budget' = budget /\ Tries' = Tries /\ pc' = "finish"
          /\ UNCHANGED <<made, executed>> /\ ~Natural'
      BY <1>3, TriesFixed DEF ApplyCancellation, Stop, Natural, inputs, history
    <2>2. \A t \in Tasks : status'[t] = status[t] \/ (status'[t] = "SKIPPED" /\ Open(t))
      BY <1>3 DEF ApplyCancellation
    <2>3. RetriesOK'
      <3> SUFFICES ASSUME NEW t \in Tasks, status'[t] = "READY", NEW d \in plan.deps[t]
                   PROVE  status'[d] = "SUCCEEDED"
        BY <2>1 DEF RetriesOK
      <3>1. d \in Tasks /\ status[d] = "SUCCEEDED"
        BY <2>2, InputFacts DEF LoopOK, RetriesOK, Inductive
      <3> QED
        BY <2>2, <3>1 DEF Open
    <2> QED
      BY <2>1, <2>3 DEF LoopOK, RoundsPaid, NothingOpen, Explained
  <1>4. CASE Finish
    BY <1>4, QuietKeepsLoop DEF Finish, Natural, history
  <1>5. CASE Resume
    <2>1. session' # 0
      BY <1>5 DEF Resume, Inductive, TypeOK
    <2> QED
      BY <1>5, <2>1, QuietKeepsLoop DEF Resume, Natural, history
  <1>6. CASE RequestPause \/ RequestCancel \/ CompleteRequest
    BY <1>6, QuietKeepsLoop
    DEF RequestPause, RequestCancel, CompleteRequest, engine, Natural, history
  <1>7. CASE UNCHANGED vars
    BY <1>7, QuietKeepsLoop DEF vars, engine, Natural, history
  <1> QED
    BY <1>1, <1>2, <1>3, <1>4, <1>5, <1>6, <1>7 DEF Next

-----------------------------------------------------------------------------
(* Theorems *)

\* The inductive invariant holds in every reachable state.
THEOREM InductiveInvariant == Spec => []Inductive
  BY InitInductive, NextKeeps, PTL DEF Spec

\* The engine's variables keep their types; a run has a verdict exactly from
\* the moment it leaves the loop.
THEOREM TypeCorrect == Spec => []TypeOK
  <1>1. Inductive => TypeOK
    BY DEF Inductive
  <1> QED
    BY <1>1, InductiveInvariant, PTL

\* The budget and the attempts of each task hold over a run and all its resumes.
THEOREM BudgetHolds == Spec => []BudgetRespected
  <1>1. Inductive => BudgetRespected
    BY InputFacts DEF Inductive, BudgetRespected, LimitsOK, AttemptsOK, TypeOK
  <1> QED
    BY <1>1, InductiveInvariant, PTL

\* A task is given to the executor only after all it depends on has succeeded:
\* the succeeded tasks are a set that is closed under dependencies.
THEOREM DependenciesHold == Spec => []DependenciesFirst
  <1>1. Inductive => DependenciesFirst
    <2> SUFFICES ASSUME Inductive, NEW t \in Tasks, made[t] > 0, NEW a \in Ancestors(t)
                 PROVE  status[a] = "SUCCEEDED"
      BY DEF DependenciesFirst
    <2> DEFINE done == {u \in Tasks : status[u] = "SUCCEEDED"}
    <2>1. plan.deps[t] \subseteq done
      BY InputFacts DEF Inductive, OrderOK
    <2>2. \A s \in done : plan.deps[s] \subseteq done
      BY InputFacts DEF Inductive, OrderOK
    <2> QED
      BY <2>1, <2>2 DEF Ancestors
  <1> QED
    BY <1>1, InductiveInvariant, PTL

\* The two invariants together.
THEOREM LoopInvariant == Spec => [](Inductive /\ LoopOK)
  BY InitInductive, InitLoop, NextKeeps, LoopKeeps, PTL DEF Spec

\* The engine's guards against a loop without progress and against spent tasks
\* are never needed: every round but the last makes a call, and there are too
\* few calls to make.
THEOREM GuardsAreIdle == Spec => []GuardsNeverFire
  <1>1. Inductive /\ LoopOK => GuardsNeverFire
    BY RoundsRemain, AttemptsRemain DEF GuardsNeverFire, LoopOK
  <1> QED
    BY <1>1, LoopInvariant, PTL

\* A run that no stop ended has settled every task, and what it never tried has
\* a failure upstream.
THEOREM EverythingSettles == Spec => []EverythingSettled
  <1>1. Inductive /\ LoopOK => EverythingSettled
    BY DEF EverythingSettled, LoopOK, NothingOpen, Explained, Natural, Inductive, TypeOK,
           TaskStatus, Failing
  <1> QED
    BY <1>1, LoopInvariant, PTL

\* A task that has ended keeps its end: nothing runs a failed, blocked or skipped
\* task again or renames its end, in this session or a resumed one, and no
\* call is made for it.
SettledKept ==
    [][\A t \in Tasks : status[t] \notin {"PENDING", "READY", "RUNNING"}
          => status'[t] = status[t] /\ made'[t] = made[t]]_vars

\* A retry takes place before a task ends, never after, and neither failure
\* propagation nor a stop rewrites an end: a resume continues with what is open
\* and leaves the rest as it was.
THEOREM SettledStays == Spec => SettledKept
  <1>1. Inductive /\ [Next]_vars =>
           [\A t \in Tasks : status[t] \notin {"PENDING", "READY", "RUNNING"}
                => status'[t] = status[t] /\ made'[t] = made[t]]_vars
    <2> SUFFICES ASSUME Inductive, Next, NEW t \in Tasks,
                        status[t] \notin {"PENDING", "READY", "RUNNING"}
                 PROVE  status'[t] = status[t] /\ made'[t] = made[t]
      OBVIOUS
    <2> USE DEF Inductive
    <2>1. CASE Round
      <3>1. made' = made
        BY <2>1 DEF Round, history
      <3>2. Propagated \in [Tasks -> TaskStatus] /\ Propagated[t] = status[t]
        BY PropagatedFacts DEF Open
      <3>3. \/ status' = status
            \/ status' = Finalized(Propagated)
            \/ status' = Propagated
            \/ \E u \in Ready(Propagated), s \in {"SKIPPED", "RUNNING"} :
                  status' = [Propagated EXCEPT ![u] = s]
        BY <2>1 DEF Round, Schedule, IsNext
      <3>4. t \notin Ready(Propagated)
        BY <3>2 DEF Ready
      <3> QED
        BY <3>1, <3>2, <3>3, <3>4 DEF Finalized
    <2>2. CASE Call
      BY <2>2 DEF Call, TypeOK
    <2>3. CASE \E result \in Results : Return(result)
      BY <2>3 DEF Return, TypeOK, history
    <2>4. CASE Start \/ ApplyCancellation
      BY <2>4 DEF Start, ApplyCancellation, Open, history
    <2>5. CASE Finish \/ Resume \/ RequestPause \/ RequestCancel \/ CompleteRequest
      BY <2>5 DEF Finish, Resume, RequestPause, RequestCancel, CompleteRequest, engine, history
    <2> QED
      BY <2>1, <2>2, <2>3, <2>4, <2>5 DEF Next
  <1> QED
    BY <1>1, InductiveInvariant, PTL DEF Spec, SettledKept

\* Work that has succeeded is never thrown away or done again.
THEOREM SuccessStays == Spec => SuccessKept
  <1>1. SettledKept => SuccessKept
    <2>1. [\A t \in Tasks : status[t] \notin {"PENDING", "READY", "RUNNING"}
              => status'[t] = status[t] /\ made'[t] = made[t]]_vars
          => [\A t \in Tasks : status[t] = "SUCCEEDED"
                => status'[t] = "SUCCEEDED" /\ made'[t] = made[t]]_vars
      OBVIOUS
    <2> QED
      BY <2>1, PTL DEF SettledKept, SuccessKept
  <1> QED
    BY <1>1, SettledStays

\* The verdict a caller reads is the one the tasks' ends give, whatever was
\* written to the control token after the run left its loop: COMPLETED when
\* every required task succeeded and no task failed or answered in part, FAILED
\* when a required task failed and none succeeded, BLOCKED when a required task
\* is blocked, none failed and none succeeded.
VerdictTrue ==
    LET required(s) == \E t \in plan.required : status[t] = s
    IN /\ verdict = "COMPLETED" =>
              /\ plan.required # {} /\ ~partial
              /\ \A t \in plan.required : status[t] = "SUCCEEDED"
              /\ \A t \in Tasks : status[t] # "FAILED"
       /\ verdict = "FAILED" => required("FAILED") /\ ~required("SUCCEEDED")
       /\ verdict = "BLOCKED" =>
              required("BLOCKED") /\ ~required("FAILED") /\ ~required("SUCCEEDED")

\* The verdict made of the tasks as they are left is a true one.
LEMMA AssessmentTrue ==
    ASSUME Inductive, NEW st \in [Tasks -> TaskStatus], status' = st,
           verdict' = Assessment(st), plan' = plan, partial' = partial
    PROVE  VerdictTrue'
  <1>1. plan.required \subseteq Tasks
    BY PlansAssumption DEF Inductive, TypeOK
  <1> DEFINE some(S, s) == \E t \in S : st[t] = s
  <1>2. CASE some(plan.required, "FAILED")
    <2>1. verdict' = IF some(plan.required, "SUCCEEDED") THEN "PARTIAL" ELSE "FAILED"
      BY <1>2 DEF Assessment
    <2> QED
      BY <1>2, <2>1 DEF VerdictTrue
  <1>3. CASE ~some(plan.required, "FAILED") /\ some(plan.required, "BLOCKED")
    <2>1. verdict' = IF some(plan.required, "SUCCEEDED") THEN "PARTIAL" ELSE "BLOCKED"
      BY <1>3 DEF Assessment
    <2> QED
      BY <1>3, <2>1 DEF VerdictTrue
  <1>4. CASE ~some(plan.required, "FAILED") /\ ~some(plan.required, "BLOCKED")
    <2>1. verdict' \in {"COMPLETED", "PARTIAL"}
      BY <1>4 DEF Assessment
    <2>2. verdict' = "COMPLETED" =>
            /\ plan.required # {} /\ ~partial
            /\ \A t \in plan.required : st[t] = "SUCCEEDED"
            /\ ~some(Tasks \ plan.required, "FAILED")
      BY <1>4 DEF Assessment
    <2>3. verdict' = "COMPLETED" => \A t \in Tasks : st[t] # "FAILED"
      BY <1>4, <2>2
    <2> QED
      BY <2>1, <2>2, <2>3 DEF VerdictTrue
  <1> QED
    BY <1>2, <1>3, <1>4

\* No pause, cancellation or resume makes a run's verdict say what its tasks do
\* not.
THEOREM VerdictsAreTrue == Spec => []VerdictTrue
  <1>1. Init => VerdictTrue
    BY DEF Init, VerdictTrue
  <1>2. Inductive /\ VerdictTrue /\ [Next]_vars => VerdictTrue'
    <2> SUFFICES ASSUME Inductive, VerdictTrue, [Next]_vars PROVE VerdictTrue'
      OBVIOUS
    <2>1. CASE Round
      <3>1. verdict = "NONE" /\ plan' = plan /\ partial' = partial
        BY <2>1 DEF Round, Inductive, TypeOK, inputs
      <3>2. /\ Propagated \in [Tasks -> TaskStatus] /\ Finalized(Propagated) \in [Tasks -> TaskStatus]
            /\ status \in [Tasks -> TaskStatus]
        BY PropagatedFacts DEF Finalized, TaskStatus, Inductive, TypeOK
      <3>3. \/ verdict' \in {"NONE", "BUDGET_EXCEEDED"}
            \/ \E st \in {status, Propagated, Finalized(Propagated)} :
                  status' = st /\ verdict' = Assessment(st)
        BY <2>1, <3>1 DEF Round, Schedule, Stop
      <3>4. CASE verdict' \in {"NONE", "BUDGET_EXCEEDED"}
        BY <3>4 DEF VerdictTrue
      <3>5. ASSUME NEW st \in {status, Propagated, Finalized(Propagated)},
                   status' = st, verdict' = Assessment(st)
            PROVE  VerdictTrue'
        BY <3>1, <3>2, <3>5, AssessmentTrue
      <3> QED
        BY <3>3, <3>4, <3>5
    <2>2. CASE Start \/ ApplyCancellation \/ Resume
      <3>1. verdict' \in {"NONE", "CANCELLED", "BUDGET_EXCEEDED"}
        BY <2>2 DEF Start, ApplyCancellation, Resume, Stop, Inductive, TypeOK
      <3> QED
        BY <3>1 DEF VerdictTrue
    <2>3. CASE Call \/ \E result \in Results : Return(result)
      <3>1. verdict' = "NONE"
        BY <2>3 DEF Call, Return, Inductive, TypeOK
      <3> QED
        BY <3>1 DEF VerdictTrue
    <2>4. CASE Finish \/ RequestPause \/ RequestCancel \/ CompleteRequest \/ UNCHANGED vars
      <3>1. UNCHANGED <<plan, status, partial, verdict>>
        BY <2>4 DEF Finish, RequestPause, RequestCancel, CompleteRequest, vars, inputs, engine
      <3> QED
        BY <3>1 DEF VerdictTrue
    <2> QED
      BY <2>1, <2>2, <2>3, <2>4 DEF Next
  <1> QED
    BY <1>1, <1>2, InductiveInvariant, PTL DEF Spec

\* What a session counts has been executed, a call in progress aside; so a run
\* that its budget ended has used that budget up.
SpendingOK ==
    /\ total <= executed /\ calls <= executed
    /\ pc = "called" => total < executed /\ calls < executed
    /\ verdict = "BUDGET_EXCEEDED" /\ Admitted =>
          executed >= budget.total \/ executed >= budget.calls

LEMMA SpendingKeeps == Inductive /\ SpendingOK /\ [Next]_vars => SpendingOK'
  <1> SUFFICES ASSUME Inductive, SpendingOK, [Next]_vars PROVE SpendingOK'
    OBVIOUS
  <1>1. /\ total \in Nat /\ calls \in Nat /\ executed \in Nat
        /\ budget.total \in Nat /\ budget.calls \in Nat
    BY InputFacts DEF Inductive, TypeOK
  <1>2. UNCHANGED inputs => budget' = budget /\ (Admitted' <=> Admitted)
    BY AdmittedFixed DEF inputs
  <1>3. CASE Start
    <2>1. UNCHANGED <<inputs, executed>> /\ pc' # "called"
      BY <1>3 DEF Start, Stop, history
    <2>2. \/ total' = 0 /\ calls' = 0
          \/ UNCHANGED <<total, calls>>
      BY <1>3 DEF Start
    <2>3. verdict' = "BUDGET_EXCEEDED" => ~Admitted
      BY <1>3 DEF Start, Stop, Inductive, TypeOK
    <2> QED
      BY <1>1, <1>2, <2>1, <2>2, <2>3 DEF SpendingOK
  <1>4. CASE Round
    <2>1. UNCHANGED <<inputs, executed, total, calls>> /\ verdict = "NONE" /\ pc' # "called"
      BY <1>4 DEF Round, Schedule, Stop, history, Inductive, TypeOK
    <2>2. verdict' = "BUDGET_EXCEEDED" => Spent
      <3>1. \A st \in [Tasks -> TaskStatus] : Assessment(st) # "BUDGET_EXCEEDED"
        BY AssessmentFacts
      <3>2. /\ Propagated \in [Tasks -> TaskStatus] /\ Finalized(Propagated) \in [Tasks -> TaskStatus]
            /\ status \in [Tasks -> TaskStatus]
        BY PropagatedFacts DEF Finalized, TaskStatus, Inductive, TypeOK
      <3> QED
        BY <1>4, <2>1, <3>1, <3>2 DEF Round, Schedule, Stop
    <2>3. Spent => executed >= budget.total \/ executed >= budget.calls
      BY <1>1 DEF Spent, SpendingOK
    <2> QED
      BY <1>2, <2>1, <2>2, <2>3 DEF SpendingOK
  <1>5. CASE Call
    <2>1. /\ UNCHANGED <<inputs, total, calls>> /\ executed' = executed + 1
          /\ verdict' = "NONE"
      BY <1>5 DEF Call, Inductive, TypeOK
    <2> QED
      BY <1>1, <2>1 DEF SpendingOK
  <1>6. CASE \E result \in Results : Return(result)
    <2>1. /\ pc = "called" /\ pc' = "round" /\ verdict' = "NONE"
          /\ executed' = executed /\ total' = total + 1 /\ calls' = calls + 1
      BY <1>6 DEF Return, history, Inductive, TypeOK
    <2> QED
      BY <1>1, <2>1 DEF SpendingOK
  <1>7. CASE ApplyCancellation \/ Resume
    <2>1. /\ UNCHANGED <<executed, total, calls>> /\ pc' # "called"
          /\ verdict' \in {"NONE", "CANCELLED"}
      BY <1>7 DEF ApplyCancellation, Resume, Stop, history
    <2> QED
      BY <2>1 DEF SpendingOK
  <1>8. CASE Finish \/ RequestPause \/ RequestCancel \/ CompleteRequest \/ UNCHANGED vars
    <2>1. /\ UNCHANGED <<inputs, executed, total, calls, verdict>>
          /\ pc' = pc \/ pc' = "done"
      BY <1>8 DEF Finish, RequestPause, RequestCancel, CompleteRequest, vars, inputs, engine,
                  history
    <2> QED
      BY <1>2, <2>1 DEF SpendingOK
  <1> QED
    BY <1>3, <1>4, <1>5, <1>6, <1>7, <1>8 DEF Next

\* The attempts a plan allows its tasks, told apart by their task and number.
Allowed == {x \in Tasks \X (1..budget.perTask) : x[2] <= plan.maxAttempts[x[1]]}

\* An admitted plan is reported as over budget only when the calls of all its
\* sessions have used the attempts or the calls of the budget up to the last one.
\* So a plan whose tasks are allowed fewer attempts than that never is.
BudgetUsedUp ==
    verdict = "BUDGET_EXCEEDED" /\ Admitted =>
        /\ executed = budget.total \/ executed = budget.calls
        /\ Cardinality(Allowed) >= budget.total \/ Cardinality(Allowed) >= budget.calls

\* However often the run was stopped and resumed, and although a resume may start
\* with fresh counters, no budget verdict comes before the budget is spent.
THEOREM BudgetVerdictIsEarned == Spec => []BudgetUsedUp
  <1>1. Init => SpendingOK
    BY DEF Init, SpendingOK
  <1>2. Inductive /\ LoopOK /\ SpendingOK => BudgetUsedUp
    <2> SUFFICES ASSUME Inductive, LoopOK, SpendingOK, verdict = "BUDGET_EXCEEDED", Admitted
                 PROVE  /\ executed = budget.total \/ executed = budget.calls
                        /\ \/ Cardinality(Allowed) >= budget.total
                           \/ Cardinality(Allowed) >= budget.calls
      BY DEF BudgetUsedUp
    <2>1. executed \in Nat /\ budget.total \in Nat /\ budget.calls \in Nat /\ budget.perTask \in Nat
      BY InputFacts DEF Inductive, TypeOK
    <2>2. executed = budget.total \/ executed = budget.calls
      BY <2>1 DEF SpendingOK, Inductive, LimitsOK
    <2>3. IsFiniteSet(Allowed)
      <3>1. IsFiniteSet(Tasks) /\ IsFiniteSet(1..budget.perTask)
        BY <2>1, PlansAssumption, FS_Interval
      <3>2. IsFiniteSet(Tasks \X (1..budget.perTask))
        BY <3>1, FS_Product
      <3> QED
        BY <3>2, FS_Subset DEF Allowed
    <2>4. Tries \subseteq Allowed
      <3>1. \A t \in Tasks : made[t] \in Nat /\ plan.maxAttempts[t] \in Nat /\ made[t] <= plan.maxAttempts[t]
        BY InputFacts DEF Inductive, TypeOK, AttemptsOK
      <3> QED
        BY <2>1, <3>1 DEF Tries, Allowed
    <2>5. Cardinality(Tries) = executed /\ Cardinality(Allowed) \in Nat
      BY <2>3, FS_CardinalityType DEF LoopOK, RoundsPaid
    <2>6. executed <= Cardinality(Allowed)
      BY <2>3, <2>4, <2>5, FS_Subset
    <2> QED
      BY <2>1, <2>2, <2>5, <2>6
  <1> QED
    BY <1>1, <1>2, SpendingKeeps, InductiveInvariant, LoopInvariant, PTL DEF Spec

=============================================================================
