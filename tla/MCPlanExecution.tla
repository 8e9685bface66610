--------------------------- MODULE MCPlanExecution ---------------------------
(***************************************************************************)
(* Small instances of PlanExecution for TLC: every acyclic dependency      *)
(* relation over the tasks, every choice of required tasks, and budgets at *)
(* and around the limits the plans need.                                   *)
(***************************************************************************)
EXTENDS PlanExecution

\* Every dependency relation over numbered tasks in which a task depends on
\* lower numbers only: up to renaming these are all the acyclic ones.  The rank
\* is free, so a dependency may have a later place in the order.
Acyclic == {d \in [Tasks -> SUBSET Tasks] : \A t \in Tasks : \A u \in d[t] : u < t}

Same(n) == [t \in Tasks |-> n]
Forward == [t \in Tasks |-> t]
Backward == [t \in Tasks |-> Cardinality(Tasks) - t]

MCPlans == [deps : Acyclic, required : SUBSET Tasks,
            maxAttempts : {Same(1), Same(2)}, rank : {Backward}]

MCBudgets ==
    LET n == Cardinality(Tasks)
    IN {[tasks |-> n, perTask |-> 2, total |-> t, depth |-> n, calls |-> c] :
            t \in {n, 2 * n}, c \in {n, 2 * n + 1}}

=============================================================================
