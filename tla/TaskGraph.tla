------------------------------- MODULE TaskGraph -------------------------------
(***************************************************************************)
(* The graph algorithms a plan goes through when it is built:              *)
(* validate_task_graph, topological_order and the budget's validate_tasks. *)
(* A task list is a sequence of records with a set deps of positions in    *)
(* that list and a priority.  Two tasks of one list never share an id:     *)
(* both planners allocate a fresh one for every task, in list order.       *)
(* The order by id among equal priorities is the order of random UUIDs:    *)
(* Rank gives every task of the list its place in it.                      *)
(***************************************************************************)
EXTENDS Naturals, Sequences, FiniteSets

Positions(tasks) == 1..Len(tasks)

\* Missing dependencies and self-dependencies are refused before the cycle
\* check.
References(tasks) ==
    \A i \in Positions(tasks) : tasks[i].deps \subseteq Positions(tasks) \ {i}

\* Kahn's algorithm: the tasks visited after k rounds, each taking every task
\* whose dependencies have all been visited.  The order of the queue decides
\* nothing about the set.
Visited(tasks) ==
    LET visited[k \in 0..Len(tasks)] ==
          IF k = 0 THEN {}
          ELSE {i \in Positions(tasks) : tasks[i].deps \subseteq visited[k - 1]}
    IN visited[Len(tasks)]

ValidGraph(tasks) ==
    References(tasks) /\ Cardinality(Visited(tasks)) = Len(tasks)

\* sort_key: priority, then id.
Before(tasks, rank, i, j) ==
    \/ tasks[i].priority < tasks[j].priority
    \/ tasks[i].priority = tasks[j].priority /\ rank[i] < rank[j]

\* The head of the sorted ready list, once the tasks in taken have been placed.
NextReady(tasks, rank, taken) ==
    LET ready == {i \in Positions(tasks) \ taken : tasks[i].deps \subseteq taken}
    IN CHOOSE i \in ready : \A j \in ready \ {i} : Before(tasks, rank, i, j)

\* topological_order, as the positions in the order they are placed.
TopologicalOrder(tasks, rank) ==
    LET order[k \in 0..Len(tasks)] ==
          IF k = 0 THEN <<>>
          ELSE Append(order[k - 1],
                      NextReady(tasks, rank,
                                {order[k - 1][n] : n \in 1..(k - 1)}))
    IN order[Len(tasks)]

\* The tasks a depth-first walk from i's dependencies reaches.
Ancestors(tasks, i) ==
    LET reached[k \in 0..Len(tasks)] ==
          IF k = 0 THEN tasks[i].deps
          ELSE reached[k - 1] \cup UNION {tasks[j].deps : j \in reached[k - 1]}
    IN reached[Len(tasks)]

\* What validate_tasks calls depth: the ancestors of a task, and itself.
\* Each task of a plan allows one attempt, so total attempts and external
\* calls are the number of tasks.
WithinBudget(tasks, maxTasks, maxDepth) ==
    /\ Len(tasks) <= maxTasks
    /\ \A i \in Positions(tasks) : Cardinality(Ancestors(tasks, i)) + 1 <= maxDepth

=============================================================================
