---------------------------- MODULE PlanningProofs ----------------------------
(***************************************************************************)
(* Proofs about Planning, for every planner, registry, budget and set of   *)
(* answers of the provider.                                                *)
(***************************************************************************)
EXTENDS Planning, Recursion

-----------------------------------------------------------------------------
(* One call of the client *)

\* While the caller waits, every request the provider served has lost its
\* answer or had a server error come in its place; no wait between attempts was
\* over 2 seconds.
HttpInductive ==
    /\ attempt \in Nat /\ slept \in Nat /\ served \in Nat /\ lost \in Nat
    /\ attempt <= MaxRetries
    /\ slept <= 40 * attempt
    /\ served <= lost + 1
    /\ answer = Pending => served <= lost

\* Exponential backoff is capped at a second, an obeyed Retry-After at two.
LEMMA DelayBounded ==
    ASSUME NEW o \in Failures \cup Responses, NEW a \in Nat
    PROVE  Delay(o, a) \in 0..40
  <1>1. Backoff(a) \in 0..40
    BY DEF Backoff
  <1>2. CASE IsFailure(o)
    BY <1>1, <1>2 DEF Delay
  <1>3. CASE ~IsFailure(o)
    <2>1. o.retryAfter \in RetryAfters
      BY <1>3 DEF IsFailure, Responses, RetryAfters
    <2> QED
      BY <1>1, <1>3, <2>1 DEF Delay, Least, RetryAfters, NoHeader
  <1> QED
    BY <1>2, <1>3

\* An attempt is served at most once, and what is sent again was not served
\* unless its answer was lost or a server error came in its place.
LEMMA ServedFacts ==
    ASSUME NEW o \in Failures \cup Responses
    PROVE  /\ MayServe(o) \subseteq {0, 1}
           /\ Transient(o) /\ ~AnswerLost(o) => MayServe(o) = {0}
  BY DEF MayServe, AnswerLost, IsFailure, Transient, RetryableStatuses

LEMMA InitHttp == HttpInit => HttpInductive
  BY RetriesAssumption DEF HttpInit, HttpInductive

LEMMA ResendKeeps ==
    ASSUME HttpInductive, NEW o \in Failures \cup Responses, Resend(o)
    PROVE  HttpInductive'
  <1>1. /\ attempt' = attempt + 1 /\ attempt' \in Nat /\ attempt' <= MaxRetries
        /\ slept' = slept + Delay(o, attempt)
    BY RetriesAssumption DEF Resend, MoreAttempts, HttpInductive
  <1>2. slept' \in Nat /\ slept' <= 40 * attempt'
    BY <1>1, DelayBounded DEF HttpInductive
  <1>3. served' \in Nat /\ lost' \in Nat /\ served' <= lost' /\ served' <= lost' + 1
    BY ServedFacts DEF Resend, OnTheWire, HttpInductive
  <1> QED
    BY <1>1, <1>2, <1>3 DEF HttpInductive

LEMMA SettleKeeps ==
    ASSUME HttpInductive, NEW o \in Failures \cup Responses, Settle(o)
    PROVE  HttpInductive'
  <1>1. Settled(o) # Pending
    BY DEF Settled, Parsed, Pending, IsFailure, Failures, TransportFailures, ClassifyStatus
  <1>2. served' \in Nat /\ lost' \in Nat /\ served' <= lost' + 1
    BY ServedFacts DEF Settle, OnTheWire, HttpInductive
  <1> QED
    BY <1>1, <1>2 DEF Settle, HttpInductive

LEMMA HttpNextKeeps == HttpInductive /\ [HttpNext]_httpVars => HttpInductive'
  <1> SUFFICES ASSUME HttpInductive, [HttpNext]_httpVars PROVE HttpInductive'
    OBVIOUS
  <1>1. CASE HttpNext
    BY <1>1, ResendKeeps, SettleKeeps DEF HttpNext
  <1>2. CASE UNCHANGED httpVars
    BY <1>2 DEF httpVars, HttpInductive
  <1> QED
    BY <1>1, <1>2

\* The inductive invariant holds in every reachable state.
THEOREM HttpInvariant == HttpSpec => []HttpInductive
  BY InitHttp, HttpNextKeeps, PTL DEF HttpSpec


\* However often the network fails and whatever Retry-After the provider
\* sends, one call makes at most max_retries + 1 attempts and sleeps at most
\* 2 seconds before each.
THEOREM RetriesStayBounded == HttpSpec => []RetriesBounded
  <1>1. HttpInductive => RetriesBounded
    BY DEF HttpInductive, RetriesBounded
  <1> QED
    BY <1>1, HttpInvariant, PTL

\* A provider completes the request of one call more often than once only
\* after an answer was lost or a server error came in its place.
THEOREM OnlyLostIsRepeated == HttpSpec => []AnsweredNotRepeated
  <1>1. HttpInductive => AnsweredNotRepeated
    BY DEF HttpInductive, AnsweredNotRepeated
  <1> QED
    BY <1>1, HttpInvariant, PTL

-----------------------------------------------------------------------------
(* Identity first *)

\* A request about a company that is not resolved never reaches the network,
\* and the planner's outcome holds no tasks for it.
IdentityInductive ==
    request.identity # "RESOLVED" =>
        /\ outcome.tasks = NoPlan /\ plan = NoPlan
        /\ stage # "model"
        /\ answer = Pending /\ attempt = 0 /\ served = 0

LEMMA InitIdentity == HttpInit /\ PlanningInit => IdentityInductive
  BY DEF HttpInit, PlanningInit, IdentityInductive, Outcome

\* A company that is not resolved is answered by every planner without tasks.
LEMMA PlanLocallyKeeps ==
    ASSUME IdentityInductive, PlanLocally
    PROVE  IdentityInductive'
  <1> SUFFICES ASSUME request.identity # "RESOLVED" PROVE IdentityInductive'
    BY DEF PlanLocally, IdentityInductive
  <1>1. ~PlannerResolves
    BY DEF PlannerResolves
  <1>2. outcome'.tasks = NoPlan
    BY <1>1 DEF PlanLocally, Outcome
  <1> QED
    BY <1>2 DEF PlanLocally, IdentityInductive, httpVars

\* The network and the model come after the company is resolved.
LEMMA ModelKeeps ==
    ASSUME IdentityInductive, AskModel \/ ModelOnTheWire \/ ModelAnswered
    PROVE  IdentityInductive'
  <1>1. request.identity = "RESOLVED" /\ request' = request
    BY DEF IdentityInductive, AskModel, ModelOnTheWire, ModelAnswered, PlannerResolves,
           planningVars
  <1> QED
    BY <1>1 DEF IdentityInductive

\* The steps that leave the planner and the network alone.
LEMMA OthersKeep ==
    ASSUME IdentityInductive, Validate \/ ResolveFirst \/ AnswerPlanned
    PROVE  IdentityInductive'
  <1>1. UNCHANGED <<request, outcome>> /\ UNCHANGED httpVars
    BY DEF Validate, ResolveFirst, AnswerPlanned
  <1>2. stage' # "model"
    BY DEF Validate, ResolveFirst, AnswerPlanned, AnswerCaller
  <1>3. plan' \in {plan, outcome.tasks}
    BY DEF Validate, ResolveFirst, AnswerPlanned
  <1> QED
    BY <1>1, <1>2, <1>3 DEF IdentityInductive, httpVars

LEMMA PlanningNextKeeps ==
    IdentityInductive /\ [PlanningNext]_<<planningVars, httpVars>> => IdentityInductive'
  <1> SUFFICES ASSUME IdentityInductive, [PlanningNext]_<<planningVars, httpVars>>
               PROVE  IdentityInductive'
    OBVIOUS
  <1>1. CASE PlanningNext
    BY <1>1, PlanLocallyKeeps, ModelKeeps, OthersKeep DEF PlanningNext
  <1>2. CASE UNCHANGED <<planningVars, httpVars>>
    BY <1>2 DEF planningVars, httpVars, IdentityInductive
  <1> QED
    BY <1>1, <1>2


\* On every entry and with every planner, nothing is planned, stored or asked
\* of a model for a company that is not uniquely identified.
THEOREM NothingBeforeIdentity == PlanningSpec => []IdentityFirst
  <1>1. IdentityInductive => IdentityFirst
    BY DEF IdentityInductive, IdentityFirst
  <1> QED
    BY <1>1, InitIdentity, PlanningNextKeeps, PTL DEF PlanningSpec

-----------------------------------------------------------------------------
(* The order of a plan *)

\* A task as PayloadsAssumption types it (a capability's id is a string, which
\* the provers have to be told).
TaskRecords == [capability : STRING \cup CapabilityIds, deps : SUBSET Nat, priority : Nat]

\* Kahn's rounds: the sets of tasks visited, each from the one before.
LEMMA VisitedRounds ==
    ASSUME NEW tasks \in Seq(TaskRecords)
    PROVE  \E f : /\ f \in [0..Len(tasks) -> SUBSET Positions(tasks)]
                  /\ f[0] = {}
                  /\ \A k \in 1..Len(tasks) :
                        f[k] = {i \in Positions(tasks) : tasks[i].deps \subseteq f[k - 1]}
                  /\ Visited(tasks) = f[Len(tasks)]
  <1> DEFINE N == Len(tasks)
             All == Positions(tasks)
             Round(X) == {i \in All : tasks[i].deps \subseteq X}
             Rounds(f) == f = [k \in 0..N |-> IF k = 0 THEN {} ELSE Round(f[k - 1])]
             V == CHOOSE f : Rounds(f)
  <1>1. N \in Nat
    OBVIOUS
  <1>2. \E f : Rounds(f)
    <2> DEFINE step == [k \in Nat |-> [X \in SUBSET All |-> Round(X)]]
    <2>1. step \in [Nat -> [SUBSET All -> SUBSET All]]
      OBVIOUS
    <2>2. {} \in SUBSET All
      OBVIOUS
    <2>3. \E f : Follows(f, SUBSET All, {}, step, N)
      <3> HIDE DEF step, N, All
      <3> QED
        BY <1>1, <2>1, <2>2, RecursionExists, Zenon
    <2>4. PICK f : Follows(f, SUBSET All, {}, step, N)
      BY <2>3
    <2>5. f \in [0..N -> SUBSET All] /\ f[0] = {}
      BY <2>4 DEF Follows
    <2>6. ASSUME NEW k \in 1..N PROVE f[k] = Round(f[k - 1])
      <3>1. f[k] = step[k][f[k - 1]] /\ f[k - 1] \in SUBSET All /\ k \in Nat
        <4> HIDE DEF step, N, All
        <4> QED
          BY <2>4, <1>1 DEF Follows
      <3> HIDE DEF N, All, Round
      <3> QED
        BY <3>1
    <2>7. \A k \in 0..N : f[k] = IF k = 0 THEN {} ELSE Round(f[k - 1])
      <3> HIDE DEF N, All, Round
      <3> QED
        BY <1>1, <2>5, <2>6
    <2>8. Rounds(f)
      <3> HIDE DEF N, All, Round
      <3> QED
        BY <2>5, <2>7
    <2> QED
      BY <2>8
  <1>3. Visited(tasks) = V[N]
    BY DEF Visited
  <1>4. Rounds(V)
    <2> HIDE DEF Rounds
    <2> QED
      BY <1>2
  <1> HIDE DEF V
  <1>5. V[0] = {} /\ \A k \in 1..N : V[k] = Round(V[k - 1])
    <2> HIDE DEF Round
    <2> QED
      BY <1>1, <1>4
  <1>6. DOMAIN V = 0..N /\ V = [k \in 0..N |-> V[k]]
    <2> HIDE DEF Round
    <2> QED
      BY <1>4
  <1>7. ASSUME NEW k \in 0..N PROVE V[k] \in SUBSET All
    <2>1. CASE k = 0
      BY <2>1, <1>5
    <2>2. CASE k # 0
      <3>1. k \in 1..N
        BY <1>1, <2>2
      <3>2. V[k] = Round(V[k - 1])
        BY <1>5, <3>1
      <3> QED
        BY <3>2
    <2> QED
      BY <2>1, <2>2
  <1>8. V \in [0..N -> SUBSET All]
    BY <1>6, <1>7
  <1> QED
    BY <1>3, <1>5, <1>8

\* When every task is visited, and only then is the graph valid, some task
\* outside any set of placed tasks has all its dependencies in that set.
LEMMA SomeTaskReady ==
    ASSUME NEW tasks \in Seq(TaskRecords), ValidGraph(tasks),
           NEW taken \in SUBSET Positions(tasks), taken # Positions(tasks)
    PROVE  \E i \in Positions(tasks) \ taken : tasks[i].deps \subseteq taken
  <1> DEFINE N == Len(tasks)
             All == Positions(tasks)
  <1>1. N \in Nat
    OBVIOUS
  <1>2. PICK f : /\ f \in [0..N -> SUBSET All] /\ f[0] = {}
                 /\ \A k \in 1..N : f[k] = {i \in All : tasks[i].deps \subseteq f[k - 1]}
                 /\ Visited(tasks) = f[N]
    BY VisitedRounds
  <1>3. f[N] = All
    <2>1. IsFiniteSet(All) /\ Cardinality(All) = N
      <3>1. All = 1..N
        BY DEF Positions
      <3> HIDE DEF N, All
      <3>2. IsFiniteSet(1..N) /\ Cardinality(1..N) = N
        BY <1>1, FS_Interval
      <3> QED
        BY <3>1, <3>2
    <2>2. f[N] \in SUBSET All /\ Cardinality(f[N]) = N
      BY <1>1, <1>2 DEF ValidGraph
    <2>3. Cardinality(All) = Cardinality(f[N])
      BY <2>1, <2>2
    <2> HIDE DEF All, N
    <2> QED
      BY <2>1, <2>2, <2>3, FS_Subset, Zenon
  <1> DEFINE K == {k \in 0..N : ~(f[k] \subseteq taken)}
  <1>4. PICK k \in K : \A j \in K : k <= j
    <2>1. K # {} /\ K \in SUBSET Nat
      <3> HIDE DEF N, All
      <3>1. ~(f[N] \subseteq taken)
        <4>1. taken \in SUBSET All /\ taken # All
          BY DEF All
        <4>2. ~(All \subseteq taken)
          BY <4>1
        <4> QED
          BY <1>3, <4>2
      <3>2. N \in K
        BY <1>1, <3>1
      <3> QED
        BY <1>1, <3>2
    <2> HIDE DEF K
    <2>2. \E k \in K : \A j \in K : k <= j
      BY <2>1, LeastNatural, Zenon
    <2> QED
      BY <2>2
  <1>5. k \in 1..N /\ k - 1 \in 0..N
    BY <1>1, <1>2, <1>4
  <1>6. f[k - 1] \subseteq taken
    BY <1>1, <1>4, <1>5
  <1>7. PICK i \in f[k] : i \notin taken
    BY <1>4
  <1>8. i \in All /\ tasks[i].deps \subseteq f[k - 1]
    BY <1>2, <1>5, <1>7
  <1> QED
    BY <1>6, <1>7, <1>8

\* No set of tasks keeps itself waiting: in every set some task depends on none
\* of the others.
Acyclic(tasks) ==
    \A C \in SUBSET Positions(tasks) :
        C # {} => \E i \in C : tasks[i].deps \cap C = {}

\* validate_task_graph decides exactly what it is for: it accepts a task list
\* when every reference is to another task of the list and no set of tasks
\* keeps itself waiting, and it refuses every other list, whatever its length.
\* The rounds of Kahn's algorithm neither miss a cycle nor take a long chain
\* of tasks for one.
THEOREM ValidGraphIsExact ==
    ASSUME NEW tasks \in Seq(TaskRecords)
    PROVE  ValidGraph(tasks) <=> References(tasks) /\ Acyclic(tasks)
  <1> DEFINE N == Len(tasks)
             All == Positions(tasks)
  <1>1. N \in Nat /\ All = 1..N
    BY DEF Positions
  <1>2. ASSUME ValidGraph(tasks) PROVE Acyclic(tasks)
    <2> SUFFICES ASSUME NEW C \in SUBSET All, C # {}
                 PROVE  \E i \in C : tasks[i].deps \cap C = {}
      BY DEF Acyclic
    <2>1. All \ C \in SUBSET All /\ All \ C # All
      OBVIOUS
    <2>2. PICK i \in All \ (All \ C) : tasks[i].deps \subseteq All \ C
      BY <1>2, <2>1, SomeTaskReady, Zenon
    <2> QED
      BY <2>2
  <1>3. ASSUME References(tasks), Acyclic(tasks) PROVE ValidGraph(tasks)
    <2>1. PICK f : /\ f \in [0..N -> SUBSET All] /\ f[0] = {}
                   /\ \A k \in 1..N : f[k] = {i \in All : tasks[i].deps \subseteq f[k - 1]}
                   /\ Visited(tasks) = f[N]
      BY VisitedRounds
    <2>2. \A i \in All : tasks[i].deps \subseteq All
      BY <1>3 DEF References
    <2>3. \A C \in SUBSET All : C # {} => \E i \in C : tasks[i].deps \cap C = {}
      BY <1>3 DEF Acyclic
    <2> HIDE DEF N, All
    <2>4. \A k \in 1..N : k - 1 \in 0..N /\ k \in 0..N
      BY <1>1
    <2>5. \A k \in 1..N : f[k - 1] \subseteq f[k]
      <3> DEFINE P == {k \in Nat : k \in 1..N => f[k - 1] \subseteq f[k]}
      <3>1. 0 \in P
        BY <1>1
      <3>2. ASSUME NEW k \in Nat, k \in P PROVE k + 1 \in P
        <4> SUFFICES ASSUME k + 1 \in 1..N PROVE f[(k + 1) - 1] \subseteq f[k + 1]
          OBVIOUS
        <4>1. (k + 1) - 1 = k
          OBVIOUS
        <4>2. CASE k = 0
          BY <2>1, <4>1, <4>2
        <4>3. CASE k # 0
          <5>1. k \in 1..N
            BY <1>1, <4>3
          <5>2. f[k - 1] \subseteq f[k]
            BY <3>2, <5>1
          <5>3. f[k] = {i \in All : tasks[i].deps \subseteq f[k - 1]}
            BY <2>1, <5>1
          <5>4. f[k + 1] = {i \in All : tasks[i].deps \subseteq f[k]}
            BY <2>1, <4>1
          <5> QED
            BY <4>1, <5>2, <5>3, <5>4
        <4> QED
          BY <4>2, <4>3
      <3> HIDE DEF P
      <3>3. Nat \subseteq P
        BY <3>1, <3>2, NaturalsReached
      <3> QED
        BY <1>1, <3>3 DEF P
    <2>6. ASSUME NEW k \in 1..N, f[k - 1] # All PROVE f[k] # f[k - 1]
      <3>1. f[k - 1] \in SUBSET All
        BY <2>1, <2>4
      <3>2. All \ f[k - 1] \in SUBSET All /\ All \ f[k - 1] # {}
        BY <2>6, <3>1
      <3>3. PICK i \in All \ f[k - 1] : tasks[i].deps \cap (All \ f[k - 1]) = {}
        BY <2>3, <3>2
      <3>4. tasks[i].deps \subseteq f[k - 1]
        BY <2>2, <3>3
      <3>5. i \in f[k]
        BY <2>1, <3>3, <3>4
      <3> QED
        BY <3>3, <3>5
    <2>7. ASSUME NEW k \in 1..N, f[k - 1] = All PROVE f[k] = All
      <3>1. f[k] \in SUBSET All
        BY <2>1, <2>4
      <3> QED
        BY <2>5, <2>7, <3>1
    <2>8. f[N] = All
      <3>1. f \in [0..N -> SUBSET (1..N)] /\ 1..N \in {All} /\ N \in Nat
        BY <1>1, <2>1
      <3>2. \A k \in 1..N : f[k - 1] \notin {All} => f[k] # f[k - 1]
        BY <2>6
      <3>3. \A k \in 1..N : f[k - 1] \in {All} => f[k] \in {All}
        BY <2>7
      <3> DEFINE Done == {All}
      <3> HIDE DEF Done
      <3>4. f[N] \in Done
        BY <2>5, <3>1, <3>2, <3>3, RoundsSuffice DEF Done
      <3> QED
        BY <3>4 DEF Done
    <2>9. Cardinality(All) = N
      BY <1>1, FS_Interval
    <2> QED
      BY <1>3, <2>1, <2>8, <2>9 DEF ValidGraph, N
  <1> QED
    BY <1>2, <1>3 DEF ValidGraph

\* The least task of the ready list by priority, then by id, is there and has
\* all its dependencies placed.
LEMMA NextReadyIsReady ==
    ASSUME NEW tasks \in Seq(TaskRecords), ValidGraph(tasks),
           NEW rank \in Ranks(Len(tasks)),
           NEW taken \in SUBSET Positions(tasks), taken # Positions(tasks)
    PROVE  /\ NextReady(tasks, rank, taken) \in Positions(tasks) \ taken
           /\ tasks[NextReady(tasks, rank, taken)].deps \subseteq taken
           /\ \A j \in Positions(tasks) \ taken :
                j # NextReady(tasks, rank, taken) /\ tasks[j].deps \subseteq taken =>
                   Before(tasks, rank, NextReady(tasks, rank, taken), j)
  <1> DEFINE N == Len(tasks)
             All == Positions(tasks)
             ready == {i \in All \ taken : tasks[i].deps \subseteq taken}
             First(i) == \A j \in ready \ {i} : Before(tasks, rank, i, j)
  <1>1. PICK e \in ready : TRUE
    BY SomeTaskReady
  <1>2. N \in Nat /\ All = 1..N
    BY DEF Positions
  <1>3. \A i \in All : tasks[i].priority \in Nat /\ rank[i] \in Nat
    <2>1. rank \in [1..N -> 1..N]
      BY DEF Ranks
    <2>2. \A i \in All : tasks[i] \in TaskRecords
      BY <1>2
    <2> HIDE DEF N, All
    <2> SUFFICES ASSUME NEW i \in All PROVE tasks[i].priority \in Nat /\ rank[i] \in Nat
      OBVIOUS
    <2>3. tasks[i].priority \in Nat
      BY <2>2 DEF TaskRecords
    <2>4. rank[i] \in 1..N
      BY <1>2, <2>1
    <2> QED
      BY <1>2, <2>3, <2>4
  <1>4. \A i, j \in All : rank[i] = rank[j] => i = j
    BY DEF Ranks, IsInjective, Positions
  <1>5. ready \subseteq All
    OBVIOUS
  <1> HIDE DEF All, N, ready
  <1> DEFINE priorities == {tasks[i].priority : i \in ready}
  <1>6. PICK m \in priorities : \A p \in priorities : m <= p
    <2>1. priorities # {} /\ priorities \in SUBSET Nat
      BY <1>1, <1>3, <1>5
    <2> HIDE DEF priorities
    <2>2. \E m \in priorities : \A p \in priorities : m <= p
      BY <2>1, LeastNatural, Zenon
    <2> QED
      BY <2>2
  <1> DEFINE ties == {i \in ready : tasks[i].priority = m}
             ranks == {rank[i] : i \in ties}
  <1>7. PICK r \in ranks : \A s \in ranks : r <= s
    <2>1. ranks # {} /\ ranks \in SUBSET Nat
      BY <1>3, <1>5, <1>6
    <2> HIDE DEF ranks
    <2>2. \E r \in ranks : \A s \in ranks : r <= s
      BY <2>1, LeastNatural, Zenon
    <2> QED
      BY <2>2
  <1>8. PICK i \in ready : tasks[i].priority = m /\ rank[i] = r
    BY <1>7
  <1>9. First(i)
    <2> SUFFICES ASSUME NEW j \in ready, j # i PROVE Before(tasks, rank, i, j)
      OBVIOUS
    <2>1. tasks[i].priority \in Nat /\ tasks[j].priority \in Nat /\ rank[i] \in Nat
          /\ rank[j] \in Nat /\ rank[i] # rank[j]
      BY <1>3, <1>4, <1>5
    <2>2. tasks[i].priority <= tasks[j].priority
      BY <1>6, <1>8
    <2>3. tasks[j].priority = tasks[i].priority => rank[i] <= rank[j]
      BY <1>7, <1>8
    <2> QED
      BY <2>1, <2>2, <2>3 DEF Before
  <1>10. NextReady(tasks, rank, taken) = CHOOSE c \in ready : First(c)
    BY DEF NextReady, ready, All
  <1>11. NextReady(tasks, rank, taken) \in ready /\ First(NextReady(tasks, rank, taken))
    <2> HIDE DEF First
    <2> QED
      BY <1>9, <1>10
  <1> QED
    BY <1>11 DEF ready, All

\* No task that could take a place comes before the one that takes it.
FirstOfReady(s, p, tasks, rank) ==
    LET taken == {s[q] : q \in 1..(p - 1)}
    IN \A j \in Positions(tasks) \ taken :
          j # s[p] /\ tasks[j].deps \subseteq taken => Before(tasks, rank, s[p], j)

\* s holds k tasks, each once, none before its dependencies, each the first of
\* those that could take its place.
Placed(s, k, tasks, rank) ==
    /\ s \in [1..k -> Positions(tasks)]
    /\ \A p, q \in 1..k : s[p] = s[q] => p = q
    /\ \A p \in 1..k : tasks[s[p]].deps \subseteq {s[q] : q \in 1..(p - 1)}
    /\ \A p \in 1..k : FirstOfReady(s, p, tasks, rank)

\* While tasks are left, the next one can be placed.
LEMMA PlacesOneMore ==
    ASSUME NEW tasks \in Seq(TaskRecords), ValidGraph(tasks),
           NEW rank \in Ranks(Len(tasks)),
           NEW k \in 1..Len(tasks), NEW s, Placed(s, k - 1, tasks, rank)
    PROVE  LET next == NextReady(tasks, rank, {s[n] : n \in 1..(k - 1)})
           IN  next \in Positions(tasks) /\ Placed(Append(s, next), k, tasks, rank)
  <1> DEFINE taken == {s[n] : n \in 1..(k - 1)}
             next == NextReady(tasks, rank, taken)
             t == Append(s, next)
             All == Positions(tasks)
             N == Len(tasks)
  <1>1. N \in Nat /\ All = 1..N /\ k \in 1..N
    BY DEF Positions
  <1> HIDE DEF N, All
  <1>2. s \in [1..(k - 1) -> All] /\ (\A p, q \in 1..(k - 1) : s[p] = s[q] => p = q)
    BY DEF Placed, All
  <1>3. taken \in SUBSET All
    BY <1>2
  <1>4. taken # All
    <2> SUFFICES ASSUME taken = All PROVE FALSE
      OBVIOUS
    <2>1. s \in Surjection(1..(k - 1), All)
      BY <1>2 DEF Surjection
    <2>2. IsFiniteSet(1..(k - 1)) /\ Cardinality(1..(k - 1)) = k - 1
      <3>1. 1 \in Int /\ k - 1 \in Int /\ ~(1 > k - 1 /\ k - 1 # 0)
        BY <1>1
      <3> QED
        BY <3>1, FS_Interval
    <2>3. Cardinality(All) = N
      BY <1>1, FS_Interval
    <2>4. Cardinality(All) <= Cardinality(1..(k - 1))
      BY <2>1, <2>2, FS_Surjection
    <2> QED
      BY <1>1, <2>2, <2>3, <2>4
  <1>5. /\ next \in All \ taken /\ tasks[next].deps \subseteq taken
        /\ \A j \in All \ taken : j # next /\ tasks[j].deps \subseteq taken =>
              Before(tasks, rank, next, j)
    <2>1. taken \in SUBSET Positions(tasks) /\ taken # Positions(tasks)
      BY <1>3, <1>4 DEF All
    <2> HIDE DEF taken
    <2> QED
      BY <2>1, NextReadyIsReady, Zenon DEF All
  <1> HIDE DEF next
  <1>6. t \in [1..k -> All] /\ t[k] = next /\ \A p \in 1..(k - 1) : t[p] = s[p]
    <2>1. s \in Seq(All) /\ Len(s) = k - 1
      BY <1>1, <1>2
    <2>2. t \in Seq(All) /\ Len(t) = k
      BY <1>1, <1>5, <2>1
    <2>3. t[k] = next
      BY <1>1, <1>5, <2>1
    <2>4. ASSUME NEW p \in 1..(k - 1) PROVE t[p] = s[p]
      BY <1>1, <1>5, <2>1
    <2> HIDE DEF t
    <2> QED
      BY <2>2, <2>3, <2>4
  <1> HIDE DEF t
  <1>7. \A p, q \in 1..k : t[p] = t[q] => p = q
    <2> SUFFICES ASSUME NEW p \in 1..k, NEW q \in 1..k, t[p] = t[q] PROVE p = q
      OBVIOUS
    <2>1. next \notin taken
      BY <1>5
    <2>2. CASE p = k /\ q # k
      <3>1. q \in 1..(k - 1)
        BY <1>1, <2>2
      <3>2. t[q] = s[q] /\ t[p] = next
        BY <1>6, <2>2, <3>1
      <3> QED
        BY <2>1, <3>1, <3>2
    <2>3. CASE p # k /\ q = k
      <3>1. p \in 1..(k - 1) /\ t[p] = s[p] /\ t[q] = next
        BY <1>1, <1>6, <2>3
      <3> QED
        BY <2>1, <3>1
    <2>4. CASE p # k /\ q # k
      <3>1. p \in 1..(k - 1) /\ q \in 1..(k - 1)
        BY <1>1, <2>4
      <3>2. s[p] = s[q]
        BY <1>6, <3>1
      <3> QED
        BY <1>2, <3>1, <3>2
    <2> QED
      BY <2>2, <2>3, <2>4
  <1>8. ASSUME NEW p \in 1..k PROVE tasks[t[p]].deps \subseteq {t[q] : q \in 1..(p - 1)}
    <2>1. {t[q] : q \in 1..(p - 1)} = {s[q] : q \in 1..(p - 1)}
      <3>1. ASSUME NEW q \in 1..(p - 1) PROVE t[q] = s[q]
        <4>1. q \in 1..(k - 1)
          BY <1>1
        <4> QED
          BY <1>6, <4>1
      <3> QED
        BY <3>1
    <2>2. CASE p = k
      BY <1>5, <1>6, <2>1, <2>2
    <2>3. CASE p # k
      <3>1. p \in 1..(k - 1) /\ t[p] = s[p]
        BY <1>1, <1>6, <2>3
      <3>2. tasks[s[p]].deps \subseteq {s[q] : q \in 1..(p - 1)}
        BY <3>1 DEF Placed
      <3> QED
        BY <2>1, <3>1, <3>2
    <2> QED
      BY <2>2, <2>3
  <1>9. ASSUME NEW p \in 1..k PROVE FirstOfReady(t, p, tasks, rank)
    <2>1. {t[q] : q \in 1..(p - 1)} = {s[q] : q \in 1..(p - 1)}
      <3>1. ASSUME NEW q \in 1..(p - 1) PROVE t[q] = s[q]
        <4>1. q \in 1..(k - 1)
          BY <1>1
        <4> QED
          BY <1>6, <4>1
      <3> QED
        BY <3>1
    <2>2. CASE p = k
      <3>1. {t[q] : q \in 1..(p - 1)} = taken /\ t[p] = next
        BY <1>6, <2>1, <2>2
      <3> QED
        BY <1>5, <3>1 DEF FirstOfReady, All
    <2>3. CASE p # k
      <3>1. p \in 1..(k - 1) /\ t[p] = s[p]
        BY <1>1, <1>6, <2>3
      <3>2. FirstOfReady(s, p, tasks, rank)
        BY <3>1 DEF Placed
      <3> QED
        BY <2>1, <3>1, <3>2 DEF FirstOfReady
    <2> QED
      BY <2>2, <2>3
  <1>10. Placed(t, k, tasks, rank)
    BY <1>6, <1>7, <1>8, <1>9 DEF Placed, All
  <1> QED
    BY <1>5, <1>10 DEF t, next, All

\* topological_order gives every valid graph the order it promises: every task
\* once, none before its dependencies, and at each place, of the tasks whose
\* dependencies are placed, the one with the least priority, then the least id.
THEOREM OrderIsAsPromised ==
    ASSUME NEW tasks \in Seq(TaskRecords), ValidGraph(tasks),
           NEW rank \in Ranks(Len(tasks))
    PROVE  Placed(TopologicalOrder(tasks, rank), Len(tasks), tasks, rank)
  <1> DEFINE N == Len(tasks)
             All == Positions(tasks)
             Taken(s, k) == {s[n] : n \in 1..(k - 1)}
             More(s, k) == Append(s, NextReady(tasks, rank, Taken(s, k)))
             Orders(f) == f = [k \in 0..N |-> IF k = 0 THEN <<>> ELSE More(f[k - 1], k)]
             F == CHOOSE f : Orders(f)
  <1>1. N \in Nat
    OBVIOUS
  <1>2. Placed(<<>>, 0, tasks, rank)
    BY DEF Placed
  <1>3. ASSUME NEW k \in 1..N, NEW s, Placed(s, k - 1, tasks, rank)
        PROVE  NextReady(tasks, rank, Taken(s, k)) \in All /\ Placed(More(s, k), k, tasks, rank)
    BY <1>3, PlacesOneMore, Zenon
  <1>4. ASSUME NEW f, f[0] = <<>>,
               \A k \in 1..N : Placed(f[k - 1], k - 1, tasks, rank) => f[k] = More(f[k - 1], k)
        PROVE  \A k \in 0..N : Placed(f[k], k, tasks, rank)
    <2> DEFINE P == {k \in Nat : k \in 0..N => Placed(f[k], k, tasks, rank)}
    <2>1. 0 \in P
      BY <1>2, <1>4
    <2>2. ASSUME NEW k \in Nat, k \in P PROVE k + 1 \in P
      <3> SUFFICES ASSUME k + 1 \in 1..N PROVE Placed(f[k + 1], k + 1, tasks, rank)
        BY <1>1
      <3>1. Placed(f[k], k, tasks, rank) /\ (k + 1) - 1 = k
        BY <1>1, <2>2
      <3>2. f[k + 1] = More(f[k], k + 1)
        <4> HIDE DEF More, N
        <4> QED
          BY <1>4, <3>1
      <3>3. Placed(More(f[k], k + 1), k + 1, tasks, rank)
        <4> HIDE DEF More, N, Taken, All
        <4> QED
          BY <1>3, <3>1
      <3> QED
        BY <3>2, <3>3
    <2> HIDE DEF P
    <2>3. Nat \subseteq P
      BY <2>1, <2>2, NaturalsReached
    <2> QED
      BY <1>1, <2>3 DEF P
  <1>5. \E f : Orders(f)
    <2> DEFINE step == [k \in Nat |-> [s \in Seq(All) |->
                          IF NextReady(tasks, rank, Taken(s, k)) \in All
                          THEN More(s, k) ELSE s]]
    <2>1. step \in [Nat -> [Seq(All) -> Seq(All)]]
      <3> HIDE DEF All, Taken
      <3> QED
        OBVIOUS
    <2>2. <<>> \in Seq(All)
      OBVIOUS
    <2>3. \E f : Follows(f, Seq(All), <<>>, step, N)
      <3> HIDE DEF step, N, All
      <3> QED
        BY <1>1, <2>1, <2>2, RecursionExists, Zenon
    <2>4. PICK f : Follows(f, Seq(All), <<>>, step, N)
      BY <2>3
    <2>5. f \in [0..N -> Seq(All)] /\ f[0] = <<>>
      BY <2>4 DEF Follows
    <2>6. ASSUME NEW k \in 1..N, Placed(f[k - 1], k - 1, tasks, rank)
          PROVE  f[k] = More(f[k - 1], k)
      <3>1. f[k] = step[k][f[k - 1]] /\ f[k - 1] \in Seq(All) /\ k \in Nat
        <4> HIDE DEF step, N, All
        <4>1. k - 1 \in 0..N /\ k \in Nat
          BY <1>1
        <4>2. f[k] = step[k][f[k - 1]]
          BY <2>4 DEF Follows
        <4> QED
          BY <2>5, <4>1, <4>2
      <3>2. NextReady(tasks, rank, Taken(f[k - 1], k)) \in All
        <4> HIDE DEF N, All, Taken, More
        <4> QED
          BY <1>3, <2>6
      <3> HIDE DEF N, All, Taken, More
      <3> QED
        BY <3>1, <3>2
    <2>7. \A k \in 0..N : Placed(f[k], k, tasks, rank)
      <3> HIDE DEF N, More
      <3> QED
        BY <1>4, <2>5, <2>6
    <2>8. \A k \in 0..N : f[k] = IF k = 0 THEN <<>> ELSE More(f[k - 1], k)
      <3> HIDE DEF N, More, All
      <3>1. ASSUME NEW k \in 0..N PROVE f[k] = IF k = 0 THEN <<>> ELSE More(f[k - 1], k)
        <4>1. CASE k = 0
          BY <2>5, <4>1
        <4>2. CASE k # 0
          <5>1. k \in 1..N /\ k - 1 \in 0..N
            BY <1>1, <4>2
          <5> QED
            BY <2>6, <2>7, <4>2, <5>1
        <4> QED
          BY <4>1, <4>2
      <3> QED
        BY <3>1
    <2>9. Orders(f)
      <3> HIDE DEF N, More, All
      <3> QED
        BY <2>5, <2>8
    <2> QED
      BY <2>9
  <1>6. TopologicalOrder(tasks, rank) = F[N]
    BY DEF TopologicalOrder
  <1>7. Orders(F)
    <2> HIDE DEF Orders
    <2> QED
      BY <1>5
  <1> HIDE DEF F
  <1>8. F[0] = <<>> /\ \A k \in 1..N : F[k] = More(F[k - 1], k)
    <2> HIDE DEF More
    <2> QED
      BY <1>1, <1>7
  <1>9. \A k \in 0..N : Placed(F[k], k, tasks, rank)
    <2> HIDE DEF More, N
    <2> QED
      BY <1>4, <1>8
  <1> QED
    BY <1>1, <1>6, <1>9

-----------------------------------------------------------------------------
(* The depth of a plan *)

\* The tasks of X depend on tasks of X only.
ClosedUnder(tasks, X) == \A s \in X : tasks[s].deps \subseteq X

\* All that task i waits for: the least set of tasks that holds i's
\* dependencies and theirs.  PlanExecution measures a plan by this set.
Needed(tasks, i) ==
    {a \in Positions(tasks) : \A S \in SUBSET Positions(tasks) :
        tasks[i].deps \subseteq S /\ ClosedUnder(tasks, S) => a \in S}

\* The rounds of the walk from a task's dependencies.
LEMMA ReachedRounds ==
    ASSUME NEW tasks \in Seq(TaskRecords), References(tasks),
           NEW i \in Positions(tasks)
    PROVE  \E f : /\ f \in [0..Len(tasks) -> SUBSET Positions(tasks)]
                  /\ f[0] = tasks[i].deps
                  /\ \A k \in 1..Len(tasks) :
                        f[k] = f[k - 1] \cup UNION {tasks[j].deps : j \in f[k - 1]}
                  /\ Ancestors(tasks, i) = f[Len(tasks)]
  <1> DEFINE N == Len(tasks)
             All == Positions(tasks)
             More(X) == X \cup UNION {tasks[j].deps : j \in X}
             Walks(f) == f = [k \in 0..N |-> IF k = 0 THEN tasks[i].deps ELSE More(f[k - 1])]
             W == CHOOSE f : Walks(f)
  <1>1. N \in Nat
    OBVIOUS
  <1>2. \A j \in All : tasks[j].deps \in SUBSET All
    BY DEF References
  <1>3. ASSUME NEW X \in SUBSET All PROVE More(X) \in SUBSET All
    BY <1>2
  <1>4. \E f : f \in [0..N -> SUBSET All] /\ f[0] = tasks[i].deps
               /\ \A k \in 1..N : f[k] = More(f[k - 1])
    <2> DEFINE step == [k \in Nat |-> [X \in SUBSET All |-> More(X)]]
    <2>1. step \in [Nat -> [SUBSET All -> SUBSET All]]
      <3> HIDE DEF All, More
      <3> QED
        BY <1>3
    <2>2. tasks[i].deps \in SUBSET All
      BY <1>2
    <2>3. \E f : Follows(f, SUBSET All, tasks[i].deps, step, N)
      <3> HIDE DEF step, N, All
      <3> QED
        BY <1>1, <2>1, <2>2, RecursionExists, Zenon
    <2>4. PICK f : Follows(f, SUBSET All, tasks[i].deps, step, N)
      BY <2>3
    <2>5. f \in [0..N -> SUBSET All] /\ f[0] = tasks[i].deps
      BY <2>4 DEF Follows
    <2>6. ASSUME NEW k \in 1..N PROVE f[k] = More(f[k - 1])
      <3>1. f[k] = step[k][f[k - 1]] /\ f[k - 1] \in SUBSET All /\ k \in Nat
        <4> HIDE DEF step, N, All
        <4> QED
          BY <2>4, <1>1 DEF Follows
      <3> HIDE DEF N, All, More
      <3> QED
        BY <3>1
    <2> QED
      BY <2>5, <2>6
  <1>5. \E f : Walks(f)
    <2> HIDE DEF More, N, All
    <2>1. PICK f : f \in [0..N -> SUBSET All] /\ f[0] = tasks[i].deps
                   /\ \A k \in 1..N : f[k] = More(f[k - 1])
      BY <1>4
    <2>2. \A k \in 0..N : f[k] = IF k = 0 THEN tasks[i].deps ELSE More(f[k - 1])
      BY <1>1, <2>1
    <2>3. Walks(f)
      BY <2>1, <2>2
    <2> QED
      BY <2>3
  <1>6. Ancestors(tasks, i) = W[N]
    BY DEF Ancestors
  <1>7. Walks(W)
    <2> HIDE DEF Walks
    <2> QED
      BY <1>5
  <1> HIDE DEF W
  <1>8. W[0] = tasks[i].deps /\ \A k \in 1..N : W[k] = More(W[k - 1])
    <2> HIDE DEF More
    <2> QED
      BY <1>1, <1>7
  <1>9. DOMAIN W = 0..N /\ W = [k \in 0..N |-> W[k]]
    <2> HIDE DEF More
    <2> QED
      BY <1>7
  <1> HIDE DEF Walks
  <1>10. \A k \in 0..N : W[k] \in SUBSET All
    <2> HIDE DEF More, N, All
    <2> DEFINE P == {k \in Nat : k \in 0..N => W[k] \in SUBSET All}
    <2>1. 0 \in P
      BY <1>2, <1>8 DEF All
    <2>2. ASSUME NEW k \in Nat, k \in P PROVE k + 1 \in P
      <3> SUFFICES ASSUME k + 1 \in 0..N PROVE W[k + 1] \in SUBSET All
        OBVIOUS
      <3>1. k \in 0..N /\ k + 1 \in 1..N /\ (k + 1) - 1 = k
        BY <1>1
      <3>2. W[k] \in SUBSET All /\ W[k + 1] = More(W[k])
        BY <1>8, <2>2, <3>1
      <3> QED
        BY <1>3, <3>2
    <2> HIDE DEF P
    <2>3. Nat \subseteq P
      BY <2>1, <2>2, NaturalsReached
    <2> QED
      BY <1>1, <2>3 DEF P
  <1>11. W \in [0..N -> SUBSET All]
    <2> HIDE DEF N, All
    <2> QED
      BY <1>9, <1>10
  <1> QED
    BY <1>6, <1>8, <1>11

\* What the depth-first walk of validate_tasks reaches is what a task waits
\* for: it stops neither too early, at a task several dependencies away, nor
\* with a task nothing leads to.
THEOREM AncestorsAreNeeded ==
    ASSUME NEW tasks \in Seq(TaskRecords), References(tasks),
           NEW i \in Positions(tasks)
    PROVE  Ancestors(tasks, i) = Needed(tasks, i)
  <1> DEFINE N == Len(tasks)
             All == Positions(tasks)
             Done == {X \in SUBSET All : ClosedUnder(tasks, X)}
  <1>1. N \in Nat /\ All = 1..N
    BY DEF Positions
  <1>2. PICK f : /\ f \in [0..N -> SUBSET All]
                 /\ f[0] = tasks[i].deps
                 /\ \A k \in 1..N :
                       f[k] = f[k - 1] \cup UNION {tasks[j].deps : j \in f[k - 1]}
                 /\ Ancestors(tasks, i) = f[N]
    BY ReachedRounds
  <1>3. \A j \in All : tasks[j].deps \subseteq All
    BY DEF References
  <1> HIDE DEF N, All
  <1>4. \A k \in 1..N : k - 1 \in 0..N /\ k \in 0..N /\ f[k - 1] \in SUBSET All
    BY <1>1, <1>2
  <1>5. \A k \in 1..N : f[k - 1] \subseteq f[k]
    BY <1>2
  <1>6. ASSUME NEW k \in 1..N, f[k - 1] \notin Done PROVE f[k] # f[k - 1]
    <2>1. PICK s \in f[k - 1] : ~(tasks[s].deps \subseteq f[k - 1])
      BY <1>4, <1>6 DEF ClosedUnder
    <2>2. tasks[s].deps \subseteq f[k]
      BY <1>2, <2>1
    <2> QED
      BY <2>1, <2>2
  <1>7. ASSUME NEW k \in 1..N, f[k - 1] \in Done PROVE f[k] \in Done
    <2>1. \A j \in f[k - 1] : tasks[j].deps \subseteq f[k - 1]
      BY <1>7 DEF ClosedUnder
    <2>2. f[k] = f[k - 1]
      <3>1. f[k] = f[k - 1] \cup UNION {tasks[j].deps : j \in f[k - 1]}
        BY <1>2
      <3>2. UNION {tasks[j].deps : j \in f[k - 1]} \subseteq f[k - 1]
        BY <2>1
      <3> QED
        BY <3>1, <3>2
    <2> QED
      BY <1>7, <2>2
  <1>8. f[N] \in Done
    <2>1. 1..N \in Done
      BY <1>1, <1>3 DEF ClosedUnder
    <2>2. f \in [0..N -> SUBSET (1..N)] /\ N \in Nat
      BY <1>1, <1>2
    <2> HIDE DEF Done
    <2> QED
      BY <1>5, <1>6, <1>7, <2>1, <2>2, RoundsSuffice
  <1>9. \A k \in 0..N : f[0] \subseteq f[k]
    <2> DEFINE P == {k \in Nat : k \in 0..N => f[0] \subseteq f[k]}
    <2>1. 0 \in P
      OBVIOUS
    <2>2. ASSUME NEW k \in Nat, k \in P PROVE k + 1 \in P
      <3> SUFFICES ASSUME k + 1 \in 0..N PROVE f[0] \subseteq f[k + 1]
        OBVIOUS
      <3>1. k \in 0..N /\ k + 1 \in 1..N /\ (k + 1) - 1 = k
        BY <1>1
      <3>2. f[0] \subseteq f[k] /\ f[k] \subseteq f[k + 1]
        BY <1>5, <2>2, <3>1
      <3> QED
        BY <3>2
    <2> HIDE DEF P
    <2>3. Nat \subseteq P
      BY <2>1, <2>2, NaturalsReached
    <2> QED
      BY <1>1, <2>3 DEF P
  <1>10. ASSUME NEW S \in SUBSET All, tasks[i].deps \subseteq S, ClosedUnder(tasks, S)
         PROVE  f[N] \subseteq S
    <2> DEFINE P == {k \in Nat : k \in 0..N => f[k] \subseteq S}
    <2>1. 0 \in P
      BY <1>2, <1>10
    <2>2. ASSUME NEW k \in Nat, k \in P PROVE k + 1 \in P
      <3> SUFFICES ASSUME k + 1 \in 0..N PROVE f[k + 1] \subseteq S
        OBVIOUS
      <3>1. k \in 0..N /\ k + 1 \in 1..N /\ (k + 1) - 1 = k
        BY <1>1
      <3>2. f[k] \subseteq S
        BY <2>2, <3>1
      <3>3. f[k + 1] = f[k] \cup UNION {tasks[j].deps : j \in f[k]}
        BY <1>2, <3>1
      <3>4. \A j \in f[k] : tasks[j].deps \subseteq S
        BY <1>10, <3>2 DEF ClosedUnder
      <3> QED
        BY <3>2, <3>3, <3>4
    <2> HIDE DEF P
    <2>3. Nat \subseteq P
      BY <2>1, <2>2, NaturalsReached
    <2> QED
      BY <1>1, <2>3 DEF P
  <1>11. f[N] \in SUBSET All /\ tasks[i].deps \subseteq f[N] /\ ClosedUnder(tasks, f[N])
    <2>1. N \in 0..N
      BY <1>1
    <2>2. tasks[i].deps \subseteq f[N]
      BY <1>2, <1>9, <2>1
    <2> QED
      BY <1>8, <2>2
  <1>12. Needed(tasks, i) \subseteq f[N]
    BY <1>11 DEF Needed, All
  <1>13. f[N] \subseteq Needed(tasks, i)
    BY <1>10, <1>11 DEF Needed, All
  <1> QED
    BY <1>2, <1>12, <1>13

\* A plan that can be executed from its first task to its last.
Runnable(tasks) ==
    /\ \A p \in Positions(tasks) :
          /\ tasks[p].deps \subseteq 1..(p - 1)
          /\ tasks[p].capability \in PlannerCapabilities
          /\ \A q \in Positions(tasks) \ {p} : tasks[q].capability # tasks[p].capability
    /\ Len(tasks) <= MaxTasks

\* Tasks and plan hold the same work, in whatever order.
SameWork(plan1, tasks) ==
    {[capability |-> plan1[p].capability, priority |-> plan1[p].priority] :
       p \in Positions(plan1)}
    = {[capability |-> tasks[i].capability, priority |-> tasks[i].priority] :
         i \in Positions(tasks)}

\* The plan's longest wait: no task waits for more than the budget's depth
\* leaves room for.
Shallow(tasks) ==
    \A p \in Positions(tasks) : Cardinality(Needed(tasks, p)) + 1 <= MaxDepth

\* A plan in order can be executed and holds the work of the list it was made
\* from; and when that list is within the budget, so is the plan, as the
\* executor will measure it again.
LEMMA InOrderRunnable ==
    ASSUME NEW tasks \in Seq(TaskRecords), ValidGraph(tasks), Len(tasks) <= MaxTasks,
           NEW rank \in Ranks(Len(tasks)), Acceptable(tasks)
    PROVE  /\ Runnable(InOrder(tasks, rank))
           /\ Len(InOrder(tasks, rank)) = Len(tasks)
           /\ SameWork(InOrder(tasks, rank), tasks)
           /\ WithinBudget(tasks, MaxTasks, MaxDepth) => Shallow(InOrder(tasks, rank))
  <1> DEFINE N == Len(tasks)
             All == Positions(tasks)
             order == TopologicalOrder(tasks, rank)
             place == [i \in All |-> CHOOSE p \in All : order[p] = i]
             made == [p \in All |-> [tasks[order[p]] EXCEPT !.deps = {place[d] : d \in @}]]
  <1>1. N \in Nat /\ All = 1..N
    BY DEF Positions
  <1>2. InOrder(tasks, rank) = made
    BY DEF InOrder
  <1>3. /\ order \in [All -> All]
        /\ \A p, q \in All : order[p] = order[q] => p = q
        /\ \A p \in All : tasks[order[p]].deps \subseteq {order[q] : q \in 1..(p - 1)}
    BY OrderIsAsPromised DEF Placed, Positions
  <1>4. \A i \in All : tasks[i] \in TaskRecords
    BY <1>1
  <1>5. \A i, j \in All : tasks[i].capability = tasks[j].capability => i = j
    BY DEF Acceptable, IsInjective
  <1>6. \A i \in All : tasks[i].capability \in PlannerCapabilities
    BY DEF Acceptable
  <1> HIDE DEF All, N, order
  <1>7. \A i \in All : \E p \in All : order[p] = i
    <2>1. order \in Injection(All, All)
      BY <1>3 DEF Injection, IsInjective
    <2>2. IsFiniteSet(All)
      BY <1>1, FS_Interval
    <2>3. order \in Surjection(All, All)
      BY <2>1, <2>2, FS_Injection
    <2> QED
      BY <2>3 DEF Surjection
  <1>8. \A p \in All : place[order[p]] = p
    BY <1>3
  <1> HIDE DEF place
  <1>9. ASSUME NEW p \in All
        PROVE  /\ made[p].capability = tasks[order[p]].capability
               /\ made[p].priority = tasks[order[p]].priority
               /\ made[p].deps = {place[d] : d \in tasks[order[p]].deps}
    <2>1. tasks[order[p]] \in TaskRecords
      BY <1>3, <1>4
    <2> QED
      BY <2>1 DEF TaskRecords
  <1>10. made \in Seq(TaskRecords \cup {made[p] : p \in All}) /\ Len(made) = N
         /\ Positions(made) = All
    <2>1. made \in [1..N -> TaskRecords \cup {made[p] : p \in All}]
      BY <1>1
    <2> HIDE DEF made
    <2> QED
      BY <1>1, <2>1 DEF Positions
  <1> HIDE DEF made
  <1>11. ASSUME NEW p \in All PROVE made[p].deps \subseteq 1..(p - 1)
    <2>1. \A q \in 1..(p - 1) : q \in All
      BY <1>1
    <2>2. ASSUME NEW d \in tasks[order[p]].deps PROVE place[d] \in 1..(p - 1)
      <3>1. PICK q \in 1..(p - 1) : d = order[q]
        BY <1>3
      <3> QED
        BY <1>8, <2>1, <3>1
    <2> QED
      BY <1>9, <2>2
  <1>12. ASSUME NEW p \in All, NEW q \in All \ {p}
         PROVE  made[q].capability # made[p].capability
    BY <1>3, <1>5, <1>9
  <1>13. Runnable(made)
    BY <1>3, <1>6, <1>9, <1>10, <1>11, <1>12 DEF Runnable, N
  <1>14. SameWork(made, tasks)
    <2> DEFINE Work(t) == [capability |-> t.capability, priority |-> t.priority]
    <2>1. \A p \in All : Work(made[p]) = Work(tasks[order[p]])
      BY <1>9
    <2>2. {Work(made[p]) : p \in All} = {Work(tasks[i]) : i \in All}
      <3> HIDE DEF Work
      <3> QED
        BY <1>3, <1>7, <2>1
    <2> QED
      BY <1>10, <2>2 DEF SameWork, All
  <1>15. ASSUME WithinBudget(tasks, MaxTasks, MaxDepth) PROVE Shallow(made)
    <2> SUFFICES ASSUME NEW p \in All
                 PROVE  Cardinality(Needed(made, p)) + 1 <= MaxDepth
      BY <1>10 DEF Shallow
    <2> DEFINE old == Needed(tasks, order[p])
               moved == [a \in old |-> place[a]]
               new == {place[a] : a \in old}
    <2>1. References(tasks) /\ \A i \in All : tasks[i].deps \subseteq All
      BY DEF ValidGraph, References, All
    <2>2. Ancestors(tasks, order[p]) = old /\ Cardinality(old) + 1 <= MaxDepth
      <3>1. order[p] \in Positions(tasks)
        BY <1>3 DEF All
      <3>2. Ancestors(tasks, order[p]) = old
        BY <2>1, <3>1, AncestorsAreNeeded
      <3> QED
        BY <1>15, <3>1, <3>2 DEF WithinBudget
    <2>3. old \in SUBSET All /\ IsFiniteSet(old)
      <3>1. IsFiniteSet(All)
        BY <1>1, FS_Interval
      <3>2. old \in SUBSET All
        BY DEF Needed, All
      <3> QED
        BY <3>1, <3>2, FS_Subset
    <2>4. tasks[order[p]].deps \subseteq old /\ \A a \in old : tasks[a].deps \subseteq old
      BY <1>3, <2>1 DEF Needed, ClosedUnder, All
    <2>5. \A a \in All : place[a] \in All /\ order[place[a]] = a
      BY <1>7, <1>8
    <2> HIDE DEF old
    <2>6. new \in SUBSET All
      BY <2>3, <2>5
    <2>7. made[p].deps \subseteq new
      BY <1>9, <2>4
    <2>8. ClosedUnder(made, new)
      <3> SUFFICES ASSUME NEW a \in old PROVE made[place[a]].deps \subseteq new
        BY DEF ClosedUnder
      <3>1. place[a] \in All /\ order[place[a]] = a
        BY <2>3, <2>5
      <3>2. made[place[a]].deps = {place[d] : d \in tasks[a].deps}
        BY <1>9, <3>1
      <3> QED
        BY <2>4, <3>2
    <2>9. Needed(made, p) \subseteq new
      BY <1>10, <2>6, <2>7, <2>8 DEF Needed
    <2>10. moved \in Surjection(old, new)
      BY DEF Surjection
    <2>11. IsFiniteSet(new) /\ Cardinality(new) <= Cardinality(old)
      <3> HIDE DEF moved, new
      <3> QED
        BY <2>3, <2>10, FS_Surjection
    <2>12. Cardinality(Needed(made, p)) <= Cardinality(new)
           /\ IsFiniteSet(Needed(made, p))
      <3> HIDE DEF new
      <3> QED
        BY <2>9, <2>11, FS_Subset
    <2>13. /\ Cardinality(Needed(made, p)) \in Nat /\ Cardinality(new) \in Nat
           /\ Cardinality(old) \in Nat
      <3> HIDE DEF new
      <3> QED
        BY <2>3, <2>11, <2>12, FS_CardinalityType
    <2> HIDE DEF new
    <2> QED
      BY <2>2, <2>11, <2>12, <2>13, BudgetAssumption
  <1> QED
    BY <1>2, <1>10, <1>13, <1>14, <1>15 DEF N

-----------------------------------------------------------------------------
(* What the planners answer *)

\* An objective lists capabilities, each once, none of them company resolution.
LEMMA ListedFacts ==
    ASSUME NEW objective \in Objectives
    PROVE  LET listed == ObjectiveCapabilities[objective]
           IN  /\ Len(listed) \in Nat
               /\ \A i \in 1..Len(listed) :
                    /\ listed[i] \in CapabilityIds \ {"company_resolution"}
                    /\ \A j \in 1..Len(listed) : listed[i] = listed[j] => i = j
  <1>1. objective \in {"company_overview", "market_analysis", "financial_analysis",
                       "news_and_events", "industry_analysis", "regulatory_analysis",
                       "comprehensive_equity_research"}
    BY ObjectivesAssumption DEF ObjectiveCapabilities
  <1>2. CASE objective = "company_overview"
    <2>1. ObjectiveCapabilities[objective] =
          <<"market_intelligence", "financial_intelligence", "news_event_intelligence">>
      BY <1>2 DEF ObjectiveCapabilities
    <2> QED
      BY <2>1 DEF CapabilityIds
  <1>3. CASE objective = "market_analysis"
    <2>1. ObjectiveCapabilities[objective] =
          <<"market_intelligence">>
      BY <1>3 DEF ObjectiveCapabilities
    <2> QED
      BY <2>1 DEF CapabilityIds
  <1>4. CASE objective = "financial_analysis"
    <2>1. ObjectiveCapabilities[objective] =
          <<"financial_intelligence">>
      BY <1>4 DEF ObjectiveCapabilities
    <2> QED
      BY <2>1 DEF CapabilityIds
  <1>5. CASE objective = "news_and_events"
    <2>1. ObjectiveCapabilities[objective] =
          <<"news_event_intelligence">>
      BY <1>5 DEF ObjectiveCapabilities
    <2> QED
      BY <2>1 DEF CapabilityIds
  <1>6. CASE objective = "industry_analysis"
    <2>1. ObjectiveCapabilities[objective] =
          <<"industry_intelligence">>
      BY <1>6 DEF ObjectiveCapabilities
    <2> QED
      BY <2>1 DEF CapabilityIds
  <1>7. CASE objective = "regulatory_analysis"
    <2>1. ObjectiveCapabilities[objective] =
          <<"regulatory_intelligence">>
      BY <1>7 DEF ObjectiveCapabilities
    <2> QED
      BY <2>1 DEF CapabilityIds
  <1>8. CASE objective = "comprehensive_equity_research"
    <2>1. ObjectiveCapabilities[objective] =
          <<"market_intelligence", "financial_intelligence",
            "news_event_intelligence", "industry_intelligence", "regulatory_intelligence">>
      BY <1>8 DEF ObjectiveCapabilities
    <2> QED
      BY <2>1 DEF CapabilityIds
  <1> QED
    BY <1>1, <1>2, <1>3, <1>4, <1>5, <1>6, <1>7, <1>8

\* Leaving out what is unavailable keeps the rest, each once.
LEMMA KeptFacts ==
    ASSUME NEW S \in SUBSET Nat, IsFiniteSet(S)
    PROVE  LET kept == InSequence(S, LAMBDA i, j : i < j)
           IN  /\ Cardinality(S) \in Nat /\ DOMAIN kept = 1..Cardinality(S)
               /\ \A k \in 1..Cardinality(S) :
                    /\ kept[k] \in S
                    /\ \A m \in 1..Cardinality(S) : kept[k] = kept[m] => k = m
  <1> DEFINE R == {p \in S \X S : p[1] < p[2]}
             Below(c) == {d \in S : d < c}
             Place(c) == Earlier(S, R, c)
             kept == InSequence(S, LAMBDA i, j : i < j)
             N == Cardinality(S)
  <1>1. /\ \A x \in S : <<x, x>> \notin R
        /\ \A x, y \in S : x = y \/ <<x, y>> \in R \/ <<y, x>> \in R
        /\ \A x, y, z \in S : <<x, y>> \in R /\ <<y, z>> \in R => <<x, z>> \in R
    OBVIOUS
  <1>2. \A c \in S : Place(c) = Below(c)
    BY DEF Earlier
  <1>3. /\ N \in Nat
        /\ \A k \in 1..N : \E c \in S : Cardinality(Place(c)) = k - 1
    <2> HIDE DEF R
    <2> QED
      BY <1>1, EveryPlaceTaken
  <1> HIDE DEF Place
  <1>4. kept = [k \in 1..N |-> CHOOSE c \in S : Cardinality(Below(c)) = k - 1]
    BY DEF InSequence
  <1> HIDE DEF kept, Below, N
  <1>5. \A k \in 1..N : kept[k] \in S /\ Cardinality(Below(kept[k])) = k - 1
    <2> SUFFICES ASSUME NEW k \in 1..N
                 PROVE  kept[k] \in S /\ Cardinality(Below(kept[k])) = k - 1
      OBVIOUS
    <2>1. \E c \in S : Cardinality(Below(c)) = k - 1
      BY <1>2, <1>3
    <2>2. kept[k] = CHOOSE c \in S : Cardinality(Below(c)) = k - 1
      BY <1>4
    <2> QED
      BY <2>1, <2>2
  <1>6. ASSUME NEW k \in 1..N, NEW m \in 1..N, kept[k] = kept[m] PROVE k = m
    <2>1. k - 1 = m - 1
      BY <1>5, <1>6
    <2> QED
      BY <2>1, <1>3
  <1>7. DOMAIN kept = 1..N
    BY <1>4
  <1> QED
    BY <1>3, <1>5, <1>6, <1>7 DEF kept, N

\* The deterministic planner's list is one the checks of _build_tasks would
\* pass.
LEMMA DeterministicAcceptable ==
    ASSUME NEW objective \in Objectives
    PROVE  /\ DeterministicTasks(objective) \in Seq(TaskRecords)
           /\ Acceptable(DeterministicTasks(objective))
  <1> DEFINE listed == ObjectiveCapabilities[objective]
             S == {i \in 1..Len(listed) : listed[i] \notin Unavailable}
             N == Cardinality(S)
             kept == InSequence(S, LAMBDA i, j : i < j)
             waits(k) == /\ objective = "comprehensive_equity_research"
                         /\ listed[kept[k]] = "financial_intelligence"
             deps(k) == {j \in 1..(k - 1) : waits(k) /\ listed[kept[j]] = "market_intelligence"}
             task(k) == [capability |-> listed[kept[k]], priority |-> 10 * kept[k],
                         deps |-> deps(k)]
             tasks == [k \in 1..N |-> task(k)]
  <1>1. Len(listed) \in Nat /\ \A i \in 1..Len(listed) :
             /\ listed[i] \in CapabilityIds \ {"company_resolution"}
             /\ \A j \in 1..Len(listed) : listed[i] = listed[j] => i = j
    BY ListedFacts
  <1> HIDE DEF listed
  <1>2. S \in SUBSET Nat /\ IsFiniteSet(S)
    <2>1. S \in SUBSET (1..Len(listed))
      OBVIOUS
    <2>2. IsFiniteSet(1..Len(listed))
      BY <1>1, FS_Interval
    <2>3. IsFiniteSet(S)
      <3> HIDE DEF S
      <3> QED
        BY <2>1, <2>2, FS_Subset
    <2> QED
      BY <1>1, <2>3
  <1>3. /\ N \in Nat /\ DOMAIN kept = 1..N
        /\ \A k \in 1..N : /\ kept[k] \in S
                           /\ \A m \in 1..N : kept[k] = kept[m] => k = m
    <2> HIDE DEF S
    <2> QED
      BY <1>2, KeptFacts
  <1>4. DeterministicTasks(objective) = tasks
    <2>1. DeterministicTasks(objective) = [k \in DOMAIN kept |-> task(k)]
      BY DEF DeterministicTasks, listed
    <2> HIDE DEF task, kept, N
    <2> QED
      BY <1>3, <2>1
  <1> HIDE DEF kept, N
  <1>5. ASSUME NEW k \in 1..N
        PROVE  /\ kept[k] \in Nat /\ listed[kept[k]] \in PlannerCapabilities
               /\ task(k) \in TaskRecords
               /\ \A m \in 1..N : listed[kept[k]] = listed[kept[m]] => k = m
    <2>1. kept[k] \in 1..Len(listed) /\ listed[kept[k]] \notin Unavailable
      BY <1>3
    <2>2. deps(k) \in SUBSET Nat
      BY <1>3
    <2>3. 10 * kept[k] \in Nat /\ kept[k] \in Nat
      BY <1>1, <2>1
    <2>4. listed[kept[k]] \in CapabilityIds /\ listed[kept[k]] \in PlannerCapabilities
      BY <1>1, <2>1 DEF PlannerCapabilities
    <2>5. task(k) \in TaskRecords
      <3> HIDE DEF deps
      <3> QED
        BY <2>2, <2>3, <2>4 DEF TaskRecords
    <2>6. ASSUME NEW m \in 1..N, listed[kept[k]] = listed[kept[m]] PROVE k = m
      <3>1. kept[m] \in 1..Len(listed)
        BY <1>3
      <3> QED
        BY <1>1, <1>3, <2>1, <2>6, <3>1
    <2> QED
      BY <2>3, <2>4, <2>5, <2>6
  <1>6. \A k \in 1..N : tasks[k].capability = listed[kept[k]]
    OBVIOUS
  <1>7. tasks \in Seq(TaskRecords) /\ Len(tasks) = N
    <2> HIDE DEF task
    <2>1. tasks \in [1..N -> TaskRecords]
      BY <1>5
    <2> HIDE DEF tasks
    <2> QED
      BY <1>3, <2>1
  <1> HIDE DEF tasks
  <1>8. Acceptable(tasks)
    <2>1. Positions(tasks) = 1..N
      BY <1>7 DEF Positions
    <2> HIDE DEF S, task
    <2> QED
      BY <1>5, <1>6, <2>1 DEF Acceptable, IsInjective
  <1> QED
    BY <1>4, <1>7, <1>8

\* A plan of the last checks is one that can be executed and holds the work of
\* the tasks checked; what is no plan holds no tasks.
LEMMA CheckedFacts ==
    ASSUME NEW tasks \in Seq(TaskRecords), NEW rank \in Ranks(Len(tasks)),
           Acceptable(tasks)
    PROVE  LET o == Checked(tasks, rank)
           IN  /\ o.status \in {"OK", "FAILED"}
               /\ o.status = "OK" => /\ Runnable(o.tasks) /\ o.tasks # NoPlan
                                     /\ SameWork(o.tasks, tasks) /\ Shallow(o.tasks)
               /\ o.status # "OK" => o.tasks = NoPlan
  <1>1. CASE ~ValidGraph(tasks)
    BY <1>1 DEF Checked, Outcome
  <1>2. CASE ValidGraph(tasks) /\ ~WithinBudget(tasks, MaxTasks, MaxDepth)
    BY <1>2 DEF Checked, OverBudget
  <1>3. CASE /\ ValidGraph(tasks) /\ WithinBudget(tasks, MaxTasks, MaxDepth)
             /\ tasks = NoPlan
    BY <1>3 DEF Checked, Outcome
  <1>4. CASE /\ ValidGraph(tasks) /\ WithinBudget(tasks, MaxTasks, MaxDepth)
             /\ tasks # NoPlan
    <2>1. Checked(tasks, rank) = Planned(InOrder(tasks, rank))
      BY <1>4 DEF Checked
    <2>2. Len(tasks) <= MaxTasks
      BY <1>4 DEF WithinBudget
    <2>3. /\ Runnable(InOrder(tasks, rank)) /\ SameWork(InOrder(tasks, rank), tasks)
          /\ Len(InOrder(tasks, rank)) = Len(tasks) /\ Shallow(InOrder(tasks, rank))
      BY <1>4, <2>2, InOrderRunnable
    <2>4. Len(tasks) # 0
      BY <1>4 DEF NoPlan
    <2>5. InOrder(tasks, rank) # NoPlan
      <3>1. Len(NoPlan) = 0
        BY DEF NoPlan
      <3> QED
        BY <2>3, <2>4, <3>1
    <2> QED
      BY <2>1, <2>3, <2>5 DEF Planned
  <1> QED
    BY <1>1, <1>2, <1>3, <1>4

\* Whatever the network does, the caller is given an object of the provider or
\* a failure the client has a name for.
LEMMA SettledIsAnswer ==
    ASSUME NEW o \in Failures \cup Responses
    PROVE  Settled(o) \in Answers /\ Settled(o) # Pending
  <1>1. CASE IsFailure(o)
    BY <1>1 DEF IsFailure, Failures, Settled, Answers, Pending
  <1>2. CASE ~IsFailure(o) /\ o.status = 200
    <2>1. o.body \in Malformed \cup Objects
      BY <1>2 DEF IsFailure, Responses
    <2>2. Settled(o) = Parsed(o.body)
      BY <1>2 DEF Settled
    <2>3. CASE o.body.json = "object"
      <3>1. o.body \in Objects
        BY <2>1, <2>3 DEF Malformed
      <3>2. Parsed(o.body) = [kind |-> "OK", value |-> o.body.value] /\ o.body.value \in Payloads
        BY <2>3, <3>1 DEF Parsed, Objects
      <3> QED
        BY <2>2, <3>2 DEF Answers, Pending
    <2>4. CASE o.body.json # "object"
      BY <2>2, <2>4 DEF Parsed, Answers, Pending, Statuses
    <2> QED
      BY <2>3, <2>4
  <1>3. CASE ~IsFailure(o) /\ o.status # 200
    <2>1. o.status \in Statuses
      BY <1>3 DEF IsFailure, Responses
    <2>2. Settled(o) = [kind |-> ClassifyStatus(o.status), status |-> o.status]
      BY <1>3 DEF Settled
    <2>3. ClassifyStatus(o.status) \in {"INVALID_RESPONSE", "UNAUTHORIZED", "NOT_FOUND",
                                        "RATE_LIMITED", "UPSTREAM_ERROR"}
      BY <2>1 DEF ClassifyStatus, Statuses
    <2> QED
      BY <2>1, <2>2, <2>3 DEF Answers, Pending
  <1> QED
    BY <1>1, <1>2, <1>3

\* The tasks are those of the provider's answer, which cost nothing.
FreeAnswer(tasks) ==
    /\ answer.kind = "OK" /\ answer.value.cost = "zero"
    /\ SameWork(tasks, answer.value.text.tasks)

\* A response that succeeded is the text of a free answer.
LEMMA SucceededFacts ==
    ASSUME answer \in Answers, Complete(answer).status = "SUCCEEDED"
    PROVE  /\ answer.kind = "OK" /\ answer.value.cost = "zero"
           /\ Complete(answer).text = answer.value.text
           /\ answer.value.text.tasks \in Seq(TaskRecords)
  <1>1. answer.kind = "OK" /\ Complete(answer) = MapSuccess(answer.value)
    <2>1. answer.kind # "OK" =>
            Complete(answer) \in {RouterRaised, ModelFailed(TransportFailure(answer))}
      BY DEF Complete
    <2>2. RouterRaised.status = "RAISED" /\ ModelFailed(TransportFailure(answer)).status = "FAILED"
      BY DEF RouterRaised, ModelFailed
    <2>3. answer.kind = "OK"
      BY <2>1, <2>2
    <2> QED
      BY <2>3 DEF Complete
  <1>2. answer.value \in Payloads
    BY <1>1 DEF Answers, Pending, TransportFailures
  <1>3. /\ answer.value.cost # "negative" /\ IsFree(MapUsage(answer.value.cost))
        /\ MapSuccess(answer.value) = ModelSucceeded(answer.value.text)
    <2>1. \A kind : ModelFailed(kind).status = "FAILED"
      BY DEF ModelFailed
    <2>2. MapSuccess(answer.value).status = "SUCCEEDED"
      BY <1>1
    <2> QED
      BY <2>1, <2>2 DEF MapSuccess
  <1>4. answer.value.cost = "zero"
    <2>1. ASSUME NEW cost, IsFree(MapUsage(cost)) PROVE cost = "zero"
      <3>1. MapUsage(cost).known /\ MapUsage(cost).amount = 0
        BY <2>1 DEF IsFree
      <3>2. cost \in {"zero", "positive"}
        BY <3>1 DEF MapUsage
      <3>3. cost # "positive"
        BY <3>1 DEF MapUsage
      <3> QED
        BY <3>2, <3>3
    <2> QED
      BY <1>3, <2>1
  <1>5. answer.value.text.tasks \in Seq([capability : STRING, deps : SUBSET Nat, priority : Nat])
    BY <1>2, PayloadsAssumption
  <1>6. \A t \in [capability : STRING, deps : SUBSET Nat, priority : Nat] : t \in TaskRecords
    BY DEF TaskRecords
  <1>7. answer.value.text.tasks \in Seq(TaskRecords)
    <2> DEFINE ts == answer.value.text.tasks
               Typed == [capability : STRING, deps : SUBSET Nat, priority : Nat]
    <2> HIDE DEF Typed, ts
    <2>1. ts \in Seq(Typed)
      BY <1>5 DEF Typed, ts
    <2>2. Typed \subseteq TaskRecords
      BY <1>6 DEF Typed
    <2>3. ts \in [1..Len(ts) -> TaskRecords] /\ Len(ts) \in Nat
      BY <2>1, <2>2
    <2> QED
      BY <2>1, <2>3 DEF ts
  <1> QED
    BY <1>1, <1>3, <1>4, <1>7 DEF ModelSucceeded

\* What an outcome may be: a plan that can be executed, or no tasks.
GoodOutcome(o) ==
    /\ o.status \in {"NONE", "OK", "INVALID", "FAILED", "UNAVAILABLE"}
    /\ o.status = "OK" => Runnable(o.tasks) /\ Shallow(o.tasks) /\ o.tasks # NoPlan
    /\ o.status # "OK" => o.tasks = NoPlan

LEMMA OutcomeGood ==
    ASSUME NEW s \in {"NONE", "INVALID", "FAILED", "UNAVAILABLE"}
    PROVE  GoodOutcome(Outcome(s)) /\ Outcome(s).tasks = NoPlan
  BY DEF GoodOutcome, Outcome

\* What the model planner makes of any response: a plan of the free answer's
\* tasks, or none.
LEMMA AcceptedFacts ==
    ASSUME answer \in Answers,
           NEW rank \in Ranks(IF Complete(answer).status = "SUCCEEDED"
                              THEN Len(Complete(answer).text.tasks) ELSE 0)
    PROVE  LET o == Accepted(Complete(answer), rank)
           IN  GoodOutcome(o) /\ (o.tasks # NoPlan => FreeAnswer(o.tasks))
  <1> DEFINE response == Complete(answer)
  <1>1. CASE response.status \in {"RAISED", "FAILED"}
    <2>1. Accepted(response, rank) \in {Outcome("FAILED"), Outcome("UNAVAILABLE")}
      BY <1>1 DEF Accepted
    <2> QED
      BY <2>1, OutcomeGood
  <1>2. CASE response.status \notin {"RAISED", "FAILED"}
    <2>1. response.status = "SUCCEEDED"
      BY <1>2 DEF Complete, RouterRaised, ModelFailed, MapSuccess, ModelSucceeded
    <2>2. /\ answer.kind = "OK" /\ answer.value.cost = "zero"
          /\ response.text = answer.value.text
          /\ answer.value.text.tasks \in Seq(TaskRecords)
      BY <2>1, SucceededFacts
    <2>3. CASE Parses(response.text) /\ Acceptable(response.text.tasks)
      <3>1. Accepted(response, rank) = Checked(answer.value.text.tasks, rank)
        BY <2>1, <2>2, <2>3 DEF Accepted
      <3>2. rank \in Ranks(Len(answer.value.text.tasks))
        BY <2>1, <2>2
      <3> DEFINE o == Checked(answer.value.text.tasks, rank)
      <3>3. /\ o.status \in {"OK", "FAILED"}
            /\ o.status = "OK" => /\ Runnable(o.tasks) /\ o.tasks # NoPlan
                                  /\ SameWork(o.tasks, answer.value.text.tasks)
                                  /\ Shallow(o.tasks)
            /\ o.status # "OK" => o.tasks = NoPlan
        BY <2>2, <2>3, <3>2, CheckedFacts
      <3> HIDE DEF o
      <3>4. GoodOutcome(o) /\ (o.tasks # NoPlan => FreeAnswer(o.tasks))
        BY <2>2, <3>3 DEF GoodOutcome, FreeAnswer
      <3> QED
        BY <3>1, <3>4 DEF o
    <2>4. CASE ~(Parses(response.text) /\ Acceptable(response.text.tasks))
      <3>1. Accepted(response, rank) = Outcome("FAILED")
        BY <1>2, <2>4 DEF Accepted
      <3> QED
        BY <3>1, OutcomeGood
    <2> QED
      BY <2>3, <2>4
  <1> QED
    BY <1>1, <1>2

-----------------------------------------------------------------------------
(* The whole request *)

Stages == {"validate", "identity", "planner", "model", "planned", "done"}

\* The outcome is a plan that can be executed or holds no tasks; nobody has the
\* plan before planning is done, and then it is the outcome's; the outcome of
\* the model planner holds the work of the free answer the client returned.
PlanningInductive ==
    /\ HttpInductive
    /\ request \in Requests /\ stage \in Stages /\ answer \in Answers
    /\ GoodOutcome(outcome)
    /\ outcome.tasks # NoPlan /\ request.planner = "llm" => FreeAnswer(outcome.tasks)
    /\ stage # "done" => plan = NoPlan
    /\ plan \in {NoPlan, outcome.tasks}
    /\ status = "OK" => plan # NoPlan

LEMMA InitPlanning == HttpInit /\ PlanningInit => PlanningInductive
  <1> SUFFICES ASSUME HttpInit, PlanningInit PROVE PlanningInductive
    OBVIOUS
  <1>1. HttpInductive
    BY InitHttp
  <1>2. answer \in Answers
    BY DEF HttpInit, Answers
  <1>3. GoodOutcome(outcome) /\ outcome.tasks = NoPlan
    BY OutcomeGood DEF PlanningInit
  <1> QED
    BY <1>1, <1>2, <1>3 DEF PlanningInit, PlanningInductive, Stages

\* What the client holds stays; so does what the planner made of it.
LEMMA OutcomeStays ==
    ASSUME PlanningInductive, UNCHANGED <<request, outcome>>, UNCHANGED httpVars
    PROVE  /\ HttpInductive' /\ request' \in Requests /\ answer' \in Answers
           /\ GoodOutcome(outcome)'
           /\ (outcome.tasks # NoPlan /\ request.planner = "llm" => FreeAnswer(outcome.tasks))'
  <1>1. /\ HttpInductive /\ request \in Requests /\ answer \in Answers /\ GoodOutcome(outcome)
        /\ outcome.tasks # NoPlan /\ request.planner = "llm" => FreeAnswer(outcome.tasks)
    BY DEF PlanningInductive
  <1>2. HttpInductive'
    BY <1>1 DEF HttpInductive, httpVars
  <1>3. answer' = answer
    BY DEF httpVars
  <1> QED
    BY <1>1, <1>2, <1>3 DEF FreeAnswer

LEMMA EdgesKeepPlanning ==
    ASSUME PlanningInductive, Validate \/ ResolveFirst \/ AskModel
    PROVE  PlanningInductive'
  <1>1. /\ UNCHANGED <<request, outcome, plan>> /\ UNCHANGED httpVars
        /\ stage # "done" /\ stage' \in Stages
        /\ status' \in {status, "INVALID", "RESOLUTION_BLOCKED"}
    BY DEF Validate, ResolveFirst, AskModel, AnswerCaller, Stages
  <1>2. plan = NoPlan /\ status # "OK"
    BY <1>1 DEF PlanningInductive
  <1> QED
    BY <1>1, <1>2, OutcomeStays DEF PlanningInductive

\* A planner that needs no network: its outcome is good, and holds no tasks
\* when the model planner is configured.
LEMMA LocalKeepsPlanning ==
    ASSUME PlanningInductive, PlanLocally
    PROVE  PlanningInductive'
  <1>1. /\ UNCHANGED <<request, plan, status>> /\ UNCHANGED httpVars
        /\ stage # "done" /\ stage' = "planned" /\ request \in Requests
    BY DEF PlanLocally, PlanningInductive
  <1>2. plan = NoPlan /\ status # "OK"
    BY <1>1 DEF PlanningInductive
  <1>3. GoodOutcome(outcome') /\ (request.planner = "llm" => outcome'.tasks = NoPlan)
    <2>1. CASE outcome' \in {Outcome("UNAVAILABLE"), Outcome("INVALID")}
      BY <2>1, OutcomeGood
    <2>2. CASE request.planner = "deterministic"
               /\ \E rank \in Ranks(Len(DeterministicTasks(request.objective))) :
                     outcome' = Checked(DeterministicTasks(request.objective), rank)
      <3> DEFINE tasks == DeterministicTasks(request.objective)
      <3>1. request.objective \in Objectives
        BY <1>1 DEF Requests
      <3>2. tasks \in Seq(TaskRecords) /\ Acceptable(tasks)
        BY <3>1, DeterministicAcceptable
      <3> HIDE DEF tasks
      <3>3. PICK rank \in Ranks(Len(tasks)) : outcome' = Checked(tasks, rank)
        BY <2>2 DEF tasks
      <3>4. /\ outcome'.status \in {"OK", "FAILED"}
            /\ outcome'.status = "OK" => /\ Runnable(outcome'.tasks) /\ Shallow(outcome'.tasks)
                                         /\ outcome'.tasks # NoPlan
            /\ outcome'.status # "OK" => outcome'.tasks = NoPlan
        BY <3>2, <3>3, CheckedFacts
      <3> QED
        BY <2>2, <3>4 DEF GoodOutcome
    <2>3. CASE outcome' = Accepted(CompleteDisabled, <<>>)
      <3>1. outcome' \in {Outcome("UNAVAILABLE"), Outcome("FAILED")}
        BY <2>3 DEF Accepted, CompleteDisabled, ModelFailed
      <3> QED
        BY <3>1, OutcomeGood
    <2> QED
      BY <2>1, <2>2, <2>3 DEF PlanLocally
  <1>4. HttpInductive' /\ answer' \in Answers
    BY <1>1 DEF PlanningInductive, HttpInductive, httpVars
  <1> QED
    BY <1>1, <1>2, <1>3, <1>4 DEF PlanningInductive, Stages

\* The network answers a caller that waits, which has made nothing of it yet.
LEMMA WireKeepsPlanning ==
    ASSUME PlanningInductive, ModelOnTheWire
    PROVE  PlanningInductive'
  <1>1. HttpNext /\ UNCHANGED planningVars
    BY DEF ModelOnTheWire
  <1>2. HttpInductive'
    BY <1>1, HttpNextKeeps DEF PlanningInductive
  <1>3. answer = Pending /\ answer' \in Answers
    <2>1. PICK o \in Failures \cup Responses : Resend(o) \/ Settle(o)
      BY <1>1 DEF HttpNext
    <2>2. CASE Resend(o)
      BY <2>2 DEF Resend, OnTheWire, PlanningInductive
    <2>3. CASE Settle(o)
      BY <2>3, SettledIsAnswer DEF Settle, OnTheWire
    <2> QED
      BY <2>1, <2>2, <2>3
  <1>4. ~(outcome.tasks # NoPlan /\ request.planner = "llm")
    BY <1>3 DEF PlanningInductive, FreeAnswer, Pending
  <1>5. UNCHANGED <<request, stage, outcome, plan, status>>
    BY <1>1 DEF planningVars
  <1> QED
    BY <1>2, <1>3, <1>4, <1>5 DEF PlanningInductive

\* The planner reads the client's answer.
LEMMA AnsweredKeepsPlanning ==
    ASSUME PlanningInductive, ModelAnswered
    PROVE  PlanningInductive'
  <1>1. /\ UNCHANGED <<request, plan, status>> /\ UNCHANGED httpVars
        /\ stage # "done" /\ stage' = "planned" /\ request \in Requests
    BY DEF ModelAnswered, PlanningInductive
  <1>2. plan = NoPlan /\ status # "OK" /\ answer \in Answers
    BY <1>1 DEF PlanningInductive
  <1>3. GoodOutcome(outcome') /\ (outcome'.tasks # NoPlan => FreeAnswer(outcome'.tasks))
    <2>1. PICK rank \in Ranks(IF Response.status = "SUCCEEDED"
                              THEN Len(Response.text.tasks) ELSE 0) :
              outcome' = Accepted(Response, rank)
      BY DEF ModelAnswered
    <2> QED
      BY <1>2, <2>1, AcceptedFacts DEF Response
  <1>4. HttpInductive' /\ answer' = answer
    BY <1>1 DEF PlanningInductive, HttpInductive, httpVars
  <1>5. GoodOutcome(outcome)' /\ (outcome.tasks # NoPlan => FreeAnswer(outcome.tasks))'
    BY <1>3, <1>4 DEF FreeAnswer
  <1> QED
    BY <1>1, <1>2, <1>4, <1>5 DEF PlanningInductive, Stages

\* Only an outcome that is a plan is answered with success.
LEMMA AnswerKeepsPlanning ==
    ASSUME PlanningInductive, AnswerPlanned
    PROVE  PlanningInductive'
  <1>1. /\ UNCHANGED <<request, outcome>> /\ UNCHANGED httpVars
        /\ stage' = "done" /\ plan' = outcome.tasks
    BY DEF AnswerPlanned, AnswerCaller
  <1>2. status' = "OK" => outcome.status = "OK"
    <2>1. PlanStatus(outcome) = "OK" => outcome.status = "OK"
      BY DEF PlanStatus
    <2>2. WorkflowOperationStatus(PlanStatus(outcome)) = "OK" => PlanStatus(outcome) = "OK"
      BY DEF WorkflowOperationStatus
    <2>3. OrchestrationStatus(outcome) = "OK" => outcome.status = "OK"
      BY DEF OrchestrationStatus
    <2>4. status' \in {PlanStatus(outcome), WorkflowOperationStatus(PlanStatus(outcome)),
                       OrchestrationStatus(outcome)}
      BY DEF AnswerPlanned, AnswerCaller
    <2> QED
      BY <2>1, <2>2, <2>3, <2>4
  <1>3. status' = "OK" => outcome.tasks # NoPlan
    BY <1>2 DEF PlanningInductive, GoodOutcome
  <1> QED
    BY <1>1, <1>3, OutcomeStays DEF PlanningInductive, Stages

LEMMA NextKeepsPlanning ==
    PlanningInductive /\ [PlanningNext]_<<planningVars, httpVars>> => PlanningInductive'
  <1> SUFFICES ASSUME PlanningInductive, [PlanningNext]_<<planningVars, httpVars>>
               PROVE  PlanningInductive'
    OBVIOUS
  <1>1. CASE PlanningNext
    BY <1>1, EdgesKeepPlanning, LocalKeepsPlanning, WireKeepsPlanning,
       AnsweredKeepsPlanning, AnswerKeepsPlanning DEF PlanningNext
  <1>2. CASE UNCHANGED <<planningVars, httpVars>>
    <2>1. UNCHANGED <<request, stage, outcome, plan, status>> /\ UNCHANGED httpVars
      BY <1>2 DEF planningVars
    <2> QED
      BY <2>1, OutcomeStays DEF PlanningInductive
  <1> QED
    BY <1>1, <1>2

THEOREM PlanningInvariant == PlanningSpec => []PlanningInductive
  BY InitPlanning, NextKeepsPlanning, PTL DEF PlanningSpec

\* Type correctness, whatever requests, objectives, budget and answers of the
\* provider.
THEOREM PlanningTypesHold == PlanningSpec => []PlanningTypeOK
  <1>1. PlanningInductive => PlanningTypeOK
    BY RetriesAssumption DEF PlanningInductive, PlanningTypeOK, HttpInductive, GoodOutcome,
       Stages
  <1> QED
    BY <1>1, PlanningInvariant, PTL

\* Every plan that leaves planning can be executed from its first task to its
\* last, for any list of tasks a model may answer and any budget.
THEOREM PlansAreRunnable == PlanningSpec => []PlanRunnable
  <1>1. PlanningInductive => PlanRunnable
    <2> SUFFICES ASSUME PlanningInductive PROVE PlanRunnable
      OBVIOUS
    <2>1. Runnable(NoPlan)
      BY BudgetAssumption DEF Runnable, NoPlan, Positions
    <2>2. Runnable(plan) /\ (status = "OK" => plan # NoPlan)
      BY <2>1 DEF PlanningInductive, GoodOutcome
    <2> QED
      BY <2>2 DEF PlanRunnable, Runnable
  <1> QED
    BY <1>1, PlanningInvariant, PTL

\* What the executor asks of a plan before it starts it: not too many tasks and
\* none that waits for too many.  Its bounds on attempts and calls follow: a
\* task of a plan allows one attempt, and the composition's budget allows more
\* attempts and calls than tasks.
PlanAdmitted == Len(plan) <= MaxTasks /\ Shallow(plan)

\* The executor measures a plan again, in its own order and by its own
\* positions: what planning has passed, the executor never turns away as over
\* the budget that the composition gives to both, whatever the tasks the model
\* answered, their dependencies and the random order of their ids.  (A request
\* that brings a budget of its own is measured by that one.)
THEOREM PlansAreAdmitted == PlanningSpec => []PlanAdmitted
  <1>1. PlanningInductive => PlanAdmitted
    <2> SUFFICES ASSUME PlanningInductive PROVE PlanAdmitted
      OBVIOUS
    <2>1. Runnable(NoPlan) /\ Shallow(NoPlan)
      BY BudgetAssumption DEF Runnable, Shallow, NoPlan, Positions
    <2>2. Runnable(plan) /\ Shallow(plan)
      BY <2>1 DEF PlanningInductive, GoodOutcome
    <2> QED
      BY <2>2 DEF PlanAdmitted, Runnable
  <1> QED
    BY <1>1, PlanningInvariant, PTL

\* A plan of the model planner is task for task a free answer of the provider.
THEOREM ModelPlansAreFree == PlanningSpec => []PlanIsTheFreeAnswer
  <1>1. PlanningInductive => PlanIsTheFreeAnswer
    <2> SUFFICES ASSUME PlanningInductive, request.planner = "llm", plan # NoPlan
                 PROVE  PlanIsTheFreeAnswer
      BY DEF PlanIsTheFreeAnswer
    <2>1. FreeAnswer(plan)
      BY DEF PlanningInductive
    <2> QED
      BY <2>1 DEF PlanIsTheFreeAnswer, FreeAnswer, SameWork
  <1> QED
    BY <1>1, PlanningInvariant, PTL

=============================================================================
