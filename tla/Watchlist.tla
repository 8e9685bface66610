-------------------------------- MODULE Watchlist --------------------------------
(***************************************************************************)
(* ManageWatchlist over InMemoryWatchlistStore: lists are created and      *)
(* never changed; a monitoring check walks the entries of a list and       *)
(* asks for one workflow for each, then announces the check.  A workflow   *)
(* is created only if its plan succeeds.  Checks run in request threads    *)
(* and interleave; the list is read once, at the start.                    *)
(*                                                                         *)
(* An entry is [company, query]: the query keeps raw_query and exchange.   *)
(* A result is [status, company], the WorkflowOperationResult of an entry. *)
(***************************************************************************)
EXTENDS CompanyResolution

CONSTANTS Checkers,       \* request threads that evaluate watchlists
          ListRequests,   \* [queries, policy]: an entry input has no country and no
                        \* ticker; the policy is legal or not
          MaxLists,       \* bound: watchlists created
          MaxChecks       \* bound: checks begun

ASSUME WatchlistAssumption ==
    ListRequests \subseteq [queries : Seq(QueryRecords), policy : {"legal", "illegal"}]

VARIABLES
    lists,          \* WatchlistStore, in the order of creation
    listReply,      \* status of the last create, get or evaluate
    begun,          \* checks begun so far
    checks,         \* Checkers -> the check under way
    workflows,      \* the workflows created: [company, check]
    answers,        \* what checks answered: [check, list, results]
    announcements   \* MONITORING_CHECK_CREATED: [check, list, count]

watchlistVars == <<lists, listReply, begun, checks, workflows, answers, announcements>>

NoCheck == [id |-> 0, list |-> 0, results |-> <<>>]

WatchlistInit ==
    /\ lists = <<>> /\ listReply = "NONE"
    /\ begun = 0 /\ checks = [t \in Checkers |-> NoCheck]
    /\ workflows = <<>> /\ answers = {} /\ announcements = {}

-----------------------------------------------------------------------------

\* Faulty variant: a check asks for the text alone.
TextOnly(entry) == [entry.query EXCEPT !.exchange = Absent]

\* The query a check makes of an entry: the text and the exchange it keeps.
CheckQuery(entry) == entry.query

\* WatchlistEntry keeps the text without the blanks it does not need.
Normalized(query) == [query EXCEPT !.text = IF @ = "spaced" THEN "given" ELSE @]

\* The text is resolved as it came, and stored as it is kept.
Entries(queries) ==
    [i \in DOMAIN queries |->
        [company |-> Resolve(queries[i]).company, query |-> Normalized(queries[i])]]

\* Watchlist and MonitoringPolicy refuse: every entry resolves, to a company
\* of its own.
Acceptable(request) ==
    /\ request.policy = "legal"
    /\ LET entries == Entries(request.queries) IN
       /\ \A i \in DOMAIN entries : entries[i].company # NoCompany
       /\ \A i, j \in DOMAIN entries : entries[i].company = entries[j].company => i = j

CreateList(request) ==
    /\ Len(lists) < MaxLists
    /\ lists' = IF Acceptable(request) THEN Append(lists, Entries(request.queries)) ELSE lists
    /\ listReply' = IF Acceptable(request) THEN "OK" ELSE "INVALID"
    /\ UNCHANGED <<begun, checks, workflows, answers, announcements>>

\* evaluate: the list is looked up; every policy stored is enabled.
BeginCheck(t, n) ==
    /\ checks[t] = NoCheck
    /\ IF n \in DOMAIN lists
       THEN /\ begun < MaxChecks
            /\ begun' = begun + 1
            /\ checks' = [checks EXCEPT ![t] =
                             [id |-> begun + 1, list |-> n, results |-> <<>>]]
            /\ UNCHANGED listReply
       ELSE listReply' = "NOT_FOUND" /\ UNCHANGED <<begun, checks>>
    /\ UNCHANGED <<lists, workflows, answers, announcements>>

\* CreateResearchWorkflow.execute without a prepared plan: what becomes of the
\* plan is the planner's (module Planning), and no workflow without a plan.
CreationResults(resolution) ==
    IF resolution.status = "RESOLVED"
    THEN [status : {"OK", "INVALID", "FAILED"}, company : {resolution.company}]
    ELSE {[status |-> IF resolution.status = "INVALID" THEN "INVALID" ELSE "RESOLUTION_BLOCKED",
           company |-> NoCompany]}

\* The next entry: its text is resolved again, and the result is kept whether a
\* workflow came of it or not.
CheckEntry(t) ==
    /\ checks[t] # NoCheck
    /\ LET check == checks[t]
           next == Len(check.results) + 1
       IN /\ next <= Len(lists[check.list])
          /\ \E result \in CreationResults(Resolve(CheckQuery(lists[check.list][next]))) :
                /\ checks' = [checks EXCEPT ![t].results = Append(@, result)]
                /\ workflows' = IF result.status # "OK" THEN workflows
                                ELSE Append(workflows, [company |-> result.company,
                                                        check |-> check.id])
    /\ UNCHANGED <<lists, listReply, begun, answers, announcements>>

\* All results are counted as created.  The announcement may be lost: publish
\* is under suppress(Exception).
EndCheck(t) ==
    /\ checks[t] # NoCheck
    /\ LET check == checks[t] IN
       /\ Len(check.results) = Len(lists[check.list])
       /\ \E published \in BOOLEAN :
             announcements' = IF ~published THEN announcements
                              ELSE announcements \cup
                                     {[check |-> check.id, list |-> check.list,
                                       count |-> Len(check.results)]}
       /\ answers' = answers \cup {[check |-> check.id, list |-> check.list,
                                    results |-> check.results]}
    /\ checks' = [checks EXCEPT ![t] = NoCheck]
    /\ listReply' = "OK"
    /\ UNCHANGED <<lists, begun, workflows>>

WatchlistNext ==
    \/ \E request \in ListRequests : CreateList(request)
    \/ \E t \in Checkers : \/ \E n \in 1..MaxLists : BeginCheck(t, n)
                           \/ CheckEntry(t)
                           \/ EndCheck(t)

WatchlistSpec == WatchlistInit /\ [][WatchlistNext]_watchlistVars

-----------------------------------------------------------------------------
(* Properties *)

\* The workflows of a check, and the places of a list whose workflow was made.
Made(id) == {j \in DOMAIN workflows : workflows[j].check = id}

Successes(results) == {i \in DOMAIN results : results[i].status = "OK"}

\* The results so far of a check of a list are those of its entries.
ResultsTrue(id, list, results) ==
    /\ \A i \in DOMAIN results : /\ results[i].status # "RESOLUTION_BLOCKED"
                                 /\ results[i].company = lists[list][i].company
    /\ {workflows[j].company : j \in Made(id)} =
          {results[i].company : i \in Successes(results)}
    /\ Cardinality(Made(id)) = Cardinality(Successes(results))

\* A check looks into the companies that were put on the list, whatever became
\* of their plans: although the text of each entry is resolved again, and other
\* checks run beside it, each entry passed has a result of its own company,
\* none is ever blocked, and the workflows of the check are one for each
\* success and no others.  An answer has a result for every entry.  What is
\* announced as workflow_count is the number of results: it is the number of
\* workflows created exactly when no plan failed.
MonitoringKeepsCompanies ==
    /\ \A t \in Checkers : checks[t] # NoCheck =>
          ResultsTrue(checks[t].id, checks[t].list, checks[t].results)
    /\ \A e \in answers : /\ ResultsTrue(e.check, e.list, e.results)
                          /\ Len(e.results) = Len(lists[e.list])
    /\ \A a \in announcements : \E e \in answers :
          /\ <<e.check, e.list>> = <<a.check, a.list>>
          /\ a.count = Len(e.results)
          /\ a.count = Cardinality(Made(a.check)) <=> Successes(e.results) = DOMAIN e.results

=============================================================================
