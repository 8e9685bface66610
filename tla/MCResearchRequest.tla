--------------------------- MODULE MCResearchRequest ---------------------------
(***************************************************************************)
(* Small instances of the two halves of a research request: how it gets    *)
(* through the edge of a process (RequestSafety), and what planning makes  *)
(* of it once its route runs (Planning).  They share no state, so a        *)
(* behaviour explores one half; the planners of the second half are the    *)
(* ones the first half's settings can wire.                                *)
(***************************************************************************)
EXTENDS RequestSafety, Planning

VARIABLE part

(* The edge: every setting authentication, hosts and readiness look at, and *)
(* every setting the choice of planner and sources looks at.                *)
Plain == [env |-> "production", debug |-> FALSE, hosts |-> "explicit", auth |-> TRUE,
          keys |-> "some", planner |-> "deterministic", live |-> FALSE,
          model |-> "absent", llmKey |-> "absent", sameModelTwice |-> FALSE,
          paid |-> FALSE, marketLive |-> FALSE,
          marketProvider |-> "yahoo_finance_chart", financialLive |-> FALSE,
          financialProvider |-> "sec_company_facts"]

MCSlice ==
    {[Plain EXCEPT !.env = e, !.debug = g, !.hosts = h, !.auth = a, !.keys = k] :
        e \in Environments, g \in BOOLEAN, h \in {"explicit", "none"},
        a \in BOOLEAN, k \in {"none", "some"}}
    \cup {[Plain EXCEPT !.planner = p, !.live = l, !.model = m, !.llmKey = k,
                        !.sameModelTwice = s, !.paid = s] :
        p \in {"deterministic", "llm"}, l \in BOOLEAN, m \in Texts, k \in Texts,
        s \in BOOLEAN}

(* Planning: one capability is unavailable; the budget is at its limit for *)
(* some plans and below it for others.                                     *)
MCObjectives == {"company_overview", "comprehensive_equity_research",
                 "regulatory_analysis"}

PlannersWired == {"deterministic", "llm", "llm_disabled", "unavailable"}

Asked(c, d, p) == [capability |-> c, deps |-> d, priority |-> p]
Eligible == <<"market_intelligence", "financial_intelligence",
              "news_event_intelligence">>

\* One, two and three tasks: unknown and unavailable capabilities, repeated
\* ones, dependencies on themselves, on each other and on nothing.
MCTaskLists ==
    {<<>>}
    \cup {<<Asked(c, d, 1)>> : c \in CapabilityIds, d \in SUBSET {1, 2}}
    \cup {<<Asked("market_intelligence", d, p), Asked(c, e, 1)>> :
            c \in {"market_intelligence", "financial_intelligence"},
            d \in SUBSET {1, 2}, e \in SUBSET {1, 2}, p \in {1, 2}}
    \cup {[i \in 1..3 |-> Asked(Eligible[i], d[i], 1)] :
            d \in {f \in [1..3 -> SUBSET (1..3)] : \A i \in 1..3 : i \notin f[i]}}

Says(tasks) == [kind |-> "research_plan", tasks |-> tasks]
OneTask == Says(<<Asked("market_intelligence", {}, 1)>>)

MCPayloads ==
    {[message |-> "present", cost |-> "zero", text |-> Says(l)] : l \in MCTaskLists}
    \cup {[message |-> "present", cost |-> c, text |-> OneTask] : c \in Costs}
    \cup {[message |-> "missing", cost |-> "zero", text |-> OneTask],
          [message |-> "present", cost |-> "zero",
           text |-> [kind |-> "malformed", tasks |-> <<>>]]}

SafetyIdle ==
    /\ deployment = Plain /\ process = "starting" /\ call = NoCall
    /\ body = <<>> /\ ended = "open" /\ seen = NotRead /\ reply = NoReply

PlanningIdle ==
    /\ request = [entry |-> "plan", valid |-> FALSE, objective |-> "company_overview",
                  planner |-> "unavailable", identity |-> "INVALID"]
    /\ stage = "validate" /\ outcome = Outcome("NONE") /\ plan = NoPlan
    /\ status = "NONE"

Init ==
    /\ HttpInit
    /\ \/ part = "edge" /\ SafetyInit /\ PlanningIdle
       \/ part = "planning" /\ PlanningInit /\ SafetyIdle

Next ==
    \/ part = "edge" /\ SafetyNext
       /\ UNCHANGED <<part, planningVars, httpVars>>
    \/ part = "planning" /\ PlanningNext
       /\ UNCHANGED <<part, safetyVars>>

Spec == Init /\ [][Next]_<<part, safetyVars, planningVars, httpVars>>

=============================================================================
