-------------------------------- MODULE Startup --------------------------------
(***************************************************************************)
(* Settings' validators and build_container, which wires the process from  *)
(* the settings that pass: two places written apart that must agree on     *)
(* which deployments exist.  Pure: a deployment is a record of the fields  *)
(* either of them looks at; numeric limits, host syntax and log contexts   *)
(* are left out.                                                           *)
(***************************************************************************)
EXTENDS Naturals

Environments == {"development", "test", "staging", "production"}

\* Where Settings, authentication, readiness and the host check are strict.
Enforced == {"staging", "production"}

\* A model id or a key may be absent, or made of blanks only: the validators
\* test for emptiness, OpenRouterAdapter strips first.
Texts == {"absent", "blank", "given"}

Deployments ==
    [env : Environments, debug : BOOLEAN,
     hosts : {"explicit", "wildcard", "none"}, auth : BOOLEAN,
     keys : {"none", "some"},
     planner : {"deterministic", "llm"}, live : BOOLEAN,
     model : Texts, llmKey : Texts, sameModelTwice : BOOLEAN, paid : BOOLEAN,
     marketLive : BOOLEAN, marketProvider : {"yahoo_finance_chart", "none"},
     financialLive : BOOLEAN, financialProvider : {"sec_company_facts", "none"}]

\* The part of the model validator that looks at the environment.
StrictEnough(d) ==
    d.env \in Enforced => ~d.debug /\ d.hosts = "explicit" /\ d.auth

\* Faulty variant: the planner's prerequisites are not looked at.
AnyPlanner(d) == TRUE

\* The part that looks at the planner.
PlannerPrerequisites(d) ==
    d.planner = "llm" => d.live /\ d.model # "absent" /\ d.llmKey # "absent"

\* Settings accepts the environment.
Valid(d) ==
    /\ ~d.paid
    /\ ~d.sameModelTwice
    /\ StrictEnough(d)
    /\ d.marketLive => d.marketProvider # "none"
    /\ d.financialLive => d.financialProvider # "none"
    /\ d.live => d.model # "absent"
    /\ PlannerPrerequisites(d)

\* build_container's choices.
Router(d) == IF d.live /\ d.model # "absent" THEN "openrouter" ELSE "disabled"

MarketSource(d) ==
    IF d.marketLive /\ d.marketProvider = "yahoo_finance_chart"
    THEN "live_then_fixture" ELSE "fixture"

FinancialSource(d) ==
    IF d.financialLive /\ d.financialProvider = "sec_company_facts"
    THEN "live_then_fixture" ELSE "fixture"

\* The process comes up: the settings pass and no constructor raises;
\* OpenRouterAdapter's does on a model id that is blank.
Starts(d) == Valid(d) /\ ~(Router(d) = "openrouter" /\ d.model = "blank")

\* Faulty variant: readiness only reports what AUTH_ENABLED asks for.
AuthCheckBySetting(d) == ~d.auth \/ d.keys # "none"

\* The authentication probe; the other probes always report ready.
AuthenticationReady(d) == d.env \notin Enforced \/ d.keys # "none"

\* ReadinessRegistry.evaluate: ready when every registered probe is.
Ready(d) == \A probe \in {"application", "configuration", "authentication"} :
               probe = "authentication" => AuthenticationReady(d)

=============================================================================
