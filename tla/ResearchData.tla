------------------------------ MODULE ResearchData ------------------------------
(***************************************************************************)
(* Capability calls on request threads: the snapshot use cases over their  *)
(* caches, fallbacks and adapters, asked by a route, by a task of a plan   *)
(* through Phase6CapabilityExecutor, or by a model through                 *)
(* ToolCallExecutionService.                                               *)
(*                                                                         *)
(* A call is [entry, output, capability, arguments, query, variant]; the   *)
(* variant is the listing, fiscal year or event type a route may ask for.  *)
(* Data is [kind, company, variant, origin, availability, asOf, source]:   *)
(* source is the number of the call that fetched it, 0 for a fixture.      *)
(***************************************************************************)
EXTENDS CompanyResolution, Functions

CONSTANTS Threads,
          Calls,
          MaxCalls,     \* bound: calls begun
          Fixtures,     \* the reference data, newest package first
          LiveKinds,    \* capabilities with live acquisition enabled
          Registered,   \* the capability registry
          Unavailable,  \* those of its capabilities that are unavailable
          TTL,          \* of the caches
          StaleAfter,   \* of MarketFreshnessPolicy
          MaxNow,       \* bound: clock readings
          Years         \* fiscal years the live source may have

\* The packages of the reference data.
PackageRecords ==
    [kind : STRING, company : STRING, variant : STRING, origin : {"fixture"},
     availability : {"available", "partial", "degraded", "unavailable"}, asOf : Nat,
     source : {0}]

ASSUME DataAssumption ==
    TTL \in Nat \ {0} /\ StaleAfter \in Nat \ {0} /\ Fixtures \in Seq(PackageRecords)

VARIABLES
    clock,
    calls,     \* calls begun so far
    threads,   \* the call each thread is at
    cache,     \* key -> [data, expires] for the keys that are there
    stored     \* history: call -> when what it fetched entered a cache

dataVars == <<clock, calls, threads, cache, stored>>

NoData == [kind |-> "none"]
NoCall == [entry |-> "none"]
NoRequest == [kind |-> "none", company |-> NoCompany, variant |-> Absent]
Quiet == [pc |-> "idle", call |-> NoCall, number |-> 0, evaluated |-> 0,
          request |-> NoRequest, fetched |-> NoData, status |-> "NONE", data |-> NoData]

DataInit ==
    /\ clock = 0 /\ calls = 0
    /\ threads = [t \in Threads |-> Quiet]
    /\ cache = <<>> /\ stored = <<>>

-----------------------------------------------------------------------------
(* ToolCallExecutionService, before anything runs *)

\* Faulty variant: only the name of the tool is looked at.
UnknownOnly(c) == c.capability \notin Registered

\* The gate of _execute_tool_call.
NotOffered(c) == c.capability \notin Registered \ Unavailable

Declines(c) == c.output # "tool_call" \/ NotOffered(c) \/ c.arguments # "ok"

Declined(c) == IF c.output = "final_answer" THEN "FINAL_ANSWER" ELSE "REJECTED"

-----------------------------------------------------------------------------
(* The snapshot use cases, up to the port *)

NoListing == [id |-> "none", exchange |-> "none", ticker |-> "none", primary |-> FALSE]

\* _select_listing: the one asked for, else the primary one, else the first.
SelectListing(listings, c) ==
    LET wanted == {i \in DOMAIN listings : listings[i].id = c.variant}
        primary == {i \in DOMAIN listings : listings[i].primary}
        preferred == IF c.variant # Absent THEN wanted
                     ELSE IF primary # {} THEN primary ELSE DOMAIN listings
    IN IF preferred = {} THEN NoListing ELSE listings[Min(preferred)]

\* What is answered without asking a port, or "ASK".
Withheld(c, resolution, listing) ==
    CASE resolution.status = "INVALID" -> "INVALID"
      [] resolution.status \in {"AMBIGUOUS", "NOT_FOUND"} -> "RESOLUTION_BLOCKED"
      [] OTHER ->
           CASE c.capability = "company_resolution" -> "OK"
             [] c.capability = "market" /\ listing = NoListing ->
                  IF c.variant = "garbled" /\ resolution.listings # <<>>
                  THEN "INVALID" ELSE "UNAVAILABLE"
             [] OTHER -> "ASK"

\* What the port is asked: market data by listing, the rest by company.
Request(c, resolution, listing) ==
    [kind |-> c.capability, company |-> resolution.company,
     variant |-> IF c.capability = "market" THEN listing.id ELSE c.variant]

-----------------------------------------------------------------------------
(* The snapshot use cases, after the port, and what their callers make of it  *)

Freshness(data, evaluated) ==
    CASE evaluated < data.asOf -> "UNKNOWN"
      [] evaluated >= data.asOf /\ evaluated - data.asOf <= StaleAfter -> "FRESH"
      [] OTHER -> "STALE"

Belongs(data, request) ==
    /\ data # NoData
    /\ data.company = request.company
    /\ request.kind = "market" => data.variant = request.variant

\* Market data may be refused for being unavailable, and go stale; nothing
\* else is.
MarketStatus(data, evaluated) ==
    CASE data.availability = "unavailable" -> "UNAVAILABLE"
      [] data.availability = "partial" -> "PARTIAL"
      [] OTHER -> IF data.availability = "available" /\ Freshness(data, evaluated) = "FRESH"
                  THEN "OK" ELSE "DEGRADED"

PackageStatus(data) ==
    CASE data.availability = "partial" -> "PARTIAL"
      [] data.availability = "degraded" -> "DEGRADED"
      [] OTHER -> "OK"

SnapshotStatus(data, request, evaluated) ==
    IF ~Belongs(data, request) THEN "UNAVAILABLE"
    ELSE IF request.kind = "market" THEN MarketStatus(data, evaluated) ELSE PackageStatus(data)

\* adapt_*_result: a company that is not resolved is an identity mismatch, found
\* before RESOLUTION_BLOCKED could become BLOCKED.
TaskStatus == [OK |-> "SUCCESS", PARTIAL |-> "PARTIAL", DEGRADED |-> "PARTIAL",
               UNAVAILABLE |-> "UNAVAILABLE", RESOLUTION_BLOCKED |-> "FAILED",
               INVALID |-> "FAILED"]

ToolStatus(task) == IF task \in {"SUCCESS", "PARTIAL"} THEN "SUCCEEDED" ELSE "FAILED"

\* The status a caller sees for a snapshot.
Reported(entry, status) ==
    CASE entry = "route" -> status
      [] entry = "task" -> TaskStatus[status]
      [] OTHER -> ToolStatus(TaskStatus[status])

\* Data is shown, or referred to as evidence, if it was used.
Evidence(status, data) == IF status = "UNAVAILABLE" THEN NoData ELSE data

Ended(thread, data) ==
    LET status == SnapshotStatus(data, thread.request, thread.evaluated) IN
    [thread EXCEPT !.pc = "done", !.fetched = NoData, !.data = Evidence(status, data),
                   !.status = Reported(thread.call.entry, status)]

\* The answer of a call that reaches no port, or "ASK".
AtOnce(c, withheld) ==
    CASE c.entry = "tool" /\ Declines(c) -> Declined(c)
      [] withheld = "ASK" /\ ~(c.entry = "tool" /\ Declines(c)) -> "ASK"
      [] OTHER -> Reported(c.entry, withheld)

-----------------------------------------------------------------------------
(* The steps of a call *)

Tick ==
    /\ clock < MaxNow
    /\ clock' = clock + 1
    /\ UNCHANGED <<calls, threads, cache, stored>>

\* From the request to the port: gates, resolution, listing.
BeginCall(t, c) ==
    /\ threads[t].pc \in {"idle", "done"} /\ calls < MaxCalls
    /\ calls' = calls + 1
    /\ LET resolution == Resolve(c.query)
           listing == SelectListing(resolution.listings, c)
           answer == AtOnce(c, Withheld(c, resolution, listing))
       IN threads' = [threads EXCEPT ![t] =
            [pc |-> IF answer = "ASK" THEN "lookup" ELSE "done", call |-> c,
             number |-> calls + 1, evaluated |-> clock,
             request |-> Request(c, resolution, listing), fetched |-> NoData,
             status |-> answer, data |-> NoData]]
    /\ UNCHANGED <<clock, cache, stored>>

\* Faulty variant: one entry for all a company's packages.
CompanyOnly(request) == [kind |-> request.kind, company |-> request.company, variant |-> Absent]

\* The key isolates what the port was asked.  Left out: the limit in the key of
\* news, by which a route's calls have entries apart from those of tasks and
\* tools.  News is never live, so both hold the same reference data.
Key(request) == [kind |-> request.kind, company |-> request.company, variant |-> request.variant]

Unexpired(key) == key \in DOMAIN cache /\ cache[key].expires > clock

\* Faulty variant: a hit is handed out as it is.
AsItIs(data) == data

\* _label_cached
Labelled(data) == IF data.origin = "live" THEN [data EXCEPT !.origin = "cached_live"] ELSE data

\* The first look at the cache, under its lock.
LookUp(t) ==
    /\ threads[t].pc = "lookup"
    /\ LET key == Key(threads[t].request) IN
       threads' = [threads EXCEPT ![t] =
          IF Unexpired(key) THEN Ended(@, Labelled(cache[key].data))
          ELSE [@ EXCEPT !.pc = "fetch"]]
    /\ UNCHANGED <<clock, calls, cache, stored>>

\* The fixture adapters: where the reference data answers the question.
FixtureHits(request) ==
    {i \in DOMAIN Fixtures :
        /\ Fixtures[i].kind = request.kind /\ Fixtures[i].company = request.company
        /\ request.variant # Absent => Fixtures[i].variant = request.variant}

FromFixture(d, variant, availability) ==
    [kind |-> d.kind, company |-> d.company, variant |-> variant, origin |-> "fixture",
     availability |-> availability, asOf |-> d.asOf, source |-> 0]

\* The events of one type are full coverage of that type.
NewsPackage(d, request) ==
    FromFixture(d, request.variant,
                IF request.variant = Absent THEN d.availability ELSE "available")

FixtureAnswer(request) ==
    LET d == Fixtures[Min(FixtureHits(request))] IN
    CASE FixtureHits(request) = {} -> NoData
      [] FixtureHits(request) # {} /\ request.kind = "news" -> NewsPackage(d, request)
      [] OTHER -> FromFixture(d, d.variant, d.availability)

Live(request, variant, availability, asOf, number) ==
    [kind |-> request.kind, company |-> request.company, variant |-> variant,
     origin |-> "live", availability |-> availability, asOf |-> asOf, source |-> number]

\* YahooChartMarketDataAdapter: the observations may be of any time.
LiveSeries(request, number) ==
    {Live(request, request.variant, "available", at, number) : at \in {0, clock + 1}}

\* SecCompanyFactsFinancialDataAdapter (module CompanyFacts): always partial.
LivePackages(request, number) ==
    {Live(request, year, "partial", 0, number) :
        year \in IF request.variant = Absent THEN Years ELSE {request.variant}}

\* What the live source gives: nothing, if it failed or has nothing.
LiveAnswers(request, number) ==
    {NoData} \cup (IF request.kind \notin LiveKinds THEN {}
                   ELSE IF request.kind = "market" THEN LiveSeries(request, number)
                   ELSE LivePackages(request, number))

Usable(series) == series # NoData /\ series.availability # "unavailable"

\* A primary that cannot be used is still preferred to a secondary that cannot.
MarketFallback(primary, secondary) ==
    IF Usable(primary) \/ (primary # NoData /\ ~Usable(secondary)) THEN primary ELSE secondary

FinancialFallback(primary, secondary) == IF primary # NoData THEN primary ELSE secondary

\* The inner adapter, outside the lock.
Fetch(t) ==
    /\ threads[t].pc = "fetch"
    /\ LET request == threads[t].request
           fixture == FixtureAnswer(request)
       IN \E live \in LiveAnswers(request, threads[t].number) :
            threads' = [threads EXCEPT ![t].pc = "store",
                          ![t].fetched = IF request.kind = "market"
                                         THEN MarketFallback(live, fixture)
                                         ELSE FinancialFallback(live, fixture)]
    /\ UNCHANGED <<clock, calls, cache, stored>>

\* Faulty variant: what came back is stored whatever is there by now.
NotLookedAt(key) == FALSE

\* The second look, after the fetch.
StillFresh(key) == Unexpired(key)

\* The second section under the lock: clock and entry are read again.
StoreData(t) ==
    /\ threads[t].pc = "store"
    /\ LET key == Key(threads[t].request)
           data == threads[t].fetched
           kept == StillFresh(key)
       IN /\ threads' = [threads EXCEPT ![t] = Ended(@, IF kept THEN Labelled(cache[key].data) ELSE data)]
          /\ cache' = CASE kept -> cache
                        [] ~kept /\ data # NoData ->
                              [k \in DOMAIN cache \cup {key} |->
                                 IF k = key THEN [data |-> data, expires |-> clock + TTL] ELSE cache[k]]
                        [] OTHER -> Restrict(cache, DOMAIN cache \ {key})
          /\ stored' = IF kept \/ data = NoData THEN stored
                       ELSE [n \in DOMAIN stored \cup {threads[t].number} |->
                               IF n = threads[t].number THEN clock ELSE stored[n]]
    /\ UNCHANGED <<clock, calls>>

DataNext ==
    \/ Tick
    \/ \E t \in Threads : \/ \E c \in Calls : BeginCall(t, c)
                          \/ LookUp(t)
                          \/ Fetch(t)
                          \/ StoreData(t)

DataSpec == DataInit /\ [][DataNext]_dataVars

-----------------------------------------------------------------------------
(* Properties *)

Answers == {threads[t] : t \in {u \in Threads : threads[u].pc = "done"}}

Shown == {a \in Answers : a.data # NoData}

\* An answer says truly where its data came from, to whatever caller and in
\* whatever order calls fetch and store: "live" is what this very call fetched;
\* "cached_live" is what another call fetched, and was stored less than TTL
\* before this call began; "fixture" was never fetched from a live source.
\* Only what a port can give is a source at all: news is never live.
OriginTruthful ==
    \A a \in Shown :
        LET d == a.data IN
        /\ d.origin = "live" => d.source = a.number
        /\ d.origin = "cached_live" =>
              /\ d.source \notin {0, a.number}
              /\ d.source \in DOMAIN stored
              /\ a.evaluated - stored[d.source] < TTL
        /\ (d.origin = "fixture") <=> (d.source = 0)
        /\ d.source # 0 => d.kind \in LiveKinds

\* The data shown, or referred to as evidence, is of the company the caller's
\* query resolves to: market data of one of the listings that match it, and of
\* the one asked for if one was; financial data of the year asked for, news of
\* the type asked for.  No cache entry of another question is taken for it.
RightCompany ==
    \A a \in Shown :
        LET resolved == Resolve(a.call.query) IN
        /\ resolved.status = "RESOLVED" /\ a.data.company = resolved.company
        /\ a.data.kind = a.call.capability
        /\ a.call.variant # Absent => a.data.variant = a.call.variant
        /\ a.data.kind = "market" =>
              \E i \in DOMAIN resolved.listings : resolved.listings[i].id = a.data.variant

\* A call whose tool is not on offer, whose arguments do not pass or whose
\* company does not resolve fetches nothing and leaves nothing behind, in its
\* answer or in a cache another call reads; a call is said to have succeeded
\* only if there is data for it (or the company itself is the answer).
RefusedLeavesNoTrace ==
    \A a \in Answers :
        /\ (/\ a.call.entry = "tool"
            /\ \/ a.call.capability \notin Registered
               \/ a.call.capability \in Unavailable
               \/ a.call.arguments # "ok"
               \/ Resolve(a.call.query).status # "RESOLVED")
             => /\ a.data = NoData /\ a.number \notin DOMAIN stored
                /\ a.status \in {"REJECTED", "FAILED", "FINAL_ANSWER"}
        /\ a.status \in {"SUCCEEDED", "SUCCESS", "PARTIAL", "OK", "DEGRADED"} =>
             (a.data # NoData <=> a.call.capability # "company_resolution")

\* While an entry lives no call replaces it or drops it: of two calls that miss
\* together, the one that comes back second takes what the first one stored,
\* even if its own source failed in the meantime.
FreshEntryKept ==
    [][\A key \in DOMAIN cache :
          cache[key].expires > clock => key \in DOMAIN cache' /\ cache'[key] = cache[key]]_dataVars

=============================================================================
