----------------------------- MODULE MCResearchData -----------------------------
(* A small instance of what research is made from: company resolution, the     *)
(* data of a company, the SEC parser and watchlists.  They share the catalog   *)
(* and no state, so a behaviour is of one part and leaves the rest idle.       *)
EXTENDS CompanyRoute, ResearchData, CompanyFacts, Watchlist, TLC

VARIABLE part

allVars == <<part, companyVars, dataVars, factsVars, watchlistVars>>

Listing(id, exchange, ticker, primary) ==
    [id |-> id, exchange |-> exchange, ticker |-> ticker, primary |-> primary]

\* Two listings of one company, a ticker two companies share on different
\* exchanges, an alias that is another company's ticker, names that clash.
MCCatalog ==
    {[id |-> "infosys", country |-> "in", aliases |-> {"infy", "bluechip"}, names |-> {"infosys"},
      similar |-> {"infosy"},
      listings |-> <<Listing("infyAdr", "nyse", "INFY", FALSE), Listing("infyNse", "nse", "INFY", TRUE)>>],
     [id |-> "tata", country |-> "in", aliases |-> {"bluechip"}, names |-> {"tata"},
      similar |-> {"infosy"}, listings |-> <<Listing("tcsNse", "nse", "TCS", FALSE)>>],
     [id |-> "container", country |-> "us", aliases |-> {"tcs"}, names |-> {"container", "tata"},
      similar |-> {}, listings |-> <<Listing("tcsNyse", "nyse", "TCS", FALSE)>>]}

Q(text, key, token) ==
    [text |-> text, key |-> key, token |-> token, ticker |-> Absent, exchange |-> Absent,
     country |-> Absent]

Infosys == Q("given", "infosys", "INFOSYS")
Infy == Q("given", "infy", "INFY")
Tcs == Q("given", "tcs", "TCS")
TcsNse == [Tcs EXCEPT !.exchange = "nse"]
Nobody == Q("given", "nobody", "NOBODY")

MCQuestions ==
    {[q EXCEPT !.ticker = t, !.exchange = e, !.country = c] :
        q \in {Infosys, Infy, Tcs, Nobody, Q("given", "tata", "TATA"),
               Q("given", "bluechip", "BLUECHIP"), Q("given", "infosy", Absent),
               Q("empty", Absent, Absent), Q("invalid", Absent, Absent)},
        t \in {Absent, "INFY", "TCS", "NONE"}, e \in {Absent, "nse", "nyse"},
        c \in {Absent, "in", "us"}}
      \cup {[Infy EXCEPT !.ticker = "garbled"], [Infy EXCEPT !.exchange = "garbled"],
            [Infy EXCEPT !.country = "garbled"]}

-----------------------------------------------------------------------------

C(entry, capability, query, variant) ==
    [entry |-> entry, output |-> "tool_call", capability |-> capability, arguments |-> "ok",
     query |-> query, variant |-> variant]

MCCalls ==
    {C("route", "market", Infy, "infyAdr"), C("tool", "market", Infosys, Absent),
     C("task", "financial", Infy, Absent), C("route", "financial", Infy, "FY1")}

\* Calls that need no second one to be interesting.
MCSingles ==
    {C("route", "market", q, v) : q \in {Infy, Tcs, Q("invalid", Absent, Absent)},
                                  v \in {Absent, "garbled", "tcsNse"}}
      \cup {C("tool", k, q, Absent) : k \in {"market", "news", "valuation", "company_resolution"},
                                      q \in {TcsNse, Tcs}}
      \cup {C("task", k, TcsNse, Absent) : k \in {"industry", "company_resolution", "news"}}
      \cup {C("route", "news", q, v) : q \in {Infy, TcsNse}, v \in {Absent, "filing"}}
      \cup {C("tool", "regulatory", Infy, Absent), C("task", "market", Infosys, Absent)}
      \cup {[C("tool", "market", Infy, Absent) EXCEPT !.arguments = "bad"],
            [C("tool", "market", Infy, Absent) EXCEPT !.output = "malformed"],
            [C("tool", "market", Infy, Absent) EXCEPT !.output = "final_answer"]}

AllCalls == MCCalls \cup MCSingles

D(kind, company, variant, availability) ==
    [kind |-> kind, company |-> company, variant |-> variant, origin |-> "fixture",
     availability |-> availability, asOf |-> 0, source |-> 0]

MCFixtures ==
    <<D("market", "infosys", "infyNse", "available"), D("market", "tata", "tcsNse", "partial"),
      D("financial", "infosys", "FY2", "available"), D("financial", "infosys", "FY1", "degraded"),
      D("news", "infosys", "filing", "available"), D("news", "tata", "results", "partial"),
      D("industry", "tata", Absent, "degraded"), D("regulatory", "infosys", Absent, "available")>>

-----------------------------------------------------------------------------

\* Filings: a10 for year 1, b10 for year 2 with the comparative figures of
\* year 1, and a10A, an amendment of a10 that comes after b10.
Row(end, fy, filed, accn) ==
    [fp |-> "FY", start |-> end - 9, end |-> end, fy |-> fy, filed |-> filed, accn |-> accn,
     val |-> "number"]

A10 == Row(19, 1, 21, "a10")
B10 == Row(29, 2, 31, "b10")
Compared == Row(19, 2, 31, "b10")
A10A == Row(19, 1, 33, "a10A")

Odd == {[B10 EXCEPT !.fp = "Q4"], [B10 EXCEPT !.val = "none"], [B10 EXCEPT !.val = "text"],
        [B10 EXCEPT !.end = Garbled], [B10 EXCEPT !.filed = Garbled], [B10 EXCEPT !.filed = 0],
        [B10 EXCEPT !.fy = NoYear], [B10 EXCEPT !.fy = BadYear], [B10 EXCEPT !.start = 0],
        [B10 EXCEPT !.start = 30], [B10 EXCEPT !.start = Garbled], [B10 EXCEPT !.accn = "none"],
        [B10 EXCEPT !.start = 21], [B10 EXCEPT !.fy = MaxYear + 1]}

Histories == {<<>>, <<A10>>, <<A10, B10>>, <<A10, Compared, B10>>, <<A10, B10, A10A>>}
               \cup {<<A10, row>> : row \in Odd}

BalanceOnly == [t \in Tags |-> IF t = "Assets" THEN <<B10>> ELSE <<>>]

MCPayloads ==
    {[t \in Tags |-> CASE t = "Revenues" -> r [] t = "NetIncomeLoss" -> n [] t = "Assets" -> a
                       [] OTHER -> <<B10, A10A>>] :
        r \in Histories, n \in Histories, a \in {<<>>, <<A10, B10>>, <<A10, [B10 EXCEPT !.start = 0]>>}}
      \cup {BalanceOnly}

-----------------------------------------------------------------------------

MCListRequests ==
    {[queries |-> qs, policy |-> "legal"] :
        qs \in {<<>>, <<Infy, TcsNse>>, <<TcsNse>>, <<Infy, Infosys>>, <<Tcs>>, <<Infy, Nobody>>,
               <<[Infy EXCEPT !.text = "spaced"]>>}}
      \cup {[queries |-> <<Infy>>, policy |-> "illegal"]}

\* Threads only carry calls, and each of the two parts with threads has the
\* same ones.
Symmetry == Permutations(Threads)

CompanyIdle == question = Nobody
FactsIdle == payload = BalanceOnly /\ asked = 0

\* Part "single" makes one call of any kind, part "data" three of a few kinds.
Init ==
    /\ part \in {"company", "data", "single", "facts", "watchlist"}
    /\ CompanyInit /\ (part # "company" => CompanyIdle)
    /\ FactsInit /\ (part # "facts" => FactsIdle)
    /\ DataInit /\ WatchlistInit

Next ==
    \/ part = "company" /\ CompanyNext /\ UNCHANGED <<part, dataVars, factsVars, watchlistVars>>
    \/ /\ part \in {"data", "single"} /\ DataNext
       /\ part = "data" => \A t \in Threads : threads'[t].call \in MCCalls \cup {NoCall}
       /\ part = "single" => calls' <= 1
       /\ UNCHANGED <<part, companyVars, factsVars, watchlistVars>>
    \/ part = "facts" /\ FactsNext /\ UNCHANGED <<part, companyVars, dataVars, watchlistVars>>
    \/ part = "watchlist" /\ WatchlistNext /\ UNCHANGED <<part, companyVars, dataVars, factsVars>>

Spec == Init /\ [][Next]_allVars

=============================================================================
