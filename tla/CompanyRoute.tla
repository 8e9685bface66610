------------------------------ MODULE CompanyRoute ------------------------------
(***************************************************************************)
(* GET /companies/resolve: one query after another against the catalog.    *)
(***************************************************************************)
EXTENDS CompanyResolution

CONSTANT Questions   \* queries; country, exchange or ticker may be "garbled"

VARIABLES question, finding

companyVars == <<question, finding>>

Unasked == [status |-> "UNASKED", company |-> NoCompany, listings |-> <<>>]

CompanyInit == question \in Questions /\ finding = Unasked

\* CountryCode, ExchangeCode and TickerSymbol refuse what is no code.
WellFormed(q) == "garbled" \notin {q.country, q.exchange, q.ticker}

AskCompany ==
    /\ finding = Unasked
    /\ finding' = IF WellFormed(question) THEN Resolve(question) ELSE Unresolved("INVALID")
    /\ UNCHANGED question

CompanyNext == AskCompany

CompanySpec == CompanyInit /\ [][CompanyNext]_companyVars

-----------------------------------------------------------------------------
(* Properties *)

Bears(c, q) ==
    IF q.ticker # Absent THEN MatchingListings(c, q, q.ticker) # <<>>
    ELSE \/ q.token # Absent /\ MatchingListings(c, q, q.token) # <<>>
         \/ q.key \in c.aliases \cup c.names

Fits(c, q) ==
    /\ InCountry(c, q)
    /\ q.exchange = Absent \/ \E i \in DOMAIN c.listings : c.listings[i].exchange = q.exchange

\* A query that resolves names one company for certain: the company satisfies
\* every country, exchange and ticker the caller was explicit about, one of its
\* own names or tickers is the text, and no other company that satisfies them
\* bears the text as a ticker too, or as an alias when nothing bears it as one.
\* What is merely similar never resolves.
ResolvedIsEntitled ==
    finding.status = "RESOLVED" =>
        LET c == Company(finding.company)
            rivals == {d \in Catalog \ {c} : Fits(d, question)}
            ticker == TickerOf(question)
            byTicker(d) == ticker # Absent /\ MatchingListings(d, question, ticker) # <<>>
        IN /\ Fits(c, question) /\ Bears(c, question)
           /\ \A d \in rivals : ~byTicker(d)
           /\ \A d \in rivals : question.key \in d.aliases => byTicker(c)
           /\ \A i \in DOMAIN finding.listings :
                 /\ finding.listings[i] \in {c.listings[j] : j \in DOMAIN c.listings}
                 /\ OnExchange(finding.listings[i], question)

=============================================================================
