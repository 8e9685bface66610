--------------------------- MODULE CompanyResolution ---------------------------
(***************************************************************************)
(* ResolveCompany over InMemoryCompanyCatalog.  Pure: the catalog is built *)
(* once and never changes.                                                 *)
(*                                                                         *)
(* A company is [id, country, listings, aliases, names, similar]: aliases  *)
(* and names are the match keys it goes by, similar the keys whose best    *)
(* ratio to those is in [0.88, 1).  A listing is [id, exchange, ticker,    *)
(* primary].  A query is [text, token, key, ticker, exchange, country]:    *)
(* its raw text is "empty", "invalid", "given", or "spaced" if it has more *)
(* blanks than it needs; token is the ticker that text looks like and key  *)
(* what company_match_key makes of it.  Absent is what is not given.       *)
(***************************************************************************)
EXTENDS Ordering, Sequences, FiniteSetsExt

CONSTANT Catalog   \* a set of companies

ListingRecords == [id : STRING, exchange : STRING, ticker : STRING, primary : BOOLEAN]
CompanyRecords ==
    [id : STRING, country : STRING, listings : Seq(ListingRecords),
     aliases : SUBSET STRING, names : SUBSET STRING, similar : SUBSET STRING]

QueryRecords ==
    [text : {"empty", "invalid", "given", "spaced"}, token : STRING, key : STRING,
     ticker : STRING, exchange : STRING, country : STRING]

\* _validated_snapshot: ids are unique, and so is a ticker on an exchange.
ASSUME CatalogAssumption ==
    /\ IsFiniteSet(Catalog) /\ Catalog \subseteq CompanyRecords
    /\ \A c, d \in Catalog : c.id = d.id => c = d
    /\ \A c, d \in Catalog : \A i \in DOMAIN c.listings, j \in DOMAIN d.listings :
          LET l == c.listings[i]
              m == d.listings[j]
          IN (l.id = m.id \/ <<l.exchange, l.ticker>> = <<m.exchange, m.ticker>>) =>
                c = d /\ i = j

Absent == "absent"

OnExchange(l, q) == q.exchange = Absent \/ l.exchange = q.exchange

\* _matching_listings, in the order the company lists them.
MatchingListings(c, q, ticker) ==
    AtPlaces(c.listings,
        {i \in DOMAIN c.listings : /\ ticker = Absent \/ c.listings[i].ticker = ticker
                                  /\ OnExchange(c.listings[i], q)})

InCountry(c, q) == q.country = Absent \/ c.country = q.country

\* find_by_ticker, find_by_alias, find_by_name, search_name_candidates
ByTicker(q, ticker) ==
    {c \in Catalog : InCountry(c, q) /\ MatchingListings(c, q, ticker) # <<>>}
ByAlias(q) == {c \in Catalog : InCountry(c, q) /\ q.key \in c.aliases}
ByName(q) == {c \in Catalog : InCountry(c, q) /\ q.key \in c.names}

Candidates(q) ==
    LET near == {c \in Catalog : InCountry(c, q) /\ q.key \in c.similar}
        best == CHOOSE S \in SUBSET near : Cardinality(S) = Min({Cardinality(near), 5})
    IN {c \in best : MatchingListings(c, q, Absent) # <<>> \/ q.exchange = Absent}

NoCompany == "none"

Unresolved(status) == [status |-> status, company |-> NoCompany, listings |-> <<>>]

Resolved(c, q, ticker) ==
    [status |-> "RESOLVED", company |-> c.id, listings |-> MatchingListings(c, q, ticker)]

\* _finalize_exact: the explicit exchange and ticker hold of some listing, and
\* one company is left.
Finalized(hits, q, ticker) ==
    LET constrained ==
          {c \in hits : /\ q.exchange # Absent => MatchingListings(c, q, Absent) # <<>>
                        /\ ticker # Absent => MatchingListings(c, q, ticker) # <<>>}
    IN CASE constrained = {} -> Unresolved("NOT_FOUND")
         [] Cardinality(constrained) = 1 ->
               Resolved(CHOOSE c \in constrained : TRUE, q, ticker)
         [] OTHER -> Unresolved("AMBIGUOUS")

\* The explicit ticker, or the one a raw text without blanks looks like.
TickerOf(q) == IF q.ticker # Absent THEN q.ticker ELSE q.token

\* Faulty variant: a ticker that is nobody's is dropped.
AlwaysFallsThrough(q) == TRUE

\* An explicit ticker that misses is not replaced by a name match.
FallsThrough(q) == q.ticker = Absent

\* Steps 5 to 7: alias, name, then candidates that never resolve.
ByText(q) ==
    LET alias == Finalized(ByAlias(q), q, Absent)
        name == Finalized(ByName(q), q, Absent)
    IN CASE q.key = Absent -> Unresolved("NOT_FOUND")
         [] q.key # Absent /\ alias.status # "NOT_FOUND" -> alias
         [] q.key # Absent /\ alias.status = "NOT_FOUND" /\ name.status # "NOT_FOUND" -> name
         [] OTHER -> Unresolved(IF Candidates(q) = {} THEN "NOT_FOUND" ELSE "AMBIGUOUS")

\* A text is "invalid" when it is too long or holds control characters.
Readable(q) ==
    /\ q.text # "invalid"
    /\ q.text = "empty" => q.ticker # Absent

\* ResolveCompany.execute
Resolve(q) ==
    IF ~Readable(q) THEN Unresolved("INVALID")
    ELSE IF TickerOf(q) = Absent THEN ByText(q)
    ELSE LET hit == Finalized(ByTicker(q, TickerOf(q)), q, TickerOf(q)) IN
         IF hit.status # "NOT_FOUND" \/ ~FallsThrough(q) THEN hit ELSE ByText(q)

Company(id) == CHOOSE c \in Catalog : c.id = id

=============================================================================
