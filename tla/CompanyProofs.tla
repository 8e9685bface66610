----------------------------- MODULE CompanyProofs -----------------------------
(***************************************************************************)
(* Proofs about company resolution and its users CompanyRoute and          *)
(* Watchlist, and about CompanyFacts, for any catalog, query and payload.  *)
(***************************************************************************)
EXTENDS CompanyRoute, CompanyFacts, Watchlist, Recursion

-----------------------------------------------------------------------------
(* Resolution *)

\* A company has a matching listing exactly if one of its listings matches, and
\* what is listed are its own listings.
LEMMA ListingFacts ==
    ASSUME NEW c \in Catalog, NEW q, NEW ticker
    PROVE  LET found == MatchingListings(c, q, ticker)
               Matches(i) == (ticker = Absent \/ c.listings[i].ticker = ticker)
                               /\ OnExchange(c.listings[i], q)
           IN  /\ found # <<>> <=> \E i \in DOMAIN c.listings : Matches(i)
               /\ \E n \in Nat : DOMAIN found = 1..n
               /\ \A k \in DOMAIN found : \E i \in DOMAIN c.listings :
                     found[k] = c.listings[i] /\ Matches(i)
  <1> DEFINE found == MatchingListings(c, q, ticker)
             Matches(i) == (ticker = Absent \/ c.listings[i].ticker = ticker)
                             /\ OnExchange(c.listings[i], q)
             P == {i \in DOMAIN c.listings : Matches(i)}
  <1>1. c.listings \in Seq(ListingRecords)
    BY CatalogAssumption DEF CompanyRecords
  <1>2. P \in SUBSET (1..Len(c.listings)) /\ Len(c.listings) \in Nat
    BY <1>1
  <1>3. found = AtPlaces(c.listings, P)
    BY DEF MatchingListings
  <1>4. \A i \in P : i \in DOMAIN c.listings /\ Matches(i)
    OBVIOUS
  <1>5. P # {} <=> \E i \in DOMAIN c.listings : Matches(i)
    OBVIOUS
  <1> HIDE DEF P, Matches, found
  <1>6. P \in SUBSET Int /\ IsFiniteSet(P)
    <2>1. IsFiniteSet(1..Len(c.listings))
      BY <1>2, FS_Interval
    <2>2. IsFiniteSet(P)
      BY <1>2, <2>1, FS_Subset
    <2> QED
      BY <1>2, <2>2
  <1>7. /\ Cardinality(P) \in Nat /\ DOMAIN found = 1..Cardinality(P)
        /\ \A k \in 1..Cardinality(P) : \E i \in P : found[k] = c.listings[i]
        /\ found = <<>> <=> P = {}
    <2>1. /\ Cardinality(P) \in Nat /\ DOMAIN AtPlaces(c.listings, P) = 1..Cardinality(P)
          /\ \A k \in 1..Cardinality(P) : \E i \in P : AtPlaces(c.listings, P)[k] = c.listings[i]
          /\ AtPlaces(c.listings, P) = <<>> <=> P = {}
      BY <1>6, AtPlacesFacts
    <2> QED
      BY <1>3, <2>1
  <1>8. found # <<>> <=> \E i \in DOMAIN c.listings : Matches(i)
    BY <1>5, <1>7
  <1>9. \E n \in Nat : DOMAIN found = 1..n
    BY <1>7
  <1>10. \A k \in DOMAIN found : \E i \in DOMAIN c.listings :
            found[k] = c.listings[i] /\ Matches(i)
    BY <1>4, <1>7
  <1> QED
    BY <1>8, <1>9, <1>10 DEF Matches, found

\* The companies that satisfy what the caller was explicit about.
Constrained(hits, q, ticker) ==
    {c \in hits : /\ q.exchange # Absent => MatchingListings(c, q, Absent) # <<>>
                  /\ ticker # Absent => MatchingListings(c, q, ticker) # <<>>}

\* One such company resolves, none is not found, several are ambiguous.
LEMMA FinalizedFacts ==
    ASSUME NEW hits \in SUBSET Catalog, NEW q, NEW ticker
    PROVE  LET v == Finalized(hits, q, ticker)
           IN  /\ v.status \in {"RESOLVED", "NOT_FOUND", "AMBIGUOUS"}
               /\ v.status = "NOT_FOUND" => Constrained(hits, q, ticker) = {}
               /\ v.status = "RESOLVED" => \E c \in hits :
                     Constrained(hits, q, ticker) = {c} /\ v = Resolved(c, q, ticker)
  <1> DEFINE C == Constrained(hits, q, ticker)
  <1>1. Finalized(hits, q, ticker) =
          CASE C = {} -> Unresolved("NOT_FOUND")
            [] Cardinality(C) = 1 -> Resolved(CHOOSE c \in C : TRUE, q, ticker)
            [] OTHER -> Unresolved("AMBIGUOUS")
    BY DEF Finalized, Constrained
  <1>2. C \in SUBSET Catalog /\ C \in SUBSET hits /\ IsFiniteSet(Catalog)
    BY CatalogAssumption DEF Constrained
  <1> HIDE DEF C
  <1>3. IsFiniteSet(C)
    BY <1>2, FS_Subset
  <1>4. /\ Unresolved("NOT_FOUND").status = "NOT_FOUND"
        /\ Unresolved("AMBIGUOUS").status = "AMBIGUOUS"
        /\ \A c : Resolved(c, q, ticker).status = "RESOLVED"
    BY DEF Unresolved, Resolved
  <1>5. CASE C = {}
    BY <1>1, <1>3, <1>4, <1>5, FS_EmptySet DEF C
  <1>6. CASE Cardinality(C) = 1
    <2>1. PICK c : C = {c}
      BY <1>3, <1>6, FS_Singleton
    <2>2. (CHOOSE d \in C : TRUE) = c /\ c \in hits /\ C # {}
      BY <1>2, <2>1
    <2>3. Finalized(hits, q, ticker) = Resolved(c, q, ticker)
      BY <1>1, <1>6, <2>2
    <2> QED
      BY <1>4, <2>1, <2>2, <2>3 DEF C
  <1>7. CASE C # {} /\ Cardinality(C) # 1
    BY <1>1, <1>4, <1>7
  <1> QED
    BY <1>5, <1>6, <1>7

\* What the text alone leads to.
LEMMA ByTextFacts ==
    ASSUME NEW q
    PROVE  /\ ByText(q).status \in {"RESOLVED", "NOT_FOUND", "AMBIGUOUS"}
           /\ ByText(q).status = "RESOLVED" =>
                \/ ByText(q) = Finalized(ByAlias(q), q, Absent)
                \/ /\ Finalized(ByAlias(q), q, Absent).status = "NOT_FOUND"
                   /\ ByText(q) = Finalized(ByName(q), q, Absent)
  <1> DEFINE alias == Finalized(ByAlias(q), q, Absent)
             name == Finalized(ByName(q), q, Absent)
             rest == Unresolved(IF Candidates(q) = {} THEN "NOT_FOUND" ELSE "AMBIGUOUS")
  <1>1. ByText(q) =
          CASE q.key = Absent -> Unresolved("NOT_FOUND")
            [] q.key # Absent /\ alias.status # "NOT_FOUND" -> alias
            [] q.key # Absent /\ alias.status = "NOT_FOUND" /\ name.status # "NOT_FOUND" -> name
            [] OTHER -> rest
    BY DEF ByText
  <1>2. /\ Unresolved("NOT_FOUND").status = "NOT_FOUND"
        /\ rest.status \in {"NOT_FOUND", "AMBIGUOUS"}
    BY DEF Unresolved
  <1>3. alias.status \in {"RESOLVED", "NOT_FOUND", "AMBIGUOUS"}
        /\ name.status \in {"RESOLVED", "NOT_FOUND", "AMBIGUOUS"}
    <2>1. ByAlias(q) \in SUBSET Catalog /\ ByName(q) \in SUBSET Catalog
      BY DEF ByAlias, ByName
    <2> QED
      BY <2>1, FinalizedFacts
  <1> HIDE DEF alias, name, rest
  <1>4. /\ ByText(q).status \in {"RESOLVED", "NOT_FOUND", "AMBIGUOUS"}
        /\ ByText(q).status = "RESOLVED" =>
             ByText(q) = alias \/ (alias.status = "NOT_FOUND" /\ ByText(q) = name)
    BY <1>1, <1>2, <1>3
  <1> QED
    BY <1>4 DEF alias, name

\* How a query comes to be resolved: by its ticker; or else, no company having
\* that ticker, by an alias; or else, none having that alias, by a name.
LEMMA ResolveFacts ==
    ASSUME NEW q
    PROVE  LET byTicker == Finalized(ByTicker(q, TickerOf(q)), q, TickerOf(q))
               byAlias == Finalized(ByAlias(q), q, Absent)
               byName == Finalized(ByName(q), q, Absent)
           IN  /\ Resolve(q).status \in {"RESOLVED", "NOT_FOUND", "AMBIGUOUS", "INVALID"}
               /\ Resolve(q).status = "RESOLVED" =>
                    \/ TickerOf(q) # Absent /\ Resolve(q) = byTicker
                    \/ /\ TickerOf(q) # Absent =>
                            byTicker.status = "NOT_FOUND" /\ q.ticker = Absent
                       /\ \/ Resolve(q) = byAlias
                          \/ byAlias.status = "NOT_FOUND" /\ Resolve(q) = byName
  <1> DEFINE byTicker == Finalized(ByTicker(q, TickerOf(q)), q, TickerOf(q))
  <1>1. Unresolved("INVALID").status = "INVALID"
    BY DEF Unresolved
  <1>2. byTicker.status \in {"RESOLVED", "NOT_FOUND", "AMBIGUOUS"}
    <2>1. ByTicker(q, TickerOf(q)) \in SUBSET Catalog
      BY DEF ByTicker
    <2> QED
      BY <2>1, FinalizedFacts
  <1>3. Resolve(q) =
          IF ~Readable(q) THEN Unresolved("INVALID")
          ELSE IF TickerOf(q) = Absent THEN ByText(q)
          ELSE IF byTicker.status # "NOT_FOUND" \/ q.ticker # Absent THEN byTicker
          ELSE ByText(q)
    BY DEF Resolve, FallsThrough
  <1> HIDE DEF byTicker
  <1>4. CASE Resolve(q) = Unresolved("INVALID")
    BY <1>1, <1>4
  <1>5. CASE TickerOf(q) # Absent /\ Resolve(q) = byTicker
    BY <1>2, <1>5 DEF byTicker
  <1>6. CASE /\ Resolve(q) = ByText(q)
             /\ TickerOf(q) # Absent => byTicker.status = "NOT_FOUND" /\ q.ticker = Absent
    BY <1>6, ByTextFacts DEF byTicker
  <1> QED
    BY <1>3, <1>4, <1>5, <1>6

\* Two companies of the catalog have different ids.
LEMMA CompanyById == ASSUME NEW c \in Catalog PROVE Company(c.id) = c
  BY CatalogAssumption DEF Company

\* What ResolvedIsEntitled says of a query and an answer.
Entitled(q, v) ==
    LET c == Company(v.company)
        rivals == {d \in Catalog \ {c} : Fits(d, q)}
        ticker == TickerOf(q)
        byTicker(d) == ticker # Absent /\ MatchingListings(d, q, ticker) # <<>>
    IN /\ Fits(c, q) /\ Bears(c, q)
       /\ \A d \in rivals : ~byTicker(d)
       /\ \A d \in rivals : q.key \in d.aliases => byTicker(c)
       /\ \A i \in DOMAIN v.listings :
             /\ v.listings[i] \in {c.listings[j] : j \in DOMAIN c.listings}
             /\ OnExchange(v.listings[i], q)

\* A company that fits has a listing on the exchange asked for.
LEMMA FitsFacts ==
    ASSUME NEW d \in Catalog, NEW q
    PROVE  Fits(d, q) <=> /\ InCountry(d, q)
                          /\ q.exchange # Absent => MatchingListings(d, q, Absent) # <<>>
  <1>1. MatchingListings(d, q, Absent) # <<>> <=>
           \E i \in DOMAIN d.listings : OnExchange(d.listings[i], q)
    BY ListingFacts
  <1> QED
    BY <1>1 DEF Fits, OnExchange

\* The one company left of some hits, and what the others lack.
OnlyLeft(c, hits, q, ticker, v) ==
    /\ Company(v.company) = c /\ c \in Catalog /\ Fits(c, q)
    /\ ticker # Absent => MatchingListings(c, q, ticker) # <<>>
    /\ \A d \in hits \ {c} : Fits(d, q) =>
          ticker # Absent /\ MatchingListings(d, q, ticker) = <<>>
    /\ \A i \in DOMAIN v.listings :
          /\ v.listings[i] \in {c.listings[j] : j \in DOMAIN c.listings}
          /\ OnExchange(v.listings[i], q)

LEMMA OneLeft ==
    ASSUME NEW hits \in SUBSET Catalog, NEW q, NEW ticker,
           \A d \in hits : InCountry(d, q),
           NEW v, v = Finalized(hits, q, ticker), v.status = "RESOLVED"
    PROVE  \E c \in hits : OnlyLeft(c, hits, q, ticker, v)
  <1>1. PICK c \in hits : Constrained(hits, q, ticker) = {c} /\ v = Resolved(c, q, ticker)
    BY FinalizedFacts
  <1>2. c \in Catalog /\ Company(v.company) = c
    BY <1>1, CompanyById DEF Resolved
  <1>3. /\ Fits(c, q)
        /\ ticker # Absent => MatchingListings(c, q, ticker) # <<>>
    BY <1>1, <1>2, FitsFacts DEF Constrained
  <1>4. ASSUME NEW d \in hits \ {c}, Fits(d, q)
        PROVE  ticker # Absent /\ MatchingListings(d, q, ticker) = <<>>
    <2>1. d \notin Constrained(hits, q, ticker)
      BY <1>1
    <2>2. q.exchange # Absent => MatchingListings(d, q, Absent) # <<>>
      BY <1>4, FitsFacts
    <2> QED
      BY <2>1, <2>2 DEF Constrained
  <1>5. ASSUME NEW i \in DOMAIN v.listings
        PROVE  /\ v.listings[i] \in {c.listings[j] : j \in DOMAIN c.listings}
               /\ OnExchange(v.listings[i], q)
    <2>1. v.listings = MatchingListings(c, q, ticker)
      BY <1>1 DEF Resolved
    <2>2. \E j \in DOMAIN c.listings :
             v.listings[i] = c.listings[j] /\ OnExchange(c.listings[j], q)
      BY <1>2, <2>1, ListingFacts
    <2> QED
      BY <2>2
  <1>6. OnlyLeft(c, hits, q, ticker, v)
    BY <1>2, <1>3, <1>4, <1>5 DEF OnlyLeft
  <1> QED
    BY <1>6

\* Of hits that none is left of, none fits.
LEMMA NoneLeft ==
    ASSUME NEW hits \in SUBSET Catalog, NEW q, NEW ticker,
           Finalized(hits, q, ticker).status = "NOT_FOUND",
           NEW d \in hits, Fits(d, q), ticker # Absent => MatchingListings(d, q, ticker) # <<>>
    PROVE  FALSE
  <1>1. q.exchange # Absent => MatchingListings(d, q, Absent) # <<>>
    BY FitsFacts
  <1>2. d \in Constrained(hits, q, ticker)
    BY <1>1 DEF Constrained
  <1> QED
    BY <1>2, FinalizedFacts

LEMMA ResolveEntitles ==
    ASSUME NEW q, Resolve(q).status = "RESOLVED"
    PROVE  Entitled(q, Resolve(q))
  <1> DEFINE v == Resolve(q)
             ticker == TickerOf(q)
  <1>1. /\ ByTicker(q, ticker) \in SUBSET Catalog /\ \A d \in ByTicker(q, ticker) : InCountry(d, q)
        /\ ByAlias(q) \in SUBSET Catalog /\ \A d \in ByAlias(q) : InCountry(d, q)
        /\ ByName(q) \in SUBSET Catalog /\ \A d \in ByName(q) : InCountry(d, q)
    BY DEF ByTicker, ByAlias, ByName
  <1>2. \A d \in Catalog : Fits(d, q) => InCountry(d, q)
    BY DEF Fits
  <1>3. \A d \in Catalog : Fits(d, q) /\ MatchingListings(d, q, ticker) # <<>> =>
           d \in ByTicker(q, ticker)
    BY <1>2 DEF ByTicker
  <1>4. \A d \in Catalog : Fits(d, q) /\ q.key \in d.aliases => d \in ByAlias(q)
    BY <1>2 DEF ByAlias
  <1>5. q.ticker # Absent => ticker = q.ticker
    BY DEF TickerOf
  <1>6. q.ticker = Absent => ticker = q.token
    BY DEF TickerOf
  <1>7. CASE ticker # Absent /\ v = Finalized(ByTicker(q, ticker), q, ticker)
    <2> HIDE DEF v, ticker
    <2>1. v.status = "RESOLVED"
      BY DEF v
    <2>2. PICK c \in ByTicker(q, ticker) : OnlyLeft(c, ByTicker(q, ticker), q, ticker, v)
      BY <1>1, <1>7, <2>1, OneLeft
    <2>3. Bears(c, q)
      BY <1>5, <1>6, <1>7, <2>2 DEF Bears, OnlyLeft
    <2>4. \A d \in Catalog \ {c} : Fits(d, q) => MatchingListings(d, q, ticker) = <<>>
      BY <1>3, <2>2 DEF OnlyLeft
    <2>5. Entitled(q, v)
      BY <1>7, <2>2, <2>3, <2>4 DEF Entitled, OnlyLeft, ticker
    <2> QED
      BY <2>5 DEF v
  <1>8. ASSUME /\ ticker # Absent =>
                    /\ Finalized(ByTicker(q, ticker), q, ticker).status = "NOT_FOUND"
                    /\ q.ticker = Absent,
               NEW hits \in {ByAlias(q), ByName(q)}, v = Finalized(hits, q, Absent),
               hits = ByAlias(q) \/ Finalized(ByAlias(q), q, Absent).status = "NOT_FOUND"
        PROVE  Entitled(q, v)
    <2> HIDE DEF v, ticker
    <2>1. /\ v.status = "RESOLVED" /\ hits \in SUBSET Catalog
          /\ \A d \in hits : InCountry(d, q)
      BY <1>1 DEF v
    <2>2. PICK c \in hits : OnlyLeft(c, hits, q, Absent, v)
      BY <1>8, <2>1, OneLeft
    <2>3. q.ticker = Absent
      BY <1>5, <1>8
    <2>4. Bears(c, q)
      BY <2>3, <1>8 DEF Bears, ByAlias, ByName
    <2>5. ASSUME NEW d \in Catalog, Fits(d, q), ticker # Absent,
                 MatchingListings(d, q, ticker) # <<>>
          PROVE  FALSE
      BY <1>1, <1>3, <1>8, <2>5, NoneLeft
    <2>6. ASSUME NEW d \in Catalog \ {c}, Fits(d, q), q.key \in d.aliases PROVE FALSE
      <3>1. d \in ByAlias(q)
        BY <1>4, <2>6
      <3>2. CASE hits = ByAlias(q)
        BY <2>2, <2>6, <3>1, <3>2 DEF OnlyLeft
      <3>3. CASE Finalized(ByAlias(q), q, Absent).status = "NOT_FOUND"
        BY <1>1, <1>8, <2>6, <3>1, <3>3, NoneLeft
      <3> QED
        BY <1>8, <3>2, <3>3
    <2> QED
      BY <2>2, <2>4, <2>5, <2>6 DEF Entitled, OnlyLeft, ticker
  <1> QED
    BY <1>7, <1>8, ResolveFacts

\* The companies with a listing of the ticker asked for, where it is asked for.
Bearers(q) ==
    {c \in Catalog : /\ InCountry(c, q)
                     /\ \E i \in DOMAIN c.listings :
                           c.listings[i].ticker = q.ticker /\ OnExchange(c.listings[i], q)}

\* An explicit ticker decides, and nothing else does: the query is resolved when
\* one company of the catalog bears the ticker, ambiguous when several do and
\* not found when none does, whatever its text says.  No fallback to a name
\* ever answers it, and no company that could be told for certain is withheld.
\* A ticker on a named exchange is never ambiguous.
THEOREM ExplicitTickerDecides ==
    ASSUME NEW q, Readable(q), q.ticker # Absent
    PROVE  /\ Resolve(q).status = "NOT_FOUND" <=> Bearers(q) = {}
           /\ Resolve(q).status = "AMBIGUOUS" <=> \E c, d \in Bearers(q) : c # d
           /\ \A c \in Catalog : Bearers(q) = {c} =>
                 Resolve(q).status = "RESOLVED" /\ Resolve(q).company = c.id
           /\ Resolve(q).status = "RESOLVED" => \E c \in Catalog : Bearers(q) = {c}
           /\ q.exchange # Absent => Resolve(q).status \in {"RESOLVED", "NOT_FOUND"}
  <1> DEFINE B == Bearers(q)
             hits == ByTicker(q, q.ticker)
             C == Constrained(hits, q, q.ticker)
  <1>1. Resolve(q) = Finalized(hits, q, q.ticker)
    BY DEF Resolve, TickerOf, FallsThrough
  <1>2. ASSUME NEW c \in Catalog
        PROVE  /\ MatchingListings(c, q, q.ticker) # <<>> <=>
                    \E i \in DOMAIN c.listings :
                       c.listings[i].ticker = q.ticker /\ OnExchange(c.listings[i], q)
               /\ MatchingListings(c, q, q.ticker) # <<>> =>
                    MatchingListings(c, q, Absent) # <<>>
    <2>1. MatchingListings(c, q, q.ticker) # <<>> <=>
             \E i \in DOMAIN c.listings :
                (q.ticker = Absent \/ c.listings[i].ticker = q.ticker)
                  /\ OnExchange(c.listings[i], q)
      BY ListingFacts
    <2>2. MatchingListings(c, q, Absent) # <<>> <=>
             \E i \in DOMAIN c.listings : OnExchange(c.listings[i], q)
      BY ListingFacts
    <2> QED
      BY <2>1, <2>2
  <1>3. hits = B
    BY <1>2 DEF ByTicker, Bearers
  <1>4. C = B
    BY <1>2, <1>3 DEF Constrained, ByTicker
  <1>5. B \in SUBSET Catalog /\ IsFiniteSet(B)
    <2>1. B \in SUBSET Catalog
      BY DEF Bearers
    <2> HIDE DEF B
    <2> QED
      BY <2>1, CatalogAssumption, FS_Subset
  <1>6. Finalized(hits, q, q.ticker) =
          CASE C = {} -> Unresolved("NOT_FOUND")
            [] Cardinality(C) = 1 -> Resolved(CHOOSE c \in C : TRUE, q, q.ticker)
            [] OTHER -> Unresolved("AMBIGUOUS")
    BY DEF Finalized, Constrained
  <1>7. /\ Unresolved("NOT_FOUND").status = "NOT_FOUND"
        /\ Unresolved("AMBIGUOUS").status = "AMBIGUOUS"
        /\ \A c : Resolved(c, q, q.ticker).status = "RESOLVED"
        /\ \A c : Resolved(c, q, q.ticker).company = c.id
    BY DEF Unresolved, Resolved
  <1>8. q.exchange # Absent => \A c, d \in B : c = d
    <2> SUFFICES ASSUME q.exchange # Absent, NEW c \in B, NEW d \in B PROVE c = d
      OBVIOUS
    <2>1. PICK i \in DOMAIN c.listings :
             c.listings[i].ticker = q.ticker /\ c.listings[i].exchange = q.exchange
      BY DEF Bearers, OnExchange
    <2>2. PICK j \in DOMAIN d.listings :
             d.listings[j].ticker = q.ticker /\ d.listings[j].exchange = q.exchange
      BY DEF Bearers, OnExchange
    <2>3. <<c.listings[i].exchange, c.listings[i].ticker>>
          = <<d.listings[j].exchange, d.listings[j].ticker>>
      BY <2>1, <2>2
    <2>4. c \in Catalog /\ d \in Catalog
      BY <1>5
    <2> QED
      BY <2>3, <2>4, CatalogAssumption
  <1> HIDE DEF B, hits, C
  <1>9. CASE B = {}
    <2>1. Cardinality(C) = 0
      BY <1>4, <1>9, FS_EmptySet
    <2>2. Resolve(q) = Unresolved("NOT_FOUND")
      BY <1>1, <1>4, <1>6, <1>9, <2>1
    <2> QED
      BY <1>7, <1>9, <2>2 DEF B
  <1>10. ASSUME NEW c, B = {c}
         PROVE  c \in Catalog /\ Resolve(q).status = "RESOLVED" /\ Resolve(q).company = c.id
    <2>1. Cardinality(B) = 1 /\ B # {} /\ (CHOOSE d \in B : TRUE) = c
      BY <1>5, <1>10, FS_Singleton
    <2>2. Resolve(q) = Resolved(c, q, q.ticker)
      BY <1>1, <1>4, <1>6, <2>1
    <2> QED
      BY <1>5, <1>7, <1>10, <2>2
  <1>11. CASE \E c, d \in B : c # d
    <2>1. B # {} /\ ~\E c : B = {c}
      BY <1>11
    <2>2. Cardinality(B) # 1
      BY <1>5, <2>1, FS_Singleton
    <2>3. Resolve(q) = Unresolved("AMBIGUOUS")
      BY <1>1, <1>4, <1>6, <2>1, <2>2
    <2> QED
      BY <1>7, <1>8, <1>11, <2>1, <2>3 DEF B
  <1>12. CASE \E c : B = {c}
    <2>1. PICK c : B = {c}
      BY <1>12
    <2> QED
      BY <1>10, <2>1 DEF B
  <1>13. B = {} \/ (\E c : B = {c}) \/ \E c, d \in B : c # d
    OBVIOUS
  <1> QED
    BY <1>9, <1>11, <1>12, <1>13

\* The route answers with what Resolve does.
CompanyInductive ==
    finding.status = "RESOLVED" => finding = Resolve(question)

\* A query that resolves names one company for certain.
THEOREM ResolvedByRight == CompanySpec => []ResolvedIsEntitled
  <1>1. CompanyInit => CompanyInductive
    BY DEF CompanyInit, CompanyInductive, Unasked
  <1>2. CompanyInductive /\ [CompanyNext]_companyVars => CompanyInductive'
    <2> SUFFICES ASSUME CompanyInductive, [CompanyNext]_companyVars
                 PROVE  CompanyInductive'
      OBVIOUS
    <2>1. CASE AskCompany
      <3>1. Unresolved("INVALID").status # "RESOLVED"
        BY DEF Unresolved
      <3> QED
        BY <2>1, <3>1 DEF AskCompany, CompanyInductive
    <2>2. CASE UNCHANGED companyVars
      BY <2>2 DEF companyVars, CompanyInductive
    <2> QED
      BY <2>1, <2>2 DEF CompanyNext
  <1>3. CompanyInductive => ResolvedIsEntitled
    <2> SUFFICES ASSUME CompanyInductive, finding.status = "RESOLVED"
                 PROVE  Entitled(question, finding)
      BY DEF ResolvedIsEntitled, Entitled
    <2> QED
      BY ResolveEntitles DEF CompanyInductive
  <1> QED
    BY <1>1, <1>2, <1>3, PTL DEF CompanySpec

-----------------------------------------------------------------------------
(* Watchlists *)

\* The blanks a text can do without do not change what it leads to.
LEMMA NormalizedFacts ==
    ASSUME NEW q \in QueryRecords
    PROVE  Normalized(q) \in QueryRecords /\ Resolve(Normalized(q)) = Resolve(q)
  <1>1. PICK n : n = Normalized(q)
    OBVIOUS
  <1>2. /\ n \in QueryRecords /\ n.text = IF q.text = "spaced" THEN "given" ELSE q.text
        /\ n.token = q.token /\ n.key = q.key /\ n.ticker = q.ticker
        /\ n.exchange = q.exchange /\ n.country = q.country
    <2>1. PICK text : text = IF q.text = "spaced" THEN "given" ELSE q.text
      OBVIOUS
    <2>2. text \in {"empty", "invalid", "given", "spaced"}
      BY <2>1 DEF QueryRecords
    <2>3. n = [q EXCEPT !.text = text]
      BY <1>1, <2>1 DEF Normalized
    <2> QED
      BY <2>1, <2>2, <2>3 DEF QueryRecords
  <1>3. /\ \A l : OnExchange(l, n) = OnExchange(l, q)
        /\ \A c : InCountry(c, n) = InCountry(c, q)
    BY <1>2 DEF OnExchange, InCountry
  <1>4. ASSUME NEW c, NEW ticker
        PROVE  MatchingListings(c, n, ticker) = MatchingListings(c, q, ticker)
    <2> DEFINE P(m) == {i \in DOMAIN c.listings :
                          /\ ticker = Absent \/ c.listings[i].ticker = ticker
                          /\ OnExchange(c.listings[i], m)}
    <2>1. P(n) = P(q)
      BY <1>3
    <2>2. /\ MatchingListings(c, n, ticker) = AtPlaces(c.listings, P(n))
          /\ MatchingListings(c, q, ticker) = AtPlaces(c.listings, P(q))
      BY DEF MatchingListings
    <2> HIDE DEF P
    <2> QED
      BY <2>1, <2>2
  <1>5. ASSUME NEW hits, NEW ticker
        PROVE  Finalized(hits, n, ticker) = Finalized(hits, q, ticker)
    <2>1. \A c : Resolved(c, n, ticker) = Resolved(c, q, ticker)
      BY <1>4 DEF Resolved
    <2>2. Constrained(hits, n, ticker) = Constrained(hits, q, ticker)
      BY <1>2, <1>4 DEF Constrained
    <2>3. \A m : Finalized(hits, m, ticker) =
            LET C == Constrained(hits, m, ticker) IN
            CASE C = {} -> Unresolved("NOT_FOUND")
              [] Cardinality(C) = 1 -> Resolved(CHOOSE c \in C : TRUE, m, ticker)
              [] OTHER -> Unresolved("AMBIGUOUS")
      BY DEF Finalized, Constrained
    <2> QED
      BY <2>1, <2>2, <2>3
  <1>6. /\ ByAlias(n) = ByAlias(q) /\ ByName(n) = ByName(q)
        /\ \A ticker : ByTicker(n, ticker) = ByTicker(q, ticker)
    BY <1>2, <1>3, <1>4 DEF ByAlias, ByName, ByTicker
  <1>7. Candidates(n) = Candidates(q)
    <2> DEFINE Near(m) == {c \in Catalog : InCountry(c, m) /\ m.key \in c.similar}
               Best(m) == CHOOSE S \in SUBSET Near(m) :
                             Cardinality(S) = Min({Cardinality(Near(m)), 5})
               Left(m) == {c \in Best(m) : MatchingListings(c, m, Absent) # <<>>
                                              \/ m.exchange = Absent}
    <2>1. Candidates(n) = Left(n) /\ Candidates(q) = Left(q)
      BY DEF Candidates
    <2>2. Near(n) = Near(q)
      BY <1>2, <1>3
    <2> HIDE DEF Near
    <2>3. Best(n) = Best(q)
      BY <2>2
    <2> HIDE DEF Best
    <2>4. Left(n) = Left(q)
      BY <1>2, <1>4, <2>3
    <2> QED
      BY <2>1, <2>4
  <1>8. ByText(n) = ByText(q)
    BY <1>2, <1>5, <1>6, <1>7 DEF ByText
  <1>9. Readable(n) = Readable(q) /\ TickerOf(n) = TickerOf(q) /\ FallsThrough(n) = FallsThrough(q)
    BY <1>2 DEF Readable, TickerOf, FallsThrough
  <1>10. Finalized(ByTicker(n, TickerOf(n)), n, TickerOf(n)) =
            Finalized(ByTicker(q, TickerOf(q)), q, TickerOf(q))
    BY <1>5, <1>6, <1>9
  <1>11. Resolve(n) = Resolve(q)
    BY <1>8, <1>9, <1>10 DEF Resolve
  <1> QED
    BY <1>1, <1>2, <1>11

\* Only a query that resolves leads to a company.
LEMMA CompanyIsResolved ==
    ASSUME NEW q, Resolve(q).company # NoCompany
    PROVE  Resolve(q).status = "RESOLVED"
  <1>1. \A status : Unresolved(status).company = NoCompany
    BY DEF Unresolved
  <1>2. ASSUME NEW hits, NEW ticker, Finalized(hits, q, ticker).company # NoCompany
        PROVE  Finalized(hits, q, ticker).status = "RESOLVED"
    <2>1. \E c : \/ Finalized(hits, q, ticker) = Resolved(c, q, ticker)
                 \/ Finalized(hits, q, ticker) \in {Unresolved("NOT_FOUND"), Unresolved("AMBIGUOUS")}
      <3> DEFINE C == Constrained(hits, q, ticker)
      <3>1. Finalized(hits, q, ticker) =
              CASE C = {} -> Unresolved("NOT_FOUND")
                [] Cardinality(C) = 1 -> Resolved(CHOOSE c \in C : TRUE, q, ticker)
                [] OTHER -> Unresolved("AMBIGUOUS")
        BY DEF Finalized, Constrained
      <3> HIDE DEF C
      <3> QED
        BY <3>1
    <2> QED
      BY <1>1, <1>2, <2>1 DEF Resolved
  <1>3. ASSUME ByText(q).company # NoCompany PROVE ByText(q).status = "RESOLVED"
    <2>1. \/ \E status : ByText(q) = Unresolved(status)
          \/ \E hits : ByText(q) = Finalized(hits, q, Absent)
      BY DEF ByText
    <2> QED
      BY <1>1, <1>2, <1>3, <2>1
  <1>4. \/ \E status : Resolve(q) = Unresolved(status)
        \/ \E hits : Resolve(q) = Finalized(hits, q, TickerOf(q))
        \/ Resolve(q) = ByText(q)
    BY DEF Resolve
  <1> QED
    BY <1>1, <1>2, <1>3, <1>4

\* The lists a request may create, and the companies a query may lead to.
Accepted == {Entries(request.queries) : request \in {r \in ListRequests : Acceptable(r)}}

Companies == {Resolve(q).company : q \in QueryRecords}

WorkflowRecords == [company : Companies, check : Nat]

\* The results a check gives for the entries of a list.
ResultRecords == [status : {"OK", "INVALID", "FAILED"}, company : Companies]

\* Of the workflows ws, those of a check, and the companies they look into.
Of(ws, id) == {j \in DOMAIN ws : ws[j].check = id}

LookedInto(ws, id) == {ws[j].company : j \in Of(ws, id)}

Successful(results) == {results[i].company : i \in Successes(results)}

\* A check's results are of the first entries of its list, and it has one
\* workflow for each success among them.
Tallied(id, list, results, ws) ==
    /\ results \in Seq(ResultRecords) /\ Len(results) <= Len(list)
    /\ \A i \in 1..Len(results) : results[i].company = list[i].company
    /\ LookedInto(ws, id) = Successful(results)
    /\ Cardinality(Of(ws, id)) = Cardinality(Successes(results))

\* Of a check under way, when b checks have begun and ls are the lists.
CheckOK(check, ws, ls, b) ==
    /\ check = [id |-> check.id, list |-> check.list, results |-> check.results]
    /\ check.id \in 1..b /\ check.list \in 1..Len(ls)
    /\ Tallied(check.id, ls[check.list], check.results, ws)

\* What was answered is over and stays as it was.
AnswerOK(e, ws, ls, b) ==
    /\ e.check \in 1..b /\ e.list \in 1..Len(ls)
    /\ Tallied(e.check, ls[e.list], e.results, ws)
    /\ Len(e.results) = Len(ls[e.list])

\* Checks under way have numbers of their own, which none that ended has.
WatchlistInductive ==
    /\ lists \in Seq(Accepted) /\ begun \in Nat
    /\ checks = [t \in Checkers |-> checks[t]]
    /\ workflows \in Seq(WorkflowRecords)
    /\ \A j \in 1..Len(workflows) : workflows[j].check \in 1..begun
    /\ \A t \in Checkers : checks[t] # NoCheck => CheckOK(checks[t], workflows, lists, begun)
    /\ \A t, u \in Checkers : t # u /\ checks[t] # NoCheck => checks[t].id # checks[u].id
    /\ \A e \in answers : AnswerOK(e, workflows, lists, begun)
    /\ \A e \in answers, t \in Checkers : checks[t] # NoCheck => checks[t].id # e.check
    /\ \A a \in announcements : \E e \in answers :
          e.check = a.check /\ e.list = a.list /\ a.count = Len(e.results)

\* Each entry of a list has the company its query leads to.
LEMMA AcceptedFacts ==
    ASSUME NEW list \in Accepted
    PROVE  /\ Len(list) \in Nat /\ DOMAIN list = 1..Len(list)
           /\ \A i \in 1..Len(list) :
                /\ list[i].query \in QueryRecords
                /\ list[i].company = Resolve(list[i].query).company
                /\ list[i].company \in Companies /\ list[i].company # NoCompany
  <1>1. PICK request \in ListRequests : Acceptable(request) /\ list = Entries(request.queries)
    BY DEF Accepted
  <1> DEFINE qs == request.queries
  <1>2. qs \in Seq(QueryRecords)
    BY WatchlistAssumption
  <1>3. /\ Len(qs) \in Nat /\ \A i \in 1..Len(qs) : qs[i] \in QueryRecords
        /\ DOMAIN qs = 1..Len(qs)
    BY <1>2
  <1>4. list = [i \in 1..Len(qs) |-> [company |-> Resolve(qs[i]).company,
                                     query |-> Normalized(qs[i])]]
    BY <1>1, <1>3 DEF Entries
  <1>5. \A i \in 1..Len(qs) : list[i].company # NoCompany
    BY <1>1, <1>4 DEF Acceptable
  <1> HIDE DEF qs
  <1>6. list \in Seq({list[i] : i \in 1..Len(qs)}) /\ Len(list) = Len(qs)
    BY <1>3, <1>4
  <1>7. \A i \in 1..Len(qs) :
          /\ list[i].query = Normalized(qs[i])
          /\ list[i].company = Resolve(qs[i]).company
    BY <1>4
  <1>8. \A i \in 1..Len(qs) :
          /\ Resolve(qs[i]).company \in Companies
          /\ Normalized(qs[i]) \in QueryRecords
          /\ Resolve(Normalized(qs[i])) = Resolve(qs[i])
    BY <1>3, NormalizedFacts DEF Companies
  <1> QED
    BY <1>3, <1>4, <1>5, <1>6, <1>7, <1>8

\* The next entry of a list has a result of its company, whatever its plan.
LEMMA ResultFacts ==
    ASSUME NEW list \in Accepted, NEW i \in 1..Len(list),
           NEW result \in CreationResults(Resolve(CheckQuery(list[i])))
    PROVE  result \in ResultRecords /\ result.company = list[i].company
  <1>1. /\ list[i].company = Resolve(list[i].query).company
        /\ list[i].company \in Companies /\ list[i].company # NoCompany
    BY AcceptedFacts
  <1>2. Resolve(list[i].query).status = "RESOLVED"
    BY <1>1, CompanyIsResolved
  <1>3. result \in [status : {"OK", "INVALID", "FAILED"}, company : {list[i].company}]
    BY <1>1, <1>2 DEF CreationResults, CheckQuery
  <1> QED
    BY <1>1, <1>3 DEF ResultRecords

\* A new result counts if it is a success.
LEMMA ResultAdded ==
    ASSUME NEW results \in Seq(ResultRecords), NEW result \in ResultRecords
    PROVE  LET more == Append(results, result)
               n == Len(results)
           IN  /\ n \in Nat /\ Len(more) = n + 1 /\ more \in Seq(ResultRecords)
               /\ more[n + 1] = result /\ \A i \in 1..n : more[i] = results[i]
               /\ Cardinality(Successes(results)) \in Nat
               /\ result.status # "OK" =>
                    /\ Successful(more) = Successful(results)
                    /\ Cardinality(Successes(more)) = Cardinality(Successes(results))
               /\ result.status = "OK" =>
                    /\ Successful(more) = Successful(results) \cup {result.company}
                    /\ Cardinality(Successes(more)) = Cardinality(Successes(results)) + 1
  <1> DEFINE n == Len(results)
             more == Append(results, result)
  <1>1. /\ n \in Nat /\ DOMAIN results = 1..n /\ DOMAIN more = 1..(n + 1)
        /\ \A i \in 1..n : more[i] = results[i]
        /\ more[n + 1] = result /\ Len(more) = n + 1 /\ more \in Seq(ResultRecords)
    OBVIOUS
  <1> HIDE DEF n, more
  <1>2. Successes(results) \in SUBSET (1..n) /\ \A i \in Successes(results) : more[i] = results[i]
    BY <1>1 DEF Successes
  <1>3. IsFiniteSet(Successes(results))
    <2>1. IsFiniteSet(1..n)
      BY <1>1, FS_Interval
    <2> QED
      BY <1>2, <2>1, FS_Subset
  <1>4. Cardinality(Successes(results)) \in Nat
    BY <1>3, FS_CardinalityType
  <1>5. CASE result.status # "OK"
    <2>1. Successes(more) = Successes(results)
      BY <1>1, <1>5 DEF Successes
    <2>2. Successful(more) = Successful(results)
      BY <1>2, <2>1 DEF Successful
    <2> QED
      BY <1>1, <1>4, <1>5, <2>1, <2>2 DEF n, more
  <1>6. CASE result.status = "OK"
    <2>1. Successes(more) = Successes(results) \cup {n + 1} /\ n + 1 \notin Successes(results)
      BY <1>1, <1>6 DEF Successes
    <2>2. Cardinality(Successes(results) \cup {n + 1}) = Cardinality(Successes(results)) + 1
      BY <1>3, <2>1, FS_AddElement
    <2>3. Successful(more) = Successful(results) \cup {result.company}
      <3>1. Successful(more) \subseteq Successful(results) \cup {result.company}
        BY <1>1, <1>2, <2>1 DEF Successful
      <3>2. Successful(results) \subseteq Successful(more)
        BY <1>2, <2>1 DEF Successful
      <3>3. result.company \in Successful(more)
        BY <1>1, <2>1 DEF Successful
      <3> QED
        BY <3>1, <3>2, <3>3
    <2> QED
      BY <1>1, <1>4, <1>6, <2>1, <2>2, <2>3 DEF n, more
  <1> QED
    BY <1>5, <1>6

\* A new workflow is of its check and of no other.
LEMMA WorkflowAdded ==
    ASSUME NEW ws \in Seq(WorkflowRecords), NEW w \in WorkflowRecords, NEW id
    PROVE  /\ w.check # id =>
                /\ Of(Append(ws, w), id) = Of(ws, id)
                /\ LookedInto(Append(ws, w), id) = LookedInto(ws, id)
           /\ w.check = id =>
                /\ Cardinality(Of(ws, id)) \in Nat
                /\ Cardinality(Of(Append(ws, w), id)) = Cardinality(Of(ws, id)) + 1
                /\ LookedInto(Append(ws, w), id) = LookedInto(ws, id) \cup {w.company}
  <1> DEFINE n == Len(ws)
             more == Append(ws, w)
  <1>1. /\ n \in Nat /\ DOMAIN ws = 1..n /\ DOMAIN more = 1..(n + 1)
        /\ \A j \in 1..n : more[j] = ws[j]
        /\ more[n + 1] = w
    OBVIOUS
  <1>2. Of(ws, id) \in SUBSET (1..n)
    BY <1>1 DEF Of
  <1> HIDE DEF n, more
  <1>3. CASE w.check # id
    <2>1. Of(more, id) = Of(ws, id)
      BY <1>1, <1>3 DEF Of
    <2>2. \A j \in Of(ws, id) : more[j] = ws[j]
      BY <1>1, <1>2
    <2>3. LookedInto(more, id) = LookedInto(ws, id)
      BY <2>1, <2>2 DEF LookedInto
    <2> QED
      BY <1>3, <2>1, <2>3 DEF more
  <1>4. CASE w.check = id
    <2>1. Of(more, id) = Of(ws, id) \cup {n + 1}
      BY <1>1, <1>4 DEF Of
    <2>2. n + 1 \notin Of(ws, id) /\ \A j \in Of(ws, id) : more[j] = ws[j]
      BY <1>1, <1>2
    <2>3. IsFiniteSet(Of(ws, id))
      <3>1. IsFiniteSet(1..n)
        BY <1>1, FS_Interval
      <3> QED
        BY <1>2, <3>1, FS_Subset
    <2>4. /\ Cardinality(Of(ws, id)) \in Nat
          /\ Cardinality(Of(ws, id) \cup {n + 1}) = Cardinality(Of(ws, id)) + 1
      BY <2>2, <2>3, FS_AddElement, FS_CardinalityType
    <2>5. LookedInto(more, id) = LookedInto(ws, id) \cup {w.company}
      <3>1. LookedInto(more, id) \subseteq LookedInto(ws, id) \cup {w.company}
        BY <1>1, <2>1, <2>2 DEF LookedInto
      <3>2. LookedInto(ws, id) \subseteq LookedInto(more, id)
        BY <2>1, <2>2 DEF LookedInto
      <3>3. w.company \in LookedInto(more, id)
        BY <1>1, <2>1 DEF LookedInto
      <3> QED
        BY <3>1, <3>2, <3>3
    <2> QED
      BY <1>4, <2>1, <2>4, <2>5 DEF more
  <1> QED
    BY <1>3, <1>4

LEMMA InitWatchlist == WatchlistInit => WatchlistInductive
  <1> SUFFICES ASSUME WatchlistInit PROVE WatchlistInductive
    OBVIOUS
  <1>1. /\ lists = <<>> /\ begun = 0 /\ checks = [t \in Checkers |-> NoCheck]
        /\ workflows = <<>> /\ answers = {} /\ announcements = {}
    BY DEF WatchlistInit
  <1>2. \A t \in Checkers : checks[t] = NoCheck
    BY <1>1
  <1> QED
    BY <1>1, <1>2 DEF WatchlistInductive

\* More lists and more checks begun leave what is under way or answered.
LEMMA LaterFine ==
    ASSUME NEW ls \in Seq(Accepted), NEW more \in Seq(Accepted), Len(ls) <= Len(more),
           \A n \in 1..Len(ls) : more[n] = ls[n],
           NEW b \in Nat, NEW c \in Nat, b <= c, NEW ws
    PROVE  /\ \A check : CheckOK(check, ws, ls, b) => CheckOK(check, ws, more, c)
           /\ \A e : AnswerOK(e, ws, ls, b) => AnswerOK(e, ws, more, c)
  <1>1. /\ \A i \in 1..Len(ls) : i \in 1..Len(more)
        /\ \A i \in 1..b : i \in 1..c
    OBVIOUS
  <1>2. ASSUME NEW check, CheckOK(check, ws, ls, b) PROVE CheckOK(check, ws, more, c)
    <2>1. more[check.list] = ls[check.list]
      BY <1>2 DEF CheckOK
    <2> QED
      BY <1>1, <1>2, <2>1 DEF CheckOK
  <1>3. ASSUME NEW e, AnswerOK(e, ws, ls, b) PROVE AnswerOK(e, ws, more, c)
    <2>1. more[e.list] = ls[e.list]
      BY <1>3 DEF AnswerOK
    <2> QED
      BY <1>1, <1>3, <2>1 DEF AnswerOK
  <1> QED
    BY <1>2, <1>3

\* A list is added at the end and changes nothing.
LEMMA CreateListKeeps ==
    ASSUME WatchlistInductive, NEW request \in ListRequests, CreateList(request)
    PROVE  WatchlistInductive'
  <1>1. UNCHANGED <<begun, checks, workflows, answers, announcements>>
    BY DEF CreateList
  <1>2. lists' = lists \/ (Acceptable(request) /\ lists' = Append(lists, Entries(request.queries)))
    BY DEF CreateList
  <1>3. /\ lists \in Seq(Accepted) /\ lists' \in Seq(Accepted) /\ Len(lists) <= Len(lists')
        /\ \A n \in 1..Len(lists) : lists'[n] = lists[n]
    <2>1. lists \in Seq(Accepted)
      BY DEF WatchlistInductive
    <2>2. CASE lists' = lists
      BY <2>1, <2>2
    <2>3. CASE Acceptable(request) /\ lists' = Append(lists, Entries(request.queries))
      <3>1. Entries(request.queries) \in Accepted
        BY <2>3 DEF Accepted
      <3> QED
        BY <2>1, <2>3, <3>1
    <2> QED
      BY <1>2, <2>2, <2>3
  <1>4. begun \in Nat /\ begun <= begun
    BY DEF WatchlistInductive
  <1>5. /\ \A check : CheckOK(check, workflows, lists, begun) =>
                         CheckOK(check, workflows, lists', begun)
        /\ \A e : AnswerOK(e, workflows, lists, begun) =>
                     AnswerOK(e, workflows, lists', begun)
    BY <1>3, <1>4, LaterFine
  <1> QED
    BY <1>1, <1>3, <1>5 DEF WatchlistInductive

\* A check that begins has a number of its own and no workflow yet.
LEMMA BeginCheckKeeps ==
    ASSUME WatchlistInductive, NEW t \in Checkers, NEW n \in 1..MaxLists, BeginCheck(t, n)
    PROVE  WatchlistInductive'
  <1>1. /\ UNCHANGED <<lists, workflows, answers, announcements>> /\ checks[t] = NoCheck
        /\ begun \in Nat /\ lists \in Seq(Accepted) /\ Len(lists) \in Nat
        /\ workflows \in Seq(WorkflowRecords)
    BY DEF BeginCheck, WatchlistInductive
  <1>2. CASE n \notin DOMAIN lists
    <2>1. UNCHANGED <<begun, checks>>
      BY <1>2 DEF BeginCheck
    <2> QED
      BY <1>1, <2>1 DEF WatchlistInductive
  <1>3. CASE n \in DOMAIN lists
    <2>1. PICK check : check = [id |-> begun + 1, list |-> n, results |-> <<>>]
      OBVIOUS
    <2>2. begun' = begun + 1 /\ checks' = [checks EXCEPT ![t] = check]
      BY <1>3, <2>1 DEF BeginCheck
    <2>3. /\ checks' = [u \in Checkers |-> checks'[u]] /\ checks'[t] = check
          /\ \A u \in Checkers \ {t} : checks'[u] = checks[u]
      BY <2>2 DEF WatchlistInductive
    <2>4. /\ check.id = begun + 1 /\ check.list = n /\ check.results = <<>>
          /\ check = [id |-> check.id, list |-> check.list, results |-> check.results]
          /\ check.results \in Seq(ResultRecords) /\ Len(check.results) = 0
      BY <2>1
    <2>5. CheckOK(check, workflows, lists, begun')
      <3>1. n \in 1..Len(lists) /\ Len(lists[n]) \in Nat
        BY <1>1, <1>3, AcceptedFacts
      <3>2. Of(workflows, begun + 1) = {}
        <4>1. \A j \in DOMAIN workflows : workflows[j].check \in 1..begun
          BY <1>1 DEF WatchlistInductive
        <4>2. begun + 1 \notin 1..begun
          BY <1>1
        <4> QED
          BY <4>1, <4>2 DEF Of
      <3>3. Successes(check.results) = {}
        BY <2>4 DEF Successes
      <3>4. LookedInto(workflows, check.id) = Successful(check.results)
        BY <2>4, <3>2, <3>3 DEF LookedInto, Successful
      <3>5. Cardinality(Of(workflows, check.id)) = Cardinality(Successes(check.results))
        BY <2>4, <3>2, <3>3
      <3>6. Tallied(check.id, lists[check.list], check.results, workflows)
        BY <2>4, <3>1, <3>4, <3>5 DEF Tallied
      <3>7. check.id \in 1..begun' /\ check.list \in 1..Len(lists)
        BY <1>1, <2>2, <2>4, <3>1
      <3> QED
        BY <2>4, <3>6, <3>7 DEF CheckOK
    <2>6. /\ \A c : CheckOK(c, workflows, lists, begun) => CheckOK(c, workflows, lists, begun')
          /\ \A e : AnswerOK(e, workflows, lists, begun) => AnswerOK(e, workflows, lists, begun')
      <3>1. \A i \in 1..begun : i \in 1..begun'
        BY <1>1, <2>2
      <3>2. ASSUME NEW c, CheckOK(c, workflows, lists, begun)
            PROVE  CheckOK(c, workflows, lists, begun')
        BY <3>1, <3>2 DEF CheckOK
      <3>3. ASSUME NEW e, AnswerOK(e, workflows, lists, begun)
            PROVE  AnswerOK(e, workflows, lists, begun')
        BY <3>1, <3>3 DEF AnswerOK
      <3> QED
        BY <3>2, <3>3
    <2>7. \A u \in Checkers : checks'[u] # NoCheck => CheckOK(checks'[u], workflows, lists, begun')
      BY <2>3, <2>5, <2>6 DEF WatchlistInductive
    <2>8. \A u \in Checkers \ {t} : checks'[u].id # begun + 1
      <3>1. NoCheck.id = 0
        BY DEF NoCheck
      <3>2. \A u \in Checkers : checks[u] # NoCheck => checks[u].id \in 1..begun
        BY DEF WatchlistInductive, CheckOK
      <3> QED
        BY <1>1, <2>3, <3>1, <3>2
    <2>9. \A u, v \in Checkers : u # v /\ checks'[u] # NoCheck => checks'[u].id # checks'[v].id
      BY <2>3, <2>4, <2>8 DEF WatchlistInductive
    <2>10. \A e \in answers, u \in Checkers : checks'[u] # NoCheck => checks'[u].id # e.check
      <3>1. \A e \in answers : e.check \in 1..begun
        BY DEF WatchlistInductive, AnswerOK
      <3>2. \A e \in answers : begun + 1 # e.check
        BY <1>1, <3>1
      <3> QED
        BY <2>3, <2>4, <3>2 DEF WatchlistInductive
    <2>11. \A e \in answers : AnswerOK(e, workflows, lists, begun')
      BY <2>6 DEF WatchlistInductive
    <2>12. begun' \in Nat /\ \A j \in 1..Len(workflows) : workflows[j].check \in 1..begun'
      BY <1>1, <2>2 DEF WatchlistInductive
    <2> QED
      BY <1>1, <2>3, <2>7, <2>9, <2>10, <2>11, <2>12 DEF WatchlistInductive
  <1> QED
    BY <1>2, <1>3

\* A check stays in step with its own workflows and lets those of others be.
LEMMA EntryTallied ==
    ASSUME NEW ws \in Seq(WorkflowRecords), NEW id \in Nat, NEW list \in Accepted, NEW results,
           Tallied(id, list, results, ws), Len(results) + 1 <= Len(list),
           NEW result \in CreationResults(Resolve(CheckQuery(list[Len(results) + 1]))),
           NEW new, result.status # "OK" => new = ws,
           result.status = "OK" => new = Append(ws, [company |-> result.company, check |-> id])
    PROVE  /\ Tallied(id, list, Append(results, result), new)
           /\ \A other : other # id =>
                Of(new, other) = Of(ws, other) /\ LookedInto(new, other) = LookedInto(ws, other)
           /\ new \in Seq(WorkflowRecords)
           /\ \A j \in 1..Len(new) : \/ new[j].check = id
                                     \/ j \in 1..Len(ws) /\ new[j] = ws[j]
  <1> DEFINE n == Len(results)
             more == Append(results, result)
  <1>1. /\ results \in Seq(ResultRecords) /\ n \in Nat
        /\ \A i \in 1..n : results[i].company = list[i].company
        /\ LookedInto(ws, id) = Successful(results)
        /\ Cardinality(Of(ws, id)) = Cardinality(Successes(results))
    BY DEF Tallied
  <1>2. Len(list) \in Nat /\ n + 1 \in 1..Len(list)
    BY <1>1, AcceptedFacts
  <1>3. result \in ResultRecords /\ result.company = list[n + 1].company
    BY <1>2, ResultFacts
  <1>4. PICK w \in WorkflowRecords :
          /\ w = [company |-> result.company, check |-> id]
          /\ w.check = id /\ w.company = result.company
    BY <1>3 DEF WorkflowRecords, ResultRecords
  <1>5. /\ result.status # "OK" => new = ws
        /\ result.status = "OK" => new = Append(ws, w)
    BY <1>4
  <1>6. /\ Len(more) = n + 1 /\ more \in Seq(ResultRecords)
        /\ more[n + 1] = result /\ \A i \in 1..n : more[i] = results[i]
        /\ result.status # "OK" =>
             /\ Successful(more) = Successful(results)
             /\ Cardinality(Successes(more)) = Cardinality(Successes(results))
        /\ result.status = "OK" =>
             /\ Successful(more) = Successful(results) \cup {result.company}
             /\ Cardinality(Successes(more)) = Cardinality(Successes(results)) + 1
    BY <1>1, <1>3, ResultAdded
  <1> HIDE DEF n, more
  <1>7. ASSUME NEW i \in 1..(n + 1) PROVE more[i].company = list[i].company
    <2>1. i = n + 1 \/ i \in 1..n
      BY <1>1
    <2> QED
      BY <1>1, <1>3, <1>6, <2>1
  <1>8. CASE result.status # "OK"
    <2>1. new = ws
      BY <1>5, <1>8
    <2>2. Tallied(id, list, more, new)
      BY <1>1, <1>2, <1>6, <1>7, <1>8, <2>1 DEF Tallied
    <2>3. \A j \in 1..Len(new) : j \in 1..Len(ws) /\ new[j] = ws[j]
      BY <2>1
    <2> QED
      BY <2>1, <2>2, <2>3 DEF more
  <1>9. CASE result.status = "OK"
    <2>1. new = Append(ws, w)
      BY <1>5, <1>9
    <2>2. /\ Cardinality(Of(new, id)) = Cardinality(Of(ws, id)) + 1
          /\ LookedInto(new, id) = LookedInto(ws, id) \cup {w.company}
      <3>1. w \in WorkflowRecords /\ w.check = id
        BY <1>4
      <3>2. Cardinality(Of(Append(ws, w), id)) = Cardinality(Of(ws, id)) + 1
        BY <3>1, WorkflowAdded
      <3>3. LookedInto(Append(ws, w), id) = LookedInto(ws, id) \cup {w.company}
        BY <3>1, WorkflowAdded
      <3> QED
        BY <2>1, <3>2, <3>3
    <2>3. LookedInto(new, id) = Successful(more) /\ Cardinality(Of(new, id)) = Cardinality(Successes(more))
      BY <1>1, <1>4, <1>6, <1>9, <2>2
    <2>4. Tallied(id, list, more, new)
      BY <1>1, <1>2, <1>6, <1>7, <2>3 DEF Tallied
    <2>5. \A other : other # id =>
             Of(new, other) = Of(ws, other) /\ LookedInto(new, other) = LookedInto(ws, other)
      BY <1>4, <2>1, WorkflowAdded
    <2>6. /\ new \in Seq(WorkflowRecords)
          /\ \A j \in 1..Len(new) : \/ new[j].check = id
                                    \/ j \in 1..Len(ws) /\ new[j] = ws[j]
      BY <1>4, <2>1
    <2> QED
      BY <2>4, <2>5, <2>6 DEF more
  <1> QED
    BY <1>8, <1>9

\* The next entry leads to its company again, and to a workflow if its plan is
\* made.
LEMMA CheckEntryKeeps ==
    ASSUME WatchlistInductive, NEW t \in Checkers, CheckEntry(t)
    PROVE  WatchlistInductive'
  <1>1. PICK check, list : check = checks[t] /\ list = lists[check.list]
    OBVIOUS
  <1>2. PICK result \in CreationResults(Resolve(CheckQuery(list[Len(check.results) + 1]))) :
          /\ checks' = [checks EXCEPT ![t].results = Append(@, result)]
          /\ workflows' = IF result.status # "OK" THEN workflows
                          ELSE Append(workflows, [company |-> result.company,
                                                  check |-> check.id])
    BY <1>1 DEF CheckEntry
  <1>3. /\ UNCHANGED <<lists, begun, answers, announcements>> /\ check # NoCheck
        /\ Len(check.results) + 1 <= Len(list)
    BY <1>1 DEF CheckEntry
  <1>4. /\ CheckOK(check, workflows, lists, begun) /\ begun \in Nat
        /\ lists \in Seq(Accepted) /\ workflows \in Seq(WorkflowRecords)
    BY <1>1, <1>3 DEF WatchlistInductive
  <1>5. /\ check = [id |-> check.id, list |-> check.list, results |-> check.results]
        /\ check.id \in 1..begun /\ check.id \in Nat /\ check.list \in 1..Len(lists)
        /\ list \in Accepted /\ Tallied(check.id, list, check.results, workflows)
    BY <1>1, <1>4 DEF CheckOK
  <1>6. /\ Tallied(check.id, list, Append(check.results, result), workflows')
        /\ \A other : other # check.id =>
             /\ Of(workflows', other) = Of(workflows, other)
             /\ LookedInto(workflows', other) = LookedInto(workflows, other)
        /\ workflows' \in Seq(WorkflowRecords)
        /\ \A j \in 1..Len(workflows') :
             \/ workflows'[j].check = check.id
             \/ j \in 1..Len(workflows) /\ workflows'[j] = workflows[j]
    <2>1. PICK new : new = workflows'
      OBVIOUS
    <2>2. PICK id \in Nat : id = check.id
      BY <1>5
    <2>3. PICK results : results = check.results
      OBVIOUS
    <2>4. /\ Tallied(id, list, results, workflows) /\ Len(results) + 1 <= Len(list)
          /\ result \in CreationResults(Resolve(CheckQuery(list[Len(results) + 1])))
          /\ result.status # "OK" => new = workflows
          /\ result.status = "OK" =>
               new = Append(workflows, [company |-> result.company, check |-> id])
      BY <1>2, <1>3, <1>5, <2>1, <2>2, <2>3
    <2>5. /\ Tallied(id, list, Append(results, result), new)
          /\ \A other : other # id =>
               /\ Of(new, other) = Of(workflows, other)
               /\ LookedInto(new, other) = LookedInto(workflows, other)
          /\ new \in Seq(WorkflowRecords)
          /\ \A j \in 1..Len(new) :
               \/ new[j].check = id
               \/ j \in 1..Len(workflows) /\ new[j] = workflows[j]
      BY <1>4, <1>5, <2>4, EntryTallied
    <2> QED
      BY <2>1, <2>2, <2>3, <2>5
  <1>7. PICK moved : moved = [id |-> check.id, list |-> check.list,
                              results |-> Append(check.results, result)]
    OBVIOUS
  <1>8. /\ moved.id = check.id /\ moved.list = check.list
        /\ moved.results = Append(check.results, result)
        /\ moved = [id |-> moved.id, list |-> moved.list, results |-> moved.results]
    BY <1>7
  <1>9. checks' = [checks EXCEPT ![t] = moved]
    <2>1. PICK i, l, results : check = [id |-> i, list |-> l, results |-> results]
      BY <1>5
    <2>2. [check EXCEPT !.results = Append(@, result)] =
             [id |-> i, list |-> l, results |-> Append(results, result)]
      BY <2>1
    <2>3. moved = [id |-> i, list |-> l, results |-> Append(results, result)]
      BY <1>7, <2>1
    <2> QED
      BY <1>1, <1>2, <2>2, <2>3
  <1>10. /\ checks' = [u \in Checkers |-> checks'[u]] /\ checks'[t] = moved
         /\ \A u \in Checkers \ {t} : checks'[u] = checks[u]
    BY <1>9 DEF WatchlistInductive
  <1>11. CheckOK(moved, workflows', lists, begun)
    BY <1>1, <1>5, <1>6, <1>8 DEF CheckOK
  <1>12. ASSUME NEW u \in Checkers, checks'[u] # NoCheck
         PROVE  CheckOK(checks'[u], workflows', lists, begun)
    <2>1. CASE u = t
      BY <1>10, <1>11, <2>1
    <2>2. CASE u # t
      <3>1. /\ CheckOK(checks[u], workflows, lists, begun) /\ checks[u].id # check.id
            /\ checks'[u] = checks[u]
        BY <1>1, <1>3, <1>10, <1>12, <2>2 DEF WatchlistInductive
      <3> QED
        BY <1>6, <3>1 DEF CheckOK, Tallied
    <2> QED
      BY <2>1, <2>2
  <1>13. ASSUME NEW e \in answers PROVE AnswerOK(e, workflows', lists, begun)
    <2>1. AnswerOK(e, workflows, lists, begun) /\ e.check # check.id
      BY <1>1, <1>3 DEF WatchlistInductive
    <2> QED
      BY <1>6, <2>1 DEF AnswerOK, Tallied
  <1>14. \A j \in 1..Len(workflows') : workflows'[j].check \in 1..begun
    <2>1. \A j \in 1..Len(workflows) : workflows[j].check \in 1..begun
      BY DEF WatchlistInductive
    <2> QED
      BY <1>5, <1>6, <2>1
  <1>15. \A u \in Checkers :
           checks'[u].id = checks[u].id /\ (checks'[u] # NoCheck => checks[u] # NoCheck)
    BY <1>1, <1>3, <1>8, <1>10
  <1> QED
    BY <1>3, <1>4, <1>6, <1>10, <1>12, <1>13, <1>14, <1>15 DEF WatchlistInductive

\* A check ends at the end of its list, announced or not.
LEMMA EndCheckKeeps ==
    ASSUME WatchlistInductive, NEW t \in Checkers, EndCheck(t)
    PROVE  WatchlistInductive'
  <1>1. PICK check, a, answer :
          /\ check = checks[t]
          /\ a = [check |-> check.id, list |-> check.list, count |-> Len(check.results)]
          /\ answer = [check |-> check.id, list |-> check.list, results |-> check.results]
    OBVIOUS
  <1>2. /\ UNCHANGED <<lists, begun, workflows>> /\ check # NoCheck
        /\ Len(check.results) = Len(lists[check.list])
        /\ checks' = [checks EXCEPT ![t] = NoCheck]
        /\ answers' = answers \cup {answer}
        /\ announcements' = announcements \/ announcements' = announcements \cup {a}
    BY <1>1 DEF EndCheck
  <1>3. CheckOK(check, workflows, lists, begun)
    BY <1>1, <1>2 DEF WatchlistInductive
  <1>4. /\ answer.check = check.id /\ answer.list = check.list /\ answer.results = check.results
        /\ a.check = check.id /\ a.list = check.list /\ a.count = Len(check.results)
    BY <1>1
  <1>5. AnswerOK(answer, workflows, lists, begun)
    BY <1>2, <1>3, <1>4 DEF CheckOK, AnswerOK
  <1>6. /\ checks' = [u \in Checkers |-> checks'[u]] /\ checks'[t] = NoCheck
        /\ \A u \in Checkers \ {t} : checks'[u] = checks[u]
    BY <1>2 DEF WatchlistInductive
  <1>7. \A u \in Checkers \ {t} : checks[u] # NoCheck => checks[u].id # check.id
    BY <1>1, <1>2 DEF WatchlistInductive
  <1>8. \A e \in answers' : AnswerOK(e, workflows, lists, begun)
    BY <1>2, <1>5 DEF WatchlistInductive
  <1>9. \A e \in answers', u \in Checkers : checks'[u] # NoCheck => checks'[u].id # e.check
    BY <1>2, <1>4, <1>6, <1>7 DEF WatchlistInductive
  <1>10. \A n \in announcements' : \E e \in answers' :
            e.check = n.check /\ e.list = n.list /\ n.count = Len(e.results)
    BY <1>2, <1>4 DEF WatchlistInductive
  <1>11. \A u, v \in Checkers : u # v /\ checks'[u] # NoCheck => checks'[u].id # checks'[v].id
    <2>1. \A u \in Checkers \ {t} : checks[u] # NoCheck => checks[u].id # NoCheck.id
      <3>1. \A u \in Checkers : checks[u] # NoCheck => checks[u].id \in 1..begun
        BY DEF WatchlistInductive, CheckOK
      <3> QED
        BY <3>1 DEF NoCheck
    <2> QED
      BY <1>6, <2>1 DEF WatchlistInductive
  <1>12. \A u \in Checkers : checks'[u] # NoCheck => CheckOK(checks'[u], workflows, lists, begun)
    BY <1>6 DEF WatchlistInductive
  <1> QED
    BY <1>2, <1>6, <1>8, <1>9, <1>10, <1>11, <1>12 DEF WatchlistInductive

\* Every check, under way or answered, has a result of its own company for
\* each entry passed and one workflow for each success, whatever became of the
\* plans (ManageWatchlist.evaluate).
THEOREM WatchlistInvariant == WatchlistSpec => []WatchlistInductive
  <1>1. ASSUME WatchlistInductive, [WatchlistNext]_watchlistVars PROVE WatchlistInductive'
    <2>1. CASE UNCHANGED watchlistVars
      BY <1>1, <2>1 DEF watchlistVars, WatchlistInductive
    <2>2. CASE WatchlistNext
      BY <1>1, <2>2, CreateListKeeps, BeginCheckKeeps, CheckEntryKeeps, EndCheckKeeps
         DEF WatchlistNext
    <2> QED
      BY <1>1, <2>1, <2>2
  <1> QED
    BY <1>1, InitWatchlist, PTL DEF WatchlistSpec

\* As many successes as results means that all are.
LEMMA AllSucceeded ==
    ASSUME NEW results \in Seq(ResultRecords)
    PROVE  Len(results) = Cardinality(Successes(results)) <=> Successes(results) = DOMAIN results
  <1>1. PICK n \in Nat : Len(results) = n /\ DOMAIN results = 1..n
    OBVIOUS
  <1>2. IsFiniteSet(1..n) /\ Cardinality(1..n) = n
    BY FS_Interval
  <1>3. Successes(results) \in SUBSET (1..n)
    BY <1>1 DEF Successes
  <1>4. Cardinality(Successes(results)) = Cardinality(1..n) => Successes(results) = 1..n
    BY <1>2, <1>3, FS_Subset
  <1> QED
    BY <1>1, <1>2, <1>4

\* A monitoring check looks into the companies of its list and no others, and
\* its count is of the results, not of the workflows (ManageWatchlist.evaluate).
THEOREM MonitoringStaysTrue == WatchlistSpec => []MonitoringKeepsCompanies
  <1>1. ASSUME WatchlistInductive PROVE MonitoringKeepsCompanies
    <2>1. ASSUME NEW id, NEW n, NEW results, Tallied(id, lists[n], results, workflows)
          PROVE  ResultsTrue(id, n, results)
      <3>1. DOMAIN results = 1..Len(results)
        BY <2>1 DEF Tallied
      <3>2. \A i \in DOMAIN results :
              results[i].status # "RESOLUTION_BLOCKED" /\ results[i].company = lists[n][i].company
        <4>1. \A i \in 1..Len(results) : results[i] \in ResultRecords
          BY <2>1 DEF Tallied
        <4>2. \A i \in 1..Len(results) : results[i].company = lists[n][i].company
          BY <2>1 DEF Tallied
        <4> QED
          BY <3>1, <4>1, <4>2 DEF ResultRecords
      <3>3. Made(id) = Of(workflows, id)
        BY DEF Made, Of
      <3> QED
        BY <2>1, <3>2, <3>3 DEF Tallied, ResultsTrue, LookedInto, Successful
    <2>2. ASSUME NEW t \in Checkers, checks[t] # NoCheck
          PROVE  ResultsTrue(checks[t].id, checks[t].list, checks[t].results)
      BY <1>1, <2>1, <2>2 DEF WatchlistInductive, CheckOK
    <2>3. ASSUME NEW e \in answers
          PROVE  ResultsTrue(e.check, e.list, e.results) /\ Len(e.results) = Len(lists[e.list])
      BY <1>1, <2>1 DEF WatchlistInductive, AnswerOK
    <2>4. ASSUME NEW a \in announcements
          PROVE  \E e \in answers :
                    /\ <<e.check, e.list>> = <<a.check, a.list>>
                    /\ a.count = Len(e.results)
                    /\ a.count = Cardinality(Made(a.check)) <=>
                          Successes(e.results) = DOMAIN e.results
      <3>1. PICK e \in answers : e.check = a.check /\ e.list = a.list /\ a.count = Len(e.results)
        BY <1>1 DEF WatchlistInductive
      <3>2. e.results \in Seq(ResultRecords)
        BY <1>1 DEF WatchlistInductive, AnswerOK, Tallied
      <3>3. Cardinality(Made(a.check)) = Cardinality(Successes(e.results))
        BY <2>3, <3>1 DEF ResultsTrue
      <3> QED
        BY <3>1, <3>2, <3>3, AllSucceeded
    <2> QED
      BY <2>2, <2>3, <2>4 DEF MonitoringKeepsCompanies
  <1> QED
    BY <1>1, WatchlistInvariant, PTL

-----------------------------------------------------------------------------
(* The package of a company *)

\* A payload as the response gives it.
Readings == [Tags -> Seq(RowRecords)]

\* The keys of rows are numbers.
LEMMA RowKeyType ==
    ASSUME NEW row \in RowRecords
    PROVE  RowKey(row) \in [1..3 -> Int]
  <1>1. row.filed \in Int /\ row.end \in Int /\ SortYear(row) \in Int
    BY DEF RowRecords, SortYear
  <1> QED
    BY <1>1 DEF RowKey

\* The filing date comes first in them.
LEMMA FiledFirst ==
    ASSUME NEW row \in RowRecords, NEW other \in RowRecords, ~Above(other, row)
    PROVE  other.filed <= row.filed
  <1>1. row.filed \in Int /\ other.filed \in Int
    BY DEF RowRecords
  <1>2. /\ 1 \in DOMAIN RowKey(row)
        /\ RowKey(row)[1] = row.filed /\ RowKey(other)[1] = other.filed
    BY DEF RowKey
  <1>3. RowKey(row)[1] < RowKey(other)[1] => Precedes(RowKey(row), RowKey(other))
    BY <1>2 DEF Precedes
  <1> QED
    BY <1>1, <1>2, <1>3 DEF Above

\* The row read for a tag is a candidate that none was filed after.
LEMMA SelectedFacts ==
    ASSUME payload \in Readings, NEW tag \in Tags, SelectFyRow(tag) # NothingFound
    PROVE  \E row \in Rows(tag) :
              /\ row \in RowRecords /\ IsCandidate(row, tag)
              /\ \A other \in Rows(tag) : IsCandidate(other, tag) => other.filed <= row.filed
              /\ SelectFyRow(tag) = [outcome |-> "row", row |-> row]
  <1> DEFINE rows == payload[tag]
             candidates == {i \in DOMAIN rows : IsCandidate(rows[i], tag)}
             best == {i \in candidates : \A j \in candidates : ~Above(rows[j], rows[i])}
  <1>1. rows \in Seq(RowRecords)
    BY DEF Readings
  <1>2. Len(rows) \in Nat /\ DOMAIN rows = 1..Len(rows) /\ \A i \in DOMAIN rows : rows[i] \in RowRecords
    BY <1>1
  <1>3. SelectFyRow(tag) = IF candidates = {} THEN NothingFound
                           ELSE [outcome |-> "row", row |-> rows[Min(best)]]
    BY DEF SelectFyRow
  <1>4. /\ candidates \in SUBSET (1..Len(rows)) /\ candidates \in SUBSET DOMAIN rows
        /\ \A i \in candidates : IsCandidate(rows[i], tag)
    BY <1>2
  <1>5. \A i : i \in best <=> i \in candidates /\ \A j \in candidates : ~Above(rows[j], rows[i])
    OBVIOUS
  <1>6. /\ \A i \in DOMAIN rows : rows[i] \in Rows(tag)
        /\ \A other \in Rows(tag) : \E i \in DOMAIN rows : other = rows[i]
        /\ \A i \in DOMAIN rows : IsCandidate(rows[i], tag) => i \in candidates
    BY DEF Rows, Range
  <1> HIDE DEF rows, candidates, best
  <1>7. candidates # {} /\ SelectFyRow(tag) = [outcome |-> "row", row |-> rows[Min(best)]]
    BY <1>3
  <1>8. IsFiniteSet(candidates)
    <2>1. IsFiniteSet(1..Len(rows))
      BY <1>2, FS_Interval
    <2> QED
      BY <1>4, <2>1, FS_Subset
  <1>9. best # {}
    <2> DEFINE key == [i \in candidates |-> RowKey(rows[i])]
    <2>1. key \in [candidates -> [1..3 -> Int]]
      BY <1>2, <1>4, RowKeyType
    <2>2. \A i, j \in candidates : Precedes(key[i], key[j]) <=> Above(rows[j], rows[i])
      BY DEF Above
    <2> HIDE DEF key
    <2>3. \E i \in candidates : \A j \in candidates : ~Precedes(key[i], key[j])
      BY <1>7, <1>8, <2>1, SomePlaceIsLast
    <2> QED
      BY <1>5, <2>2, <2>3
  <1>10. best \in SUBSET Nat
    BY <1>2, <1>4, <1>5
  <1>11. PICK i \in best : SelectFyRow(tag) = [outcome |-> "row", row |-> rows[i]]
    BY <1>7, <1>9, <1>10, MinFacts
  <1>12. ASSUME NEW other \in Rows(tag), IsCandidate(other, tag)
         PROVE  other.filed <= rows[i].filed
    <2>1. PICK j \in candidates : other = rows[j]
      BY <1>6, <1>12
    <2>2. other \in RowRecords /\ rows[i] \in RowRecords /\ ~Above(other, rows[i])
      BY <1>2, <1>4, <1>5, <2>1
    <2> QED
      BY <2>2, FiledFirst
  <1> QED
    BY <1>2, <1>4, <1>5, <1>6, <1>11, <1>12

\* A fact of a tag.
IsFactOf(f, tag) ==
    /\ f.tag = tag
    /\ f.end \in Nat /\ f.fy \in Int /\ f.filed \in Nat
    /\ asked # 0 => f.fy = asked
    /\ Traceable(f)

\* A fact extracted is one of its tag.
LEMMA ExtractedFacts ==
    ASSUME payload \in Readings, NEW tag \in Tags, ExtractFact(tag).outcome = "fact"
    PROVE  IsFactOf(ExtractFact(tag), tag)
  <1>1. SelectFyRow(tag) # NothingFound
    BY DEF ExtractFact, NothingFound
  <1>2. PICK row \in Rows(tag) :
          /\ row \in RowRecords /\ IsCandidate(row, tag)
          /\ \A other \in Rows(tag) : IsCandidate(other, tag) => other.filed <= row.filed
          /\ SelectFyRow(tag) = [outcome |-> "row", row |-> row]
    BY <1>1, SelectedFacts
  <1>3. SelectFyRow(tag).row = row
    BY <1>2
  <1>4. ExtractFact(tag) = FactFrom(row, tag)
    BY <1>1, <1>3 DEF ExtractFact
  <1>5. PICK fact : fact = [outcome |-> "fact", tag |-> tag, start |-> StartOf(row, tag),
                            end |-> row.end, fy |-> FiscalYear(row),
                            filed |-> IF row.filed = Garbled THEN 0 ELSE row.filed,
                            accn |-> row.accn]
    OBVIOUS
  <1>6. ExtractFact(tag) = fact
    BY <1>4, <1>5 DEF FactFrom, NothingFound, Raised
  <1>7. /\ fact.tag = tag /\ fact.start = StartOf(row, tag)
        /\ fact.end = row.end /\ fact.fy = FiscalYear(row)
        /\ fact.filed = IF row.filed = Garbled THEN 0 ELSE row.filed
        /\ fact.accn = row.accn
    BY <1>5
  <1>8. row.end \in Nat /\ row.fy \in Int /\ row.filed \in Nat
    BY <1>2 DEF RowRecords
  <1>9. asked # 0 => row.fy = asked
    BY <1>2 DEF IsCandidate
  <1>10. fact.fy \in Int /\ (asked # 0 => fact.fy = asked)
    BY <1>7, <1>8, <1>9 DEF FiscalYear, YearOf, NoYear
  <1>11. ReadFrom(fact, row)
    BY <1>7 DEF ReadFrom, StartOf
  <1>12. ASSUME NEW other, Restates(other, row, tag) PROVE IsCandidate(other, tag)
    BY <1>2, <1>12 DEF Restates, IsCandidate
  <1>13. Traceable(fact)
    BY <1>2, <1>7, <1>11, <1>12 DEF Traceable
  <1>14. IsFactOf(fact, tag)
    BY <1>7, <1>8, <1>10, <1>13 DEF IsFactOf
  <1> QED
    BY <1>6, <1>14

\* A list, by its length, each of whose members has a tag of these.
FactsAre(facts, tags) ==
    \E n \in Nat : /\ DOMAIN facts = 1..n
                   /\ facts = [k \in 1..n |-> facts[k]]
                   /\ \A k \in 1..n : \E tag \in tags : IsFactOf(facts[k], tag)

\* What is found of some tags are facts of theirs.
LEMMA FoundFacts ==
    ASSUME payload \in Readings, NEW tags \in Seq(Tags)
    PROVE  FactsAre(FactsOf(tags), Range(tags))
  <1> DEFINE facts == [i \in DOMAIN tags |-> ExtractFact(tags[i])]
             P == {i \in DOMAIN tags : facts[i].outcome = "fact" /\ Considered(tags[i])}
  <1>1. FactsOf(tags) = AtPlaces(facts, P)
    BY DEF FactsOf
  <1>2. Len(tags) \in Nat /\ DOMAIN tags = 1..Len(tags) /\ \A i \in DOMAIN tags : tags[i] \in Tags
    OBVIOUS
  <1>3. P \in SUBSET (1..Len(tags))
    BY <1>2
  <1>4. \A i \in P : i \in DOMAIN tags /\ facts[i] = ExtractFact(tags[i])
                       /\ ExtractFact(tags[i]).outcome = "fact"
    OBVIOUS
  <1> HIDE DEF facts, P
  <1>5. IsFiniteSet(P) /\ P \in SUBSET Int
    <2>1. IsFiniteSet(1..Len(tags))
      BY <1>2, FS_Interval
    <2>2. IsFiniteSet(P)
      BY <1>3, <2>1, FS_Subset
    <2> QED
      BY <1>3, <2>2
  <1>6. /\ Cardinality(P) \in Nat /\ DOMAIN AtPlaces(facts, P) = 1..Cardinality(P)
        /\ \A k \in 1..Cardinality(P) : \E i \in P : AtPlaces(facts, P)[k] = facts[i]
    BY <1>5, AtPlacesFacts
  <1>7. \A i \in P : tags[i] \in Range(tags) /\ IsFactOf(facts[i], tags[i])
    BY <1>2, <1>4, ExtractedFacts DEF Range
  <1>8. AtPlaces(facts, P) = [k \in 1..Cardinality(P) |-> AtPlaces(facts, P)[k]]
    BY <1>6 DEF AtPlaces
  <1>9. \A k \in 1..Cardinality(P) : \E tag \in Range(tags) : IsFactOf(AtPlaces(facts, P)[k], tag)
    BY <1>6, <1>7
  <1> QED
    BY <1>1, <1>6, <1>8, <1>9 DEF FactsAre

\* A choice of facts is one of facts, all of them among those chosen from.
LEMMA KeptFacts ==
    ASSUME NEW facts, NEW tags, FactsAre(facts, tags), NEW P \in SUBSET DOMAIN facts
    PROVE  LET kept == AtPlaces(facts, P)
           IN  /\ FactsAre(kept, tags)
               /\ \A k \in DOMAIN kept : \E i \in P : kept[k] = facts[i]
               /\ P # {} => 1 \in DOMAIN kept
  <1> DEFINE kept == AtPlaces(facts, P)
  <1>1. PICK n \in Nat :
          /\ DOMAIN facts = 1..n
          /\ \A k \in 1..n : \E tag \in tags : IsFactOf(facts[k], tag)
    BY DEF FactsAre
  <1>2. IsFiniteSet(P) /\ P \in SUBSET Int
    <2>1. IsFiniteSet(1..n) /\ P \in SUBSET (1..n)
      BY <1>1, FS_Interval
    <2>2. IsFiniteSet(P)
      BY <2>1, FS_Subset
    <2> QED
      BY <2>1, <2>2
  <1>3. /\ Cardinality(P) \in Nat /\ DOMAIN kept = 1..Cardinality(P)
        /\ \A k \in 1..Cardinality(P) : \E i \in P : kept[k] = facts[i]
        /\ \A i \in P : \E k \in 1..Cardinality(P) : kept[k] = facts[i]
    BY <1>2, AtPlacesFacts
  <1>4. kept = [k \in 1..Cardinality(P) |-> kept[k]]
    BY <1>3 DEF AtPlaces
  <1> HIDE DEF kept
  <1>5. \A k \in 1..Cardinality(P) : \E tag \in tags : IsFactOf(kept[k], tag)
    BY <1>1, <1>3
  <1>6. P # {} => 1 \in 1..Cardinality(P)
    BY <1>3
  <1>7. FactsAre(kept, tags)
    BY <1>3, <1>4, <1>5 DEF FactsAre
  <1> QED
    BY <1>3, <1>6, <1>7 DEF kept

\* The period reported is that of some fact.
LEMMA PeriodFacts ==
    ASSUME NEW facts, NEW tags, FactsAre(facts, tags), facts # <<>>
    PROVE  \E i \in DOMAIN facts : ReportingPeriod(facts) = Period(facts[i])
  <1> DEFINE best == {i \in DOMAIN facts :
                        \A j \in DOMAIN facts : ~Newer(Period(facts[j]), Period(facts[i]))}
             key == [i \in DOMAIN facts |-> <<facts[i].end, facts[i].fy>>]
  <1>1. PICK n \in Nat :
          /\ DOMAIN facts = 1..n /\ facts = [k \in 1..n |-> facts[k]]
          /\ \A k \in 1..n : facts[k].end \in Int /\ facts[k].fy \in Int
    BY DEF FactsAre, IsFactOf
  <1>2. n # 0
    BY <1>1
  <1>3. key \in [DOMAIN facts -> [1..2 -> Int]]
    BY <1>1
  <1>4. \A i, j \in DOMAIN facts :
          Precedes(key[i], key[j]) <=> Newer(Period(facts[j]), Period(facts[i]))
    BY DEF Newer, Period
  <1>5. \A i : i \in best <=> /\ i \in DOMAIN facts
                              /\ \A j \in DOMAIN facts : ~Newer(Period(facts[j]), Period(facts[i]))
    OBVIOUS
  <1>6. ReportingPeriod(facts) = Period(facts[Min(best)])
    BY DEF ReportingPeriod
  <1> HIDE DEF best, key
  <1>7. IsFiniteSet(DOMAIN facts) /\ DOMAIN facts # {}
    <2>1. IsFiniteSet(1..n)
      BY FS_Interval
    <2>2. 1 \in DOMAIN facts
      BY <1>1, <1>2
    <2> QED
      BY <1>1, <2>1, <2>2
  <1>8. \E i \in DOMAIN facts : \A j \in DOMAIN facts : ~Precedes(key[i], key[j])
    BY <1>3, <1>7, SomePlaceIsLast
  <1>9. best # {}
    BY <1>4, <1>5, <1>8
  <1>10. best \in SUBSET Nat
    BY <1>1, <1>5
  <1>11. Min(best) \in best
    BY <1>9, <1>10, MinFacts
  <1> QED
    BY <1>5, <1>6, <1>11

\* No fact was filed after the one that was filed last.
LEMMA LatestFiledFacts ==
    ASSUME NEW facts, NEW tags, FactsAre(facts, tags)
    PROVE  \/ LatestFiled(facts) = 0 /\ \A i \in DOMAIN facts : facts[i].filed = 0
           \/ /\ LatestFiled(facts) \in DOMAIN facts /\ LatestFiled(facts) # 0
              /\ facts[LatestFiled(facts)].filed # 0
              /\ \A i \in DOMAIN facts : facts[i].filed <= facts[LatestFiled(facts)].filed
  <1> DEFINE dated == {i \in DOMAIN facts : facts[i].filed # 0}
             last == {i \in dated : \A j \in dated : facts[j].filed <= facts[i].filed}
             key == [i \in dated |-> <<facts[i].filed>>]
  <1>1. PICK n \in Nat : DOMAIN facts = 1..n /\ \A k \in 1..n : facts[k].filed \in Nat
    BY DEF FactsAre, IsFactOf
  <1>2. LatestFiled(facts) = IF dated = {} THEN 0 ELSE Min(last)
    BY DEF LatestFiled
  <1>3. \A i : i \in dated <=> i \in DOMAIN facts /\ facts[i].filed # 0
    OBVIOUS
  <1>4. \A i : i \in last <=> i \in dated /\ \A j \in dated : facts[j].filed <= facts[i].filed
    OBVIOUS
  <1>5. key \in [dated -> [1..1 -> Int]]
    BY <1>1
  <1>6. \A i, j \in dated : ~Precedes(key[i], key[j]) => facts[j].filed <= facts[i].filed
    BY <1>1 DEF Precedes
  <1> HIDE DEF dated, last, key
  <1>7. CASE dated = {}
    BY <1>2, <1>3, <1>7
  <1>8. CASE dated # {}
    <2>1. IsFiniteSet(dated)
      <3>1. IsFiniteSet(1..n) /\ dated \in SUBSET (1..n)
        BY <1>1, <1>3, FS_Interval
      <3> QED
        BY <3>1, FS_Subset
    <2>2. \E i \in dated : \A j \in dated : ~Precedes(key[i], key[j])
      BY <1>5, <1>8, <2>1, SomePlaceIsLast
    <2>3. last # {} /\ last \in SUBSET Nat
      <3>1. last # {}
        BY <1>4, <1>6, <2>2
      <3> QED
        BY <1>1, <1>3, <1>4, <3>1
    <2>4. Min(last) \in last
      BY <2>3, MinFacts
    <2>5. PICK l \in last : LatestFiled(facts) = l
      BY <1>2, <1>8, <2>4
    <2>6. /\ l \in 1..n /\ facts[l].filed # 0 /\ facts[l].filed \in Nat
          /\ \A j \in dated : facts[j].filed <= facts[l].filed
      BY <1>1, <1>3, <1>4
    <2>7. \A i \in DOMAIN facts : facts[i].filed <= facts[l].filed
      BY <1>1, <1>3, <2>6
    <2> QED
      BY <1>1, <2>5, <2>6, <2>7
  <1> QED
    BY <1>7, <1>8

\* The members of two lists of facts together are those of either.
LEMMA TogetherFacts ==
    ASSUME NEW s, NEW t, NEW tags, NEW others, FactsAre(s, tags), FactsAre(t, others)
    PROVE  \A i \in DOMAIN (s \o t) : \/ \E k \in DOMAIN s : (s \o t)[i] = s[k]
                                      \/ \E k \in DOMAIN t : (s \o t)[i] = t[k]
  <1>1. PICK m \in Nat : DOMAIN s = 1..m /\ s = [k \in 1..m |-> s[k]]
    BY DEF FactsAre
  <1>2. PICK n \in Nat : DOMAIN t = 1..n /\ t = [k \in 1..n |-> t[k]]
    BY DEF FactsAre
  <1> DEFINE S == {s[k] : k \in 1..m} \cup {t[k] : k \in 1..n}
  <1>3. s \in Seq(S) /\ t \in Seq(S) /\ Len(s) = m /\ Len(t) = n
    <2>1. \A k \in 1..m : s[k] \in S
      OBVIOUS
    <2>2. \A k \in 1..n : t[k] \in S
      OBVIOUS
    <2> HIDE DEF S
    <2>3. s \in [1..m -> S]
      BY <1>1, <2>1
    <2>4. t \in [1..n -> S]
      BY <1>2, <2>2
    <2>5. s \in Seq(S) /\ Len(s) = m
      BY <2>3
    <2>6. t \in Seq(S) /\ Len(t) = n
      BY <2>4
    <2> QED
      BY <2>5, <2>6
  <1> HIDE DEF S
  <1>4. ASSUME NEW i \in DOMAIN (s \o t)
        PROVE  \/ i \in 1..m /\ (s \o t)[i] = s[i]
               \/ i - m \in 1..n /\ (s \o t)[i] = t[i - m]
    BY <1>3
  <1> QED
    BY <1>1, <1>2, <1>4

\* The package parsed can be traced.
LEMMA ParsedFacts ==
    ASSUME payload \in Readings, Parsed.outcome = "package"
    PROVE  TraceablePackage(Parsed)
  <1> DEFINE income == FactsOf(DurationTags)
             period == ReportingPeriod(income)
             P == {i \in DOMAIN income : Period(income[i]) = period}
             ofPeriod == AtPlaces(income, P)
             instant == FactsOf(InstantTags)
             B == {i \in DOMAIN instant : instant[i].fy = period.fy /\ instant[i].end = period.end}
             balance == AtPlaces(instant, B)
             filing == LatestFiled(ofPeriod)
             filed == IF filing = 0 THEN 0 ELSE ofPeriod[filing].filed
             accn == IF filing = 0 THEN "none" ELSE ofPeriod[filing].accn
             raises == \E tag \in Tags : Considered(tag) /\ ExtractFact(tag) = Raised
             sound == \A tag \in Tags : Considered(tag) => ExtractFact(tag) # Raised
             p == [outcome |-> "package", period |-> period, income |-> ofPeriod,
                   balance |-> balance, filed |-> filed, accn |-> accn]
  <1>1. Parsed = CASE raises -> Raised
                   [] sound /\ income = <<>> -> NothingFound
                   [] OTHER -> p
    BY DEF Parsed
  <1>2. ~raises => sound
    OBVIOUS
  <1>3. Raised.outcome # "package" /\ NothingFound.outcome # "package"
    BY DEF Raised, NothingFound
  <1>4. FactsAre(income, Range(DurationTags)) /\ FactsAre(instant, Range(InstantTags))
    <2>1. DurationTags \in Seq(Tags) /\ InstantTags \in Seq(Tags)
      BY DEF DurationTags, InstantTags, Tags, Range
    <2> QED
      BY <2>1, FoundFacts
  <1>5. /\ P \in SUBSET DOMAIN income /\ B \in SUBSET DOMAIN instant
        /\ \A i \in P : Period(income[i]) = period
        /\ \A i \in DOMAIN income : Period(income[i]) = period => i \in P
        /\ \A i \in B : instant[i].fy = period.fy /\ instant[i].end = period.end
    OBVIOUS
  <1>6. /\ p.period = period /\ p.income = ofPeriod /\ p.balance = balance
        /\ p.filed = filed /\ p.accn = accn
    OBVIOUS
  <1>7. /\ filed = IF filing = 0 THEN 0 ELSE ofPeriod[filing].filed
        /\ accn = IF filing = 0 THEN "none" ELSE ofPeriod[filing].accn
    OBVIOUS
  <1> HIDE DEF raises, sound, p, filed, accn, income, P, instant, B, period
  <1>8. Parsed = p /\ income # <<>>
    BY <1>1, <1>2, <1>3
  <1>9. PICK i0 \in DOMAIN income : period = Period(income[i0])
    BY <1>4, <1>8, PeriodFacts DEF period
  <1>10. \A f : /\ Period(f).start = f.start /\ Period(f).end = f.end /\ Period(f).fy = f.fy
    BY DEF Period
  <1>11. /\ FactsAre(ofPeriod, Range(DurationTags)) /\ FactsAre(balance, Range(InstantTags))
         /\ 1 \in DOMAIN ofPeriod
    <2>1. P # {}
      BY <1>5, <1>9
    <2> QED
      BY <1>4, <1>5, <2>1, KeptFacts
  <1>12. \A k \in DOMAIN ofPeriod : /\ Period(ofPeriod[k]) = period
                                    /\ ofPeriod[k].end = period.end
                                    /\ ofPeriod[k].fy = period.fy
    <2>1. \A k \in DOMAIN ofPeriod : \E i \in P : ofPeriod[k] = income[i]
      BY <1>4, <1>5, KeptFacts
    <2> HIDE DEF ofPeriod
    <2> QED
      BY <1>5, <1>10, <2>1
  <1>13. \A k \in DOMAIN balance : balance[k].end = period.end /\ balance[k].fy = period.fy
    <2>1. \A k \in DOMAIN balance : \E i \in B : balance[k] = instant[i]
      BY <1>4, <1>5, KeptFacts
    <2> HIDE DEF balance
    <2> QED
      BY <1>5, <2>1
  <1> HIDE DEF ofPeriod, balance, filing
  <1>14. asked # 0 => period.fy = asked
    <2>1. asked # 0 => ofPeriod[1].fy = asked
      BY <1>11 DEF FactsAre, IsFactOf
    <2> QED
      BY <1>11, <1>12, <2>1
  <1>15. Len(ofPeriod) > 0
    <2>1. PICK n \in Nat : DOMAIN ofPeriod = 1..n /\ ofPeriod = [k \in 1..n |-> ofPeriod[k]]
      BY <1>11 DEF FactsAre
    <2>2. n > 0 /\ Len(ofPeriod) = n
      BY <1>11, <2>1
    <2> QED
      BY <2>2
  <1>16. /\ \A k \in DOMAIN ofPeriod : Traceable(ofPeriod[k])
         /\ \A k \in DOMAIN balance : Traceable(balance[k])
    BY <1>11 DEF FactsAre, IsFactOf
  <1>17. \A i \in DOMAIN (ofPeriod \o balance) : /\ (ofPeriod \o balance)[i].end = period.end
                                                 /\ (ofPeriod \o balance)[i].fy = period.fy
                                                 /\ Traceable((ofPeriod \o balance)[i])
    BY <1>11, <1>12, <1>13, <1>16, TogetherFacts
  <1>18. \/ filing = 0 /\ \A i \in DOMAIN ofPeriod : ofPeriod[i].filed = 0
         \/ /\ filing \in DOMAIN ofPeriod /\ filing # 0 /\ ofPeriod[filing].filed # 0
            /\ \A i \in DOMAIN ofPeriod : ofPeriod[i].filed <= ofPeriod[filing].filed
    BY <1>11, LatestFiledFacts DEF filing
  <1>19. /\ filed = 0 => accn = "none"
         /\ filed # 0 => \E i \in DOMAIN ofPeriod :
                ofPeriod[i].filed = filed /\ ofPeriod[i].accn = accn
         /\ \A i \in DOMAIN ofPeriod : ofPeriod[i].filed <= filed
    BY <1>7, <1>18
  <1>20. TraceablePackage(p)
    BY <1>6, <1>12, <1>14, <1>15, <1>17, <1>19 DEF TraceablePackage
  <1> QED
    BY <1>8, <1>20

\* Whatever rows a payload holds, each figure of the package made of it was read
\* from a row of its own tag that no other supersedes, and the filing shown is
\* that of its last income figure
\* (SecCompanyFactsFinancialDataAdapter._parse_package).
THEOREM PackagesAreTraceable == FactsSpec => []PackageIsTraceable
  <1> DEFINE Inv == payload \in Readings /\ PackageIsTraceable
  <1>1. FactsInit => Inv
    BY FactsAssumption DEF FactsInit, Unread, PackageIsTraceable, Readings
  <1>2. Inv /\ [FactsNext]_factsVars => Inv'
    <2> SUFFICES ASSUME Inv, [FactsNext]_factsVars PROVE Inv'
      OBVIOUS
    <2>1. CASE UNCHANGED factsVars
      BY <2>1 DEF factsVars, PackageIsTraceable, TraceablePackage, Traceable, Rows
    <2>2. CASE ParsePackage
      <3>1. package' = Parsed /\ payload' = payload /\ asked' = asked
        BY <2>2 DEF ParsePackage
      <3>2. Parsed.outcome = "package" => TraceablePackage(Parsed)
        BY ParsedFacts
      <3>3. PackageIsTraceable'
        BY <3>1, <3>2 DEF PackageIsTraceable, TraceablePackage, Traceable, Rows
      <3> QED
        BY <3>1, <3>3
    <2> QED
      BY <2>1, <2>2 DEF FactsNext
  <1> QED
    BY <1>1, <1>2, PTL DEF FactsSpec

=============================================================================
