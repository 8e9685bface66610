------------------------------ MODULE CompanyFacts ------------------------------
(***************************************************************************)
(* SecCompanyFactsFinancialDataAdapter: the XBRL rows of a company are     *)
(* read tag by tag, one annual row of each, and put together as one        *)
(* package.  Three income tags and one balance tag stand for the nine.     *)
(*                                                                         *)
(* A row is [fp, start, end, fy, filed, accn, val].  Dates are numbers;    *)
(* 0 is a date that is not there, Garbled text that is no date.  Rows of   *)
(* one filing share accn and filed.                                        *)
(***************************************************************************)
EXTENDS Ordering, Sequences, FiniteSetsExt, Functions

CONSTANTS Payloads,   \* functions from Tags to sequences of rows
          YearsAsked  \* 0 asks for the latest year

VARIABLES payload, asked, package

factsVars == <<payload, asked, package>>

DurationTags == <<"Revenues", "RevenueFromContractWithCustomer", "NetIncomeLoss">>
InstantTags == <<"Assets">>
Tags == Range(DurationTags) \cup Range(InstantTags)

\* The rows of the response, with a stand-in for what a row does not have.
RowRecords ==
    [fp : STRING, start : Nat, end : Nat, fy : Int, filed : Nat, accn : STRING,
     val : {"none", "text", "number"}]

ASSUME FactsAssumption == Payloads \subseteq [Tags -> Seq(RowRecords)]

Garbled == 99       \* as text it sorts after every date
NoYear == 0
BadYear == -1       \* a fiscal year that is null or no number

\* The years a ReportingPeriod takes: 1900 to 2100 in the code.
MinYear == 1
MaxYear == 8

Unread == [outcome |-> "unread"]
NothingFound == [outcome |-> "none"]     \* None: the caller falls back
Raised == [outcome |-> "raised"]         \* ValueError of ReportingPeriod

FactsInit == payload \in Payloads /\ asked \in YearsAsked /\ package = Unread

-----------------------------------------------------------------------------
(* _select_fy_row *)

IsCandidate(row, tag) ==
    /\ row.fp = "FY" /\ row.end # 0 /\ row.val # "none"
    /\ tag \in Range(DurationTags) => row.start # 0
    /\ asked # 0 => row.fy = asked

SortYear(row) == IF row.fy = BadYear THEN 0 ELSE row.fy

RowKey(row) == <<row.filed, row.end, SortYear(row)>>

Above(r, s) == Precedes(RowKey(s), RowKey(r))

\* max(): the first of the greatest.
SelectFyRow(tag) ==
    LET rows == payload[tag]
        candidates == {i \in DOMAIN rows : IsCandidate(rows[i], tag)}
        best == {i \in candidates : \A j \in candidates : ~Above(rows[j], rows[i])}
    IN IF candidates = {} THEN NothingFound
       ELSE [outcome |-> "row", row |-> rows[Min(best)]]

(* _extract_fact.  A year that is missing is the year the period ends in.     *)
YearOf(date) == date \div 10

FiscalYear(row) == IF row.fy = NoYear THEN YearOf(row.end) ELSE row.fy

StartOf(row, tag) == IF tag \in Range(DurationTags) THEN row.start ELSE 0

Unreadable(row, tag) ==
    row.val = "text" \/ row.fy = BadYear \/ Garbled \in {row.end, StartOf(row, tag)}

\* ReportingPeriod raises.
Refused(row, tag) == FiscalYear(row) \notin MinYear..MaxYear \/ StartOf(row, tag) > row.end

FactFrom(row, tag) ==
    CASE Unreadable(row, tag) -> NothingFound
      [] ~Unreadable(row, tag) /\ Refused(row, tag) -> Raised
      [] OTHER -> [outcome |-> "fact", tag |-> tag, start |-> StartOf(row, tag), end |-> row.end,
                   fy |-> FiscalYear(row), filed |-> IF row.filed = Garbled THEN 0 ELSE row.filed,
                   accn |-> row.accn]

ExtractFact(tag) ==
    LET selected == SelectFyRow(tag) IN
    IF selected = NothingFound THEN NothingFound ELSE FactFrom(selected.row, tag)

\* A tag is looked at when no tag of its concept before it gave a fact: both
\* revenue tags are revenue.
Considered(tag) ==
    tag = "RevenueFromContractWithCustomer" => ExtractFact("Revenues").outcome # "fact"

FactsOf(tags) ==
    LET facts == [i \in DOMAIN tags |-> ExtractFact(tags[i])] IN
    AtPlaces(facts, {i \in DOMAIN tags : facts[i].outcome = "fact" /\ Considered(tags[i])})

-----------------------------------------------------------------------------
(* _parse_package *)

Period(f) == [start |-> f.start, end |-> f.end, fy |-> f.fy]

Newer(p, q) == Precedes(<<q.end, q.fy>>, <<p.end, p.fy>>)

ReportingPeriod(facts) ==
    LET best == {i \in DOMAIN facts :
                   \A j \in DOMAIN facts : ~Newer(Period(facts[j]), Period(facts[i]))}
    IN Period(facts[Min(best)])

\* Faulty variant: the accession number of whichever fact comes first.
FirstOfPeriod(facts) == IF facts = <<>> THEN 0 ELSE 1

\* The fact of the period that was filed last gives date and accession number.
LatestFiled(facts) ==
    LET dated == {i \in DOMAIN facts : facts[i].filed # 0}
        last == {i \in dated : \A j \in dated : facts[j].filed <= facts[i].filed}
    IN IF dated = {} THEN 0 ELSE Min(last)

Parsed ==
    LET income == FactsOf(DurationTags)
        period == ReportingPeriod(income)
        ofPeriod == AtPlaces(income, {i \in DOMAIN income : Period(income[i]) = period})
        instant == FactsOf(InstantTags)
        balance == AtPlaces(instant, {i \in DOMAIN instant :
                       instant[i].fy = period.fy /\ instant[i].end = period.end})
        filing == LatestFiled(ofPeriod)
    IN CASE \E tag \in Tags : Considered(tag) /\ ExtractFact(tag) = Raised -> Raised
         [] (\A tag \in Tags : Considered(tag) => ExtractFact(tag) # Raised)
              /\ income = <<>> -> NothingFound
         [] OTHER ->
              [outcome |-> "package", period |-> period, income |-> ofPeriod,
               balance |-> balance,
               filed |-> IF filing = 0 THEN 0 ELSE ofPeriod[filing].filed,
               accn |-> IF filing = 0 THEN "none" ELSE ofPeriod[filing].accn]

\* get_financial_package, once companyfacts has answered.
ParsePackage ==
    /\ package = Unread
    /\ package' = Parsed
    /\ UNCHANGED <<payload, asked>>

FactsNext == ParsePackage

FactsSpec == FactsInit /\ [][FactsNext]_factsVars

-----------------------------------------------------------------------------
(* Properties *)

Rows(tag) == Range(payload[tag])

IncomeRows == UNION {Rows(tag) : tag \in Range(DurationTags)}

\* f was read from this row.
ReadFrom(f, row) ==
    /\ f.end = row.end /\ f.fy = FiscalYear(row) /\ f.accn = row.accn
    /\ f.tag \in Range(DurationTags) => f.start = row.start
    /\ f.filed = IF row.filed = Garbled THEN 0 ELSE row.filed

\* Both rows give an annual value of the tag for the same period.
Restates(other, row, tag) ==
    /\ other.fp = "FY" /\ other.val # "none"
    /\ other.end = row.end /\ other.fy = row.fy
    /\ tag \in Range(DurationTags) => other.start = row.start

\* A fact that was read from a row of its own tag, where no row that restates it
\* sorts as filed later.
Traceable(f) ==
    \E row \in Rows(f.tag) :
        /\ ReadFrom(f, row)
        /\ \A other \in Rows(f.tag) : Restates(other, row, f.tag) => other.filed <= row.filed

TraceablePackage(p) ==
    LET facts == p.income \o p.balance IN
    /\ asked # 0 => p.period.fy = asked
    /\ Len(p.income) > 0
    /\ \A i \in DOMAIN p.income : Period(p.income[i]) = p.period
    /\ \A i \in DOMAIN facts :
          /\ facts[i].end = p.period.end /\ facts[i].fy = p.period.fy
          /\ Traceable(facts[i])
    /\ \A i \in DOMAIN p.income : p.income[i].filed <= p.filed
    /\ p.filed = 0 => p.accn = "none"
    /\ p.filed # 0 => \E i \in DOMAIN p.income :
          p.income[i].filed = p.filed /\ p.income[i].accn = p.accn

\* Every figure of a package can be traced and none is superseded: the figures
\* are of the one period, which is of the year asked for; each was read from
\* a row of its own tag, and no row that restates it sorts as filed later; the
\* filing date and the accession number shown are together those of one of the
\* package's own income figures, and no income figure was filed after it.
\* They need not be of one filing, although the code gives them all one
\* filing_id: a figure that an amendment does not restate keeps its own, and a
\* balance figure may be of a filing later than the one shown.
PackageIsTraceable == package.outcome = "package" => TraceablePackage(package)

\* "when fiscal_year is omitted, the adapter returns the latest available
\* authoritative reporting period for the company"
\* (application/financial_snapshot.py:30): no annual income figure that can be
\* read is of a later period.
LatestPeriod ==
    (package.outcome = "package" /\ asked = 0) =>
        \A row \in IncomeRows :
            (/\ row.fp = "FY" /\ row.val = "number" /\ row.fy \notin {NoYear, BadYear}
             /\ {row.start, row.end, row.filed} \cap {0, Garbled} = {}
             /\ row.start <= row.end)
            => row.end <= package.period.end

=============================================================================
