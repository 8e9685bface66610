------------------------------- MODULE Synthesis -------------------------------
(***************************************************************************)
(* POST /research/synthesis: every claim of the request is verified, the   *)
(* company is resolved, VerifiedClaimGate decides how each claim may be    *)
(* said, DeterministicSynthesisAssembler builds the document and           *)
(* DeterministicResearchReportGenerator renders it.  Each verification and *)
(* the assembly read the clock for themselves, and a day limit may pass    *)
(* between two readings.                                                   *)
(*                                                                         *)
(* An item of a request is [id, claim, refs, section, materiality, kind,   *)
(* advice, identity, contexts, reason]: advice says whether the text       *)
(* matches the no-advice pattern, identity and contexts whether the ids    *)
(* given with the claim and with its sources fit the company.  Kinds that  *)
(* every rule treats alike share a name.  Texts and layout are left out.   *)
(***************************************************************************)
EXTENDS ClaimRules, Ordering, Functions

CONSTANTS Requests,      \* [items, resolved, format]
          MaxSummary,    \* max_summary_items
          Today          \* days the request may begin and end on

ASSUME SummaryAssumption == MaxSummary \in 1..10 /\ Today \subseteq Nat

\* Sections and materialities are numbered in the order of their enumerations.
ItemRecords ==
    [id : Nat, claim : ClaimRecords, refs : Seq(EvidenceRecords), section : 1..8,
     materiality : 1..3,
     kind : {"revenue", "margin", "market_price", "market_change",
             "regulatory_action", "material_event", "other"},
     advice : BOOLEAN, identity : {"ok", "foreign"}, contexts : {"ok", "foreign"},
     reason : STRING]

ASSUME RequestsAssumption ==
    Requests \subseteq [items : Seq(ItemRecords), resolved : BOOLEAN,
                       format : {"none", "structured_json", "markdown", "docx", "unknown"}]

VARIABLES
    request,
    now,
    results,    \* verifications of the first claims
    document,   \* the synthesis; NoDocument until it is assembled
    report,     \* what the rendered report says
    reply       \* status of the answer; 0 while there is none

synthesisVars == <<request, now, results, document, report, reply>>

NoDocument == [status |-> "NONE"]
NoReport == [format |-> "none"]

Items == request.items

-----------------------------------------------------------------------------
(* VerifiedClaimInput *)

\* _evidence_fingerprint leaves out the id, the tier and the retrieval time.
Fingerprint(r) == [r EXCEPT !.id = 0, !.tier = 0, !.retrieved = 0]

SemanticDuplicates(refs) ==
    \E i, j \in References(refs) : i # j /\ Fingerprint(refs[i]) = Fingerprint(refs[j])

Accepting == {"VERIFIED", "PARTIALLY_VERIFIED", "STALE"}

\* _validate_material_claim: what an accepted claim of this kind must state.
MaterialComplete(c, kind) ==
    CASE kind = "revenue" -> c.expected # "none" /\ c.unit /\ c.currency /\ c.period
      [] kind = "margin" -> c.expected # "none" /\ c.unit
      [] kind = "market_price" -> c.expected # "none" /\ c.currency /\ c.asOf # Undated
      [] kind = "market_change" -> c.expected # "none" /\ c.unit /\ c.asOf # Undated
      [] OTHER -> TRUE

\* The constructor's checks, in the presence of a verification it recomputes.
Admissible(item, result) ==
    LET side(name) == Classified(item.claim, item.refs, name) IN
    /\ result.status \in Accepting \cup {"CONFLICTING"} => side("SUPPORTING") # {}
    /\ result.status \in {"CONTRADICTED", "CONFLICTING"} => side("CONTRADICTING") # {}
    /\ Verify(item.claim, item.refs, result.at) = result
    /\ ~SemanticDuplicates(item.refs)
    /\ item.contexts = "ok"
    /\ result.status \in Accepting => MaterialComplete(item.claim, item.kind)

-----------------------------------------------------------------------------
(* VerifiedClaimGate *)

\* _freshness: 24 hours for market figures, none for what has a period.
Freshness(item, result, day) ==
    LET c == item.claim IN
    IF result.status = "STALE" THEN "STALE"
    ELSE IF item.kind \in {"market_price", "market_change"}
        THEN IF c.asOf = Undated \/ day - c.asOf > 1 THEN "STALE" ELSE "CURRENT"
    ELSE IF item.kind \in {"revenue", "margin"} /\ (c.period \/ c.asOf # Undated)
        THEN "HISTORICAL"
    ELSE "UNSPECIFIED"

\* Faulty variant: authority is required of the evidence, whatever it says.
AnyAuthority(item) ==
    \E i \in References(item.refs) :
        item.refs[i].tier <= (IF item.kind = "material_event" THEN 3 ELSE 2)

\* _material_authority_is_sufficient
AuthorityIsSufficient(item) ==
    \E i \in Classified(item.claim, item.refs, "SUPPORTING") :
        item.refs[i].tier <= (IF item.kind = "material_event" THEN 3 ELSE 2)

\* _render, the decision without the sentence.
Disposition(item, result, day) ==
    IF item.advice THEN "POLICY_EXCLUDED"
    ELSE IF item.kind # "other" /\ ~AuthorityIsSufficient(item) THEN "INSUFFICIENT"
    ELSE IF Freshness(item, result, day) = "STALE" THEN "STALE"
    ELSE CASE result.status = "VERIFIED" -> "FACTUAL"
           [] result.status = "PARTIALLY_VERIFIED" -> "QUALIFIED"
           [] result.status = "CONFLICTING" -> "CONFLICT"
           [] result.status = "CONTRADICTED" -> "CONTRADICTED"
           [] OTHER -> "INSUFFICIENT"

\* confidence_label, and STALE over it; thresholds 0.8 and 0.6.
Label(item, result, day) ==
    CASE Freshness(item, result, day) = "STALE" -> "STALE"
      [] result.status \in {"CONFLICTING", "CONTRADICTED"} -> result.status
      [] result.status = "UNVERIFIABLE" -> "INSUFFICIENT"
      [] OTHER -> IF result.score >= 96 THEN "HIGH"
                  ELSE IF result.score >= 72 THEN "MODERATE" ELSE "LOW"

\* Faulty variant: a conflict cites the side that supports the claim.
CitesSupport(item, result) ==
    IF result.status \in {"CONTRADICTED", "UNVERIFIABLE"} THEN References(item.refs)
    ELSE Classified(item.claim, item.refs, "SUPPORTING")

\* _citation_evidence, on the bundle as classified without a clock.
Citations(item, result) ==
    LET side(name) == Classified(item.claim, item.refs, name) IN
    CASE result.status \in Accepting -> side("SUPPORTING")
      [] result.status = "CONFLICTING" -> side("SUPPORTING") \cup side("CONTRADICTING")
      [] result.status = "CONTRADICTED" -> side("CONTRADICTING")
      [] OTHER -> References(item.refs)

\* _missing_context: the caller's reason wins.
Missing(item, disposition) ==
    IF item.reason # "none" THEN item.reason
    ELSE CASE disposition = "CONFLICT" -> "conflicting"
           [] disposition = "INSUFFICIENT" -> "insufficient_evidence"
           [] disposition = "CONTRADICTED" -> "unresolved"
           [] disposition = "STALE" -> "stale"
           [] disposition = "POLICY_EXCLUDED" -> "not_applicable"
           [] OTHER -> "none"

\* _validate_identity and the check on as_of; their ValueError ends the
\* synthesis.
GateAdmits(item, day) == item.identity = "ok" /\ item.claim.asOf <= day

Gated(item, result, day) ==
    [id |-> item.id, section |-> item.section, materiality |-> item.materiality,
     disposition |-> Disposition(item, result, day),
     label |-> Label(item, result, day), score |-> result.score,
     citations |-> Citations(item, result),
     contradictions |-> result.contradictions,
     missing |-> Missing(item, Disposition(item, result, day))]

-----------------------------------------------------------------------------
(* DeterministicSynthesisAssembler *)

Group == [FACTUAL |-> 0, CONFLICT |-> 1, CONTRADICTED |-> 1, STALE |-> 2,
          INSUFFICIENT |-> 2, QUALIFIED |-> 3, POLICY_EXCLUDED |-> 4]

\* Faulty variant: by materiality first.
MaterialFirst(c) == <<c.materiality, Group[c.disposition], 0 - c.score, c.id>>

\* _summary_sort_key
SummaryKey(c) == <<Group[c.disposition], c.materiality, 0 - c.score, c.id>>

\* Claims in the order of sections, materiality and id.
Ordered(claims) ==
    InSequence(claims, LAMBDA a, b :
        Precedes(<<a.section, a.materiality, a.id>>, <<b.section, b.materiality, b.id>>))

Summary(claims) ==
    LET ranked == InSequence({c \in claims : c.disposition # "POLICY_EXCLUDED"},
                             LAMBDA a, b : Precedes(SummaryKey(a), SummaryKey(b)))
    IN SubSeq(ranked, 1, IF Len(ranked) < MaxSummary THEN Len(ranked) ELSE MaxSummary)

Factual == {"FACTUAL", "QUALIFIED"}

\* Faulty variant: one fact makes a synthesis complete.
CompleteIfAny(claims) ==
    IF \E c \in claims : c.disposition \in Factual THEN "COMPLETE" ELSE "INSUFFICIENT"

SynthesisStatus(claims) ==
    IF \A c \in claims : c.disposition \in Factual THEN "COMPLETE"
    ELSE IF \E c \in claims : c.disposition \in Factual THEN "PARTIAL"
    ELSE "INSUFFICIENT"

Assembled(items, verifications, day) ==
    LET claims == {Gated(items[i], verifications[i], day) : i \in 1..Len(items)} IN
    [status |-> SynthesisStatus(claims), claims |-> Ordered(claims),
     summary |-> Summary(claims)]

-----------------------------------------------------------------------------
(* The report, as what it tells its reader about each claim *)

ClaimLines(claims) ==
    {[id |-> c.id, disposition |-> c.disposition, label |-> c.label,
      evidence |-> c.citations] : c \in claims}

\* What every format prints from the document's own lists, beside the claims.
Appendix(claims) ==
    [sources |-> UNION {{<<c.id, i>> : i \in c.citations} : c \in claims},
     conflicts |-> UNION {{<<c.id, p>> : p \in c.contradictions} : c \in claims},
     missing |-> {<<c.id, c.missing>> : c \in {d \in claims : d.missing # "none"}}]

\* _json_content: the synthesis as it is.
JsonContent(d) ==
    [format |-> "structured_json", claims |-> ClaimLines(Range(d.claims)),
     summary |-> ClaimLines(Range(d.summary)), appendix |-> Appendix(Range(d.claims))]

\* _markdown_content: section by section, in their fixed order.
MarkdownContent(d) ==
    [format |-> "markdown",
     claims |-> UNION {ClaimLines({c \in Range(d.claims) : c.section = s}) : s \in 1..8},
     summary |-> ClaimLines(Range(d.summary)), appendix |-> Appendix(Range(d.claims))]

\* _docx_body: as Markdown, but the summary names no evidence.
DocxBody(d) ==
    [format |-> "docx",
     claims |-> UNION {ClaimLines({c \in Range(d.claims) : c.section = s}) : s \in 1..8},
     summary |-> {[l EXCEPT !.evidence = {}] : l \in ClaimLines(Range(d.summary))},
     appendix |-> Appendix(Range(d.claims))]

Rendered(d, format) ==
    CASE format = "structured_json" -> JsonContent(d)
      [] format = "markdown" -> MarkdownContent(d)
      [] format = "docx" -> DocxBody(d)
      [] OTHER -> NoReport

-----------------------------------------------------------------------------
(* One request *)

SynthesisInit ==
    /\ request \in Requests
    /\ now \in Today
    /\ results = <<>>
    /\ document = NoDocument
    /\ report = NoReport
    /\ reply = 0

\* _verified_claim: VerifyClaimUseCase, then VerifiedClaimInput; a ValueError
\* of either is a 400.
VerifyNextClaim ==
    /\ reply = 0 /\ Len(results) < Len(Items)
    /\ LET item == Items[Len(results) + 1]
           result == Verify(item.claim, item.refs, now)
       IN IF IF result.status = "REFUSED" THEN TRUE ELSE ~Admissible(item, result)
          THEN reply' = 400 /\ UNCHANGED results
          ELSE results' = Append(results, result) /\ UNCHANGED reply
    /\ UNCHANGED <<request, now, document, report>>

SameClaimTwice == \E i, j \in 1..Len(Items) : i # j /\ Items[i].id = Items[j].id

\* GenerateResearchSynthesis.execute, and the report the request asks for.
Synthesize ==
    /\ reply = 0 /\ Len(results) = Len(Items) /\ document = NoDocument
    /\ IF ~request.resolved
           THEN reply' = 409 /\ UNCHANGED <<document, report>>
       ELSE IF SameClaimTwice \/ \E i \in 1..Len(Items) : ~GateAdmits(Items[i], now)
           THEN reply' = 400 /\ UNCHANGED <<document, report>>
       ELSE /\ document' = Assembled(Items, results, now)
            /\ IF request.format = "unknown"
               THEN reply' = 400 /\ UNCHANGED report
               ELSE /\ report' = Rendered(document', request.format)
                    /\ reply' = 200
    /\ UNCHANGED <<request, now, results>>

\* An age limit passes between two readings of the clock.
DayPasses ==
    /\ reply = 0 /\ now + 1 \in Today
    /\ now' = now + 1
    /\ UNCHANGED <<request, results, document, report, reply>>

SynthesisNext == VerifyNextClaim \/ Synthesize \/ DayPasses

SynthesisSpec == SynthesisInit /\ [][SynthesisNext]_synthesisVars

-----------------------------------------------------------------------------
(* Properties *)

ItemOf(id) == CHOOSE i \in 1..Len(Items) : Items[i].id = id

Published == reply = 200

\* A sentence printed as plain fact has evidence behind it: a source that says
\* so, none retrieved by then that denies it, for a material claim a cited
\* source of the required tier, and for a market figure a date of at most one
\* day before the document's; whatever other claims are in the request and
\* whenever the days changed.
FactsAreProven ==
    Published => \A n \in 1..Len(document.claims) :
        document.claims[n].disposition = "FACTUAL" =>
            LET c == document.claims[n]
                i == ItemOf(c.id)
                item == Items[i]
            IN /\ \E k \in c.citations : item.refs[k].relevant
                     /\ item.refs[k].retrieved <= results[i].at
               /\ \A k \in References(item.refs) :
                     Match(item.claim, item.refs[k]) = "CONTRADICTING" =>
                        item.refs[k].retrieved > results[i].at
               /\ item.kind # "other" => \E k \in c.citations :
                     /\ Match(item.claim, item.refs[k]) = "SUPPORTING"
                     /\ item.refs[k].tier <= (IF item.kind = "material_event" THEN 3 ELSE 2)
               /\ item.kind \in {"market_price", "market_change"} =>
                     item.claim.asOf # Undated /\ now - item.claim.asOf \in 0..1
               /\ ~item.advice

\* The document never hides a side of a disagreement: every reference named by
\* a recorded contradiction is cited with its claim and listed as a source, in
\* whichever format the report is rendered, and so is everything that speaks
\* against a claim shown as a conflict.
DisagreementIsCited ==
    Published => \A n \in 1..Len(document.claims) :
        LET c == document.claims[n]
            item == Items[ItemOf(c.id)]
            against == {k \in References(item.refs) :
                          Match(item.claim, item.refs[k]) = "CONTRADICTING"}
            named == UNION {{p[1], p[2]} : p \in c.contradictions}
        IN /\ named \subseteq c.citations
           /\ c.disposition = "CONFLICT" => against \subseteq c.citations
           /\ report # NoReport =>
                /\ \E l \in report.claims : l.id = c.id /\ l.evidence = c.citations
                                            /\ l.disposition = c.disposition
                /\ \A k \in named : <<c.id, k>> \in report.appendix.sources

\* The executive summary leaves no fact out in favour of a claim that is not
\* one, and never shows an excluded claim.
SummaryKeepsFacts ==
    Published => \A n \in 1..Len(document.claims) :
        document.claims[n].disposition = "FACTUAL"
          /\ document.claims[n] \notin Range(document.summary) =>
            /\ Len(document.summary) = MaxSummary
            /\ \A k \in 1..MaxSummary : document.summary[k].disposition = "FACTUAL"

\* A synthesis that calls itself complete has an answer for each claim of the
\* request, and none of them rests on evidence that is contradicted, stale,
\* insufficient or withheld.
CompleteIsWhole ==
    Published /\ document.status = "COMPLETE" =>
        /\ {document.claims[n].id : n \in 1..Len(document.claims)}
             = {Items[i].id : i \in 1..Len(Items)}
        /\ \A n \in 1..Len(document.claims) :
             /\ document.claims[n].contradictions = {}
             /\ document.claims[n].label \in {"HIGH", "MODERATE", "LOW"}

=============================================================================
