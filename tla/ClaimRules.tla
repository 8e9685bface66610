------------------------------ MODULE ClaimRules ------------------------------
(***************************************************************************)
(* Claim verification: EvidenceBundle.classify and VerificationEngine, as  *)
(* functions of a claim, the evidence submitted with it, and the time.     *)
(*                                                                         *)
(* A claim is [type, expected, unit, currency, period, asOf, negated,      *)
(* hedged, long]: unit, currency and period say whether one is expected.   *)
(* An evidence reference is [id, source, tier, relevant, value, unit,      *)
(* currency, period, asOf, retrieved, negated, hedged].  Texts are reduced *)
(* to what the lexical rules find in them: whether enough keywords of the  *)
(* claim occur, whether a negation or a hedge does.  Dates are days.       *)
(*                                                                         *)
(* A score is counted in 120ths.  For bundles of up to four references     *)
(* every term of the code's sum is a whole number of them, and rounding in *)
(* the code's 28-digit decimals moves no sum across a threshold.           *)
(***************************************************************************)
EXTENDS Integers, Sequences, FiniteSets

CONSTANT MaxAge   \* max_evidence_age_days

ASSUME MaxAgeAssumption == MaxAge \in Nat

Undated == 0 - 1

\* ClaimVerificationInput and EvidenceReference as their constructors admit
\* them.
ClaimRecords ==
    [type : {"numeric", "prose"}, expected : STRING, unit : BOOLEAN,
     currency : BOOLEAN, period : BOOLEAN, asOf : Int, negated : BOOLEAN,
     hedged : BOOLEAN, long : BOOLEAN]
EvidenceRecords ==
    [id : Nat, source : STRING, tier : 1..4, relevant : BOOLEAN, value : STRING,
     unit : STRING, currency : STRING, period : STRING, asOf : Int,
     retrieved : Int, negated : BOOLEAN, hedged : BOOLEAN]

References(refs) == 1..Len(refs)

\* supports_claim: enough of the claim's keywords occur in the snippet.
Relevant(r) == r.relevant

\* _assess_polarity: a negation on one side only is a conflict; two of them, or
\* a hedge, leave it open.
Polarity(c, r) ==
    IF c.negated /\ r.negated THEN "AMBIGUOUS"
    ELSE IF c.negated # r.negated THEN "CONFLICT"
    ELSE IF c.hedged \/ r.hedged THEN "AMBIGUOUS"
    ELSE "CLEAR"

\* _context_matches: what is expected is there, in any case for unit and
\* currency; a period must be the same text.
ContextMatches(c, r) ==
    /\ c.unit => r.unit \in {"same", "other_case"}
    /\ c.currency => r.currency \in {"same", "other_case"}
    /\ c.period => r.period = "same"

\* Values compare as numbers or as normalised texts; "nonfinite" is NaN or an
\* infinity and equals nothing.
SameValue(c, r) == c.expected # "nonfinite" /\ r.value = c.expected

\* _evaluate_match, for a reference that supports_claim lets through.
Match(c, r) ==
    IF ~Relevant(r) THEN "NEUTRAL"
    ELSE IF c.expected # "none"
        THEN IF SameValue(c, r) /\ ContextMatches(c, r) THEN "SUPPORTING"
             ELSE "CONTRADICTING"
    ELSE IF c.type = "numeric" THEN "CONTRADICTING"
    ELSE CASE Polarity(c, r) = "CONFLICT" -> "CONTRADICTING"
           [] Polarity(c, r) = "AMBIGUOUS" -> "NEUTRAL"
           [] OTHER -> "SUPPORTING"

\* EvidenceBundle.classify
Classified(c, refs, side) == {i \in References(refs) : Match(c, refs[i]) = side}

\* verify() sets aside what claims to have been retrieved after now.
Retrieved(r, now) == r.retrieved <= now

Supporting(c, refs, now) ==
    {i \in Classified(c, refs, "SUPPORTING") : Retrieved(refs[i], now)}
Contradicting(c, refs, now) ==
    {i \in Classified(c, refs, "CONTRADICTING") : Retrieved(refs[i], now)}

Within(date, now) == date # Undated /\ now - date \in 0..MaxAge

Largest(S) == CHOOSE n \in S : \A k \in S : k <= n

Weight == <<120, 84, 60, 24>>

Factor(holds, score) == IF holds THEN score ELSE 0

\* Faulty variant: everything submitted lends its authority.
AnySource(c, refs, now) == References(refs)

\* The references whose authority and diversity count.
Lending(c, refs, now) == Supporting(c, refs, now)

\* _compute_confidence, before the clamp.
RawScore(c, refs, now) ==
    LET supporting == Supporting(c, refs, now)
        n == Cardinality(supporting)
        recent == {i \in supporting :
                     Within(refs[i].asOf, now) \/ Within(refs[i].retrieved, now)}
        tiers == {refs[i].tier : i \in Lending(c, refs, now)}
        complete == \A i \in supporting :
                      /\ refs[i].value # "none"
                      /\ refs[i].unit # "none" \/ c.unit
                      /\ refs[i].currency # "none" \/ c.currency
        exact == \A i \in supporting :
                   /\ c.unit => refs[i].unit = "same"
                   /\ c.currency => refs[i].currency = "same"
    IN Largest({Weight[t] : t \in tiers})
       + (36 * Cardinality(recent)) \div n
       + ((IF Contradicting(c, refs, now) = {} THEN 36 ELSE 12) * n) \div Len(refs)
       + Factor({1, 2} \subseteq tiers, 12)
       + Factor(c.type = "numeric" /\ complete, 12)
       + Factor(c.period /\ \E i \in supporting : refs[i].period = "same", 6)
       + Factor((c.unit \/ c.currency) /\ exact, 6)

Score(c, refs, now) ==
    IF Supporting(c, refs, now) = {} THEN 0
    ELSE IF RawScore(c, refs, now) > 120 THEN 120 ELSE RawScore(c, refs, now)

\* Faulty variant: retrieving an old figure again makes it fresh.
RetrievedLately(r, now) == Within(r.retrieved, now)

\* A reference is dated by what it states, or else by its retrieval.
FreshReference(r, now) ==
    Within(IF r.asOf # Undated THEN r.asOf ELSE r.retrieved, now)

\* _determine_status, with the default thresholds 0.7 and 0.4.
Status(c, refs, now) ==
    LET supporting == Supporting(c, refs, now)
        contradicting == Contradicting(c, refs, now)
        stale == \A i \in supporting : ~FreshReference(refs[i], now)
        score == Score(c, refs, now)
    IN CASE supporting # {} /\ contradicting # {} -> "CONFLICTING"
         [] supporting # {} /\ contradicting = {} /\ stale -> "STALE"
         [] supporting # {} /\ contradicting = {} /\ ~stale ->
               IF score >= 84 THEN "VERIFIED"
               ELSE IF score >= 48 THEN "PARTIALLY_VERIFIED" ELSE "UNVERIFIABLE"
         [] supporting = {} /\ contradicting # {} -> "CONTRADICTED"
         [] OTHER -> "UNVERIFIABLE"

\* _detect_contradictions: pairs whose values are both stated and differ.
Contradictions(c, refs, now) ==
    {p \in Supporting(c, refs, now) \X Contradicting(c, refs, now) :
        /\ refs[p[1]].value # "none" /\ refs[p[2]].value # "none"
        /\ refs[p[1]].value # refs[p[2]].value \/ refs[p[1]].value = "nonfinite"}

\* Faulty variant: partial verification stops the critic.
AsksUnlessPartial(status) ==
    status \notin {"VERIFIED", "PARTIALLY_VERIFIED"}

\* _generate_critic_requests: one request for every status but VERIFIED.
AsksForMore(status) == status # "VERIFIED"

SameIds(refs) ==
    \E i, j \in References(refs) : i # j /\ refs[i].id = refs[j].id

Refused == [status |-> "REFUSED"]

\* CriticRequest raises ValueError for a query of over 500 characters, and the
\* query is the claim's text with a few words before it.
CannotAsk(c, status) == AsksForMore(status) /\ c.long

\* verify(); ValueError for a repeated evidence id or a request that cannot be.
Verify(c, refs, now) ==
    IF SameIds(refs) \/ CannotAsk(c, Status(c, refs, now)) THEN Refused
    ELSE [status |-> Status(c, refs, now),
          score |-> Score(c, refs, now),
          contradictions |-> Contradictions(c, refs, now),
          requests |-> IF AsksForMore(Status(c, refs, now)) THEN 1 ELSE 0,
          at |-> now]

\* assess_critic, for a budget that is not overspent; ValueError when there is
\* nothing to ask for.
Assess(result, used, budget) ==
    IF result.status = "VERIFIED" THEN "SUFFICIENT_EVIDENCE"
    ELSE IF used = budget THEN "ATTEMPTS_EXHAUSTED"
    ELSE IF result.requests = 0 THEN "RAISED"
    ELSE "RESEARCH_REQUIRED"

=============================================================================
