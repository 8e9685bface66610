------------------------------ MODULE CriticLoop ------------------------------
(***************************************************************************)
(* The critic cycle the engine's verify and assess_critic are made for:    *)
(* verify a claim, ask the critic whether to go on, research once more     *)
(* while it says so, verify again.  The caller that owns the cycle is      *)
(* external: no code of the application calls assess_critic yet.           *)
(***************************************************************************)
EXTENDS ClaimRules

CONSTANTS Claims, Evidence, MaxEvidence, MaxAttempts, LastDay

ASSUME CriticAssumption ==
    /\ Claims \subseteq ClaimRecords /\ Evidence \subseteq EvidenceRecords
    /\ MaxEvidence \in Nat /\ MaxAttempts \in Nat /\ LastDay \in Nat

VARIABLES
    claim, evidence,
    day,       \* now
    used,      \* attempts the caller has made
    result,    \* the latest verification
    verdict    \* the critic's latest assessment

criticVars == <<claim, evidence, day, used, result, verdict>>

Verified(c, refs, now, n) ==
    /\ result' = Verify(c, refs, now)
    /\ verdict' = IF result'.status = "REFUSED" THEN "RAISED"
                  ELSE Assess(result', n, MaxAttempts)

CriticInit ==
    /\ claim \in Claims
    /\ evidence = <<>>
    /\ day \in 1..LastDay
    /\ used = 0
    /\ result = Verify(claim, <<>>, day)
    /\ verdict = IF result.status = "REFUSED" THEN "RAISED"
                 ELSE Assess(result, 0, MaxAttempts)

\* One attempt at re-research found one more reference, or nothing.
Research(found) ==
    /\ verdict = "RESEARCH_REQUIRED"
    /\ Len(evidence) < MaxEvidence
    /\ evidence' = IF found.id = 0 THEN evidence
                   ELSE Append(evidence, [found EXCEPT !.id = Len(evidence) + 1])
    /\ used' = used + 1
    /\ Verified(claim, evidence', day, used')
    /\ UNCHANGED <<claim, day>>

\* Time passes and the same evidence is verified again.
Reverify ==
    /\ verdict # "RAISED" /\ day < LastDay
    /\ day' = day + 1
    /\ Verified(claim, evidence, day', used)
    /\ UNCHANGED <<claim, evidence, used>>

CriticNext == (\E r \in Evidence : Research(r)) \/ Reverify

CriticSpec == CriticInit /\ [][CriticNext]_criticVars

-----------------------------------------------------------------------------
(* Properties *)

\* Evidence that does not support the claim, because it contradicts it, is
\* beside the point, hedges, or is dated in the future, never raises the
\* score, and never makes a claim verified that was not.
DoubtNeverHelps ==
    [][day' = day /\ result.status # "REFUSED" /\ result'.status # "REFUSED"
         /\ Supporting(claim, evidence', day) = Supporting(claim, evidence, day) =>
            /\ result'.score <= result.score
            /\ result'.status = "VERIFIED" => result.status = "VERIFIED"]_criticVars

\* The cycle never gets stuck between its two halves: for a claim of ordinary
\* length, a result that is not definitive comes with something to research,
\* so the critic either stops it, on VERIFIED or at the end of the budget, or
\* can say what to look for.
CriticNeverStuck ==
    ~claim.long =>
        /\ verdict # "RAISED"
        /\ verdict = "RESEARCH_REQUIRED" => used < MaxAttempts
        /\ verdict = "SUFFICIENT_EVIDENCE" <=> result.status = "VERIFIED"

\* What is verified is verified by something: at least one reference that
\* says what the claim says and was true within the age limit, and none
\* retrieved by now that says otherwise.
VerifiedIsGrounded ==
    result.status = "VERIFIED" =>
        /\ \E i \in References(evidence) :
              LET r == evidence[i] IN
              /\ r.relevant /\ r.retrieved <= day
              /\ r.asOf # Undated => r.asOf <= day /\ day - r.asOf <= MaxAge
              /\ claim.type = "numeric" => r.value = claim.expected
        /\ ~\E i \in References(evidence) :
              /\ evidence[i].retrieved <= day
              /\ Match(claim, evidence[i]) = "CONTRADICTING"

=============================================================================
