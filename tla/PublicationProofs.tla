--------------------------- MODULE PublicationProofs ---------------------------
(***************************************************************************)
(* Proofs about claim verification and its two users, CriticLoop and       *)
(* Synthesis, for every claim, list of references and age limit.           *)
(***************************************************************************)
EXTENDS CriticLoop, Synthesis, Recursion

-----------------------------------------------------------------------------
(* Sides and statuses *)

\* The two sides of a bundle are different references of it.
LEMMA SidesFacts ==
    ASSUME NEW c, NEW refs, NEW at
    PROVE  /\ Supporting(c, refs, at) \subseteq Classified(c, refs, "SUPPORTING")
           /\ Contradicting(c, refs, at) \subseteq Classified(c, refs, "CONTRADICTING")
           /\ Classified(c, refs, "SUPPORTING") \subseteq References(refs)
           /\ Classified(c, refs, "CONTRADICTING") \subseteq References(refs)
  BY DEF Supporting, Contradicting, Classified

\* What is verified has support that is fresh, and nothing against it.
LEMMA VerifiedSides ==
    ASSUME NEW c, NEW refs, NEW at, Status(c, refs, at) = "VERIFIED"
    PROVE  /\ Contradicting(c, refs, at) = {}
           /\ \E i \in Supporting(c, refs, at) : FreshReference(refs[i], at)
           /\ Score(c, refs, at) >= 84
  BY DEF Status

LEMMA StatusSides ==
    ASSUME NEW c, NEW refs, NEW at
    PROVE  /\ Status(c, refs, at) \in {"VERIFIED", "PARTIALLY_VERIFIED", "STALE",
                                       "CONFLICTING", "CONTRADICTED", "UNVERIFIABLE"}
           /\ Status(c, refs, at) \in Accepting => Contradicting(c, refs, at) = {}
           /\ Supporting(c, refs, at) # {} /\ Contradicting(c, refs, at) # {} =>
                Status(c, refs, at) = "CONFLICTING"
  <1> DEFINE S == Supporting(c, refs, at)
             C == Contradicting(c, refs, at)
             stale == \A i \in S : ~FreshReference(refs[i], at)
             score == Score(c, refs, at)
  <1>1. Status(c, refs, at) =
          CASE S # {} /\ C # {} -> "CONFLICTING"
            [] S # {} /\ C = {} /\ stale -> "STALE"
            [] S # {} /\ C = {} /\ ~stale ->
                  IF score >= 84 THEN "VERIFIED"
                  ELSE IF score >= 48 THEN "PARTIALLY_VERIFIED" ELSE "UNVERIFIABLE"
            [] S = {} /\ C # {} -> "CONTRADICTED"
            [] OTHER -> "UNVERIFIABLE"
    BY DEF Status
  <1> HIDE DEF S, C, stale, score
  <1>2. CASE S # {} /\ C # {}
    BY <1>1, <1>2 DEF S, C, Accepting
  <1>3. CASE S # {} /\ C = {}
    BY <1>1, <1>3 DEF S, C, Accepting
  <1>4. CASE S = {}
    BY <1>1, <1>4 DEF S, C, Accepting
  <1> QED
    BY <1>2, <1>3, <1>4

\* What verify() answers, when it does.
LEMMA VerifyFacts ==
    ASSUME NEW c, NEW refs, NEW at
    PROVE  LET v == Verify(c, refs, at)
           IN  /\ v.status = "REFUSED" =>
                    SameIds(refs) \/ CannotAsk(c, Status(c, refs, at))
               /\ v.status # "REFUSED" =>
                    /\ v.status = Status(c, refs, at) /\ v.score = Score(c, refs, at)
                    /\ v.contradictions = Contradictions(c, refs, at)
                    /\ v.requests = (IF AsksForMore(v.status) THEN 1 ELSE 0)
                    /\ v.at = at
  <1>1. CASE SameIds(refs) \/ CannotAsk(c, Status(c, refs, at))
    BY <1>1 DEF Verify, Refused
  <1>2. CASE ~(SameIds(refs) \/ CannotAsk(c, Status(c, refs, at)))
    <2>1. Status(c, refs, at) # "REFUSED"
      BY StatusSides
    <2> QED
      BY <1>2, <2>1 DEF Verify
  <1> QED
    BY <1>1, <1>2

-----------------------------------------------------------------------------
(* The critic cycle *)

\* The caller's list numbers its references, the result is the verification of
\* what the caller holds, and the verdict the critic's reading of it.
CriticInductive ==
    /\ claim \in Claims /\ evidence \in Seq(EvidenceRecords) /\ day \in Nat
    /\ \A i \in References(evidence) : evidence[i].id = i
    /\ used \in 0..MaxAttempts
    /\ result = Verify(claim, evidence, day)
    /\ verdict = IF result.status = "REFUSED" THEN "RAISED"
                 ELSE Assess(result, used, MaxAttempts)

LEMMA InitCritic == CriticInit => CriticInductive
  BY CriticAssumption DEF CriticInit, CriticInductive, References

\* The reference found gets the next number.
LEMMA FoundNumbered ==
    ASSUME NEW found \in EvidenceRecords, NEW refs \in Seq(EvidenceRecords),
           \A i \in References(refs) : refs[i].id = i
    PROVE  LET more == Append(refs, [found EXCEPT !.id = Len(refs) + 1])
           IN  /\ more \in Seq(EvidenceRecords) /\ Len(more) = Len(refs) + 1
               /\ \A i \in References(more) : more[i].id = i
               /\ \A i \in References(refs) : more[i] = refs[i]
  <1> DEFINE new == [found EXCEPT !.id = Len(refs) + 1]
             more == Append(refs, new)
             N == Len(refs)
  <1>1. N \in Nat
    OBVIOUS
  <1>2. new \in EvidenceRecords /\ new.id = N + 1
    BY <1>1 DEF EvidenceRecords
  <1> HIDE DEF new
  <1>3. more \in Seq(EvidenceRecords) /\ Len(more) = N + 1
    BY <1>2
  <1>4. \A i \in 1..N : more[i] = refs[i]
    BY <1>2
  <1>5. more[N + 1] = new
    BY <1>2
  <1>6. \A i \in 1..(N + 1) : more[i].id = i
    <2> SUFFICES ASSUME NEW i \in 1..(N + 1) PROVE more[i].id = i
      OBVIOUS
    <2> HIDE DEF more
    <2>1. CASE i = N + 1
      BY <1>2, <1>5, <2>1
    <2>2. CASE i # N + 1
      <3>1. i \in 1..N
        BY <1>1, <2>2
      <3> QED
        BY <1>4, <3>1 DEF References
    <2> QED
      BY <2>1, <2>2
  <1> QED
    BY <1>3, <1>4, <1>6 DEF new, References

LEMMA CriticKeeps ==
    ASSUME CriticInductive, [CriticNext]_criticVars
    PROVE  CriticInductive'
  <1>1. ASSUME NEW found \in Evidence, Research(found) PROVE CriticInductive'
    <2>1. /\ verdict = "RESEARCH_REQUIRED" /\ used' = used + 1
          /\ UNCHANGED <<claim, day>> /\ Verified(claim, evidence', day, used')
      BY <1>1 DEF Research
    <2>2. used # MaxAttempts
      BY <2>1 DEF CriticInductive, Assess
    <2>3. used' \in 0..MaxAttempts
      BY <2>1, <2>2, CriticAssumption DEF CriticInductive
    <2>4. evidence' \in Seq(EvidenceRecords) /\ \A i \in References(evidence') : evidence'[i].id = i
      <3>1. found \in EvidenceRecords
        BY CriticAssumption
      <3>2. CASE found.id = 0
        BY <1>1, <3>2 DEF Research, CriticInductive
      <3>3. CASE found.id # 0
        BY <1>1, <3>1, <3>3, FoundNumbered DEF Research, CriticInductive
      <3> QED
        BY <3>2, <3>3
    <2> QED
      BY <2>1, <2>3, <2>4 DEF CriticInductive, Verified
  <1>2. CASE Reverify
    <2>1. /\ day' = day + 1 /\ UNCHANGED <<claim, evidence, used>>
          /\ Verified(claim, evidence, day', used)
      BY <1>2 DEF Reverify
    <2>2. day' \in Nat
      BY <2>1 DEF CriticInductive
    <2> QED
      BY <2>1, <2>2 DEF CriticInductive, Verified
  <1>3. CASE UNCHANGED criticVars
    BY <1>3 DEF criticVars, CriticInductive
  <1> QED
    BY <1>1, <1>2, <1>3 DEF CriticNext

THEOREM CriticInvariant == CriticSpec => []CriticInductive
  BY InitCritic, CriticKeeps, PTL DEF CriticSpec

\* For a claim of ordinary length the cycle never gets stuck between its two
\* halves, whatever the evidence and however many attempts are allowed.
THEOREM CriticGoesOn == CriticSpec => []CriticNeverStuck
  <1>1. CriticInductive => CriticNeverStuck
    <2> SUFFICES ASSUME CriticInductive, ~claim.long PROVE CriticNeverStuck
      BY DEF CriticNeverStuck
    <2>1. ~SameIds(evidence)
      BY DEF CriticInductive, SameIds
    <2>2. ~CannotAsk(claim, Status(claim, evidence, day))
      BY DEF CannotAsk
    <2>3. result.status # "REFUSED" /\ result.requests = (IF AsksForMore(result.status) THEN 1 ELSE 0)
      BY <2>1, <2>2, VerifyFacts DEF CriticInductive
    <2>4. verdict = Assess(result, used, MaxAttempts)
      BY <2>3 DEF CriticInductive
    <2>5. used \in Nat /\ used <= MaxAttempts
      BY CriticAssumption DEF CriticInductive
    <2> QED
      BY <2>3, <2>4, <2>5, CriticAssumption DEF CriticNeverStuck, Assess, AsksForMore
  <1> QED
    BY <1>1, CriticInvariant, PTL

\* What is verified is verified by a reference that is relevant, in time and
\* right, and by none that says otherwise.
THEOREM VerifiedStaysGrounded == CriticSpec => []VerifiedIsGrounded
  <1>1. CriticInductive => VerifiedIsGrounded
    <2> SUFFICES ASSUME CriticInductive, result.status = "VERIFIED" PROVE VerifiedIsGrounded
      BY DEF VerifiedIsGrounded
    <2>1. Status(claim, evidence, day) = "VERIFIED"
      BY VerifyFacts DEF CriticInductive
    <2>2. Contradicting(claim, evidence, day) = {}
      BY <2>1, VerifiedSides
    <2>3. PICK i \in Supporting(claim, evidence, day) : FreshReference(evidence[i], day)
      BY <2>1, VerifiedSides
    <2>4. i \in References(evidence) /\ Match(claim, evidence[i]) = "SUPPORTING"
          /\ evidence[i].retrieved <= day
      BY <2>3 DEF Supporting, Classified, Retrieved
    <2>5. evidence[i].relevant
      BY <2>4 DEF Match, Relevant
    <2>6. claim.type = "numeric" => evidence[i].value = claim.expected
      BY <2>4, <2>5 DEF Match, Relevant, SameValue
    <2>7. evidence[i].asOf # Undated => evidence[i].asOf <= day /\ day - evidence[i].asOf <= MaxAge
      <3>1. evidence[i].asOf \in Int /\ day \in Int /\ MaxAge \in Nat
        <4>1. evidence[i] \in EvidenceRecords
          BY <2>4 DEF CriticInductive, References
        <4> QED
          BY <4>1, MaxAgeAssumption DEF EvidenceRecords, CriticInductive
      <3> SUFFICES ASSUME evidence[i].asOf # Undated
                   PROVE  evidence[i].asOf <= day /\ day - evidence[i].asOf <= MaxAge
        OBVIOUS
      <3>2. day - evidence[i].asOf \in 0..MaxAge
        BY <2>3 DEF FreshReference, Within
      <3> QED
        BY <3>1, <3>2
    <2>8. ~\E k \in References(evidence) :
              evidence[k].retrieved <= day /\ Match(claim, evidence[k]) = "CONTRADICTING"
      BY <2>2 DEF Contradicting, Classified, Retrieved
    <2> QED
      BY <2>4, <2>5, <2>6, <2>7, <2>8 DEF VerifiedIsGrounded
  <1> QED
    BY <1>1, CriticInvariant, PTL

-----------------------------------------------------------------------------
(* Scores *)

LEMMA WeightLargest ==
    ASSUME NEW W \in SUBSET {120, 84, 60, 24}, W # {}
    PROVE  Largest(W) \in Int
  <1>1. \E n \in W : \A k \in W : k <= n
    <2>1. CASE 120 \in W
      BY <2>1
    <2>2. CASE 120 \notin W /\ 84 \in W
      BY <2>2
    <2>3. CASE 120 \notin W /\ 84 \notin W /\ 60 \in W
      BY <2>3
    <2>4. CASE 120 \notin W /\ 84 \notin W /\ 60 \notin W
      <3>1. \A k \in W : k = 24
        BY <2>4
      <3>2. PICK n \in W : n = 24
        BY <3>1
      <3>3. \A k \in W : k <= n
        BY <3>1, <3>2
      <3> QED
        BY <3>3
    <2> QED
      BY <2>1, <2>2, <2>3, <2>4
  <1>2. Largest(W) \in W
    BY <1>1 DEF Largest
  <1>3. Largest(W) \in {120, 84, 60, 24}
    BY <1>2
  <1> QED
    BY <1>3

\* A sum grows with the third of its terms.
LEMMA SumMonotone ==
    ASSUME NEW a \in Int, NEW b \in Int, NEW x \in Int, NEW y \in Int, x <= y,
           NEW d \in Int, NEW e \in Int, NEW f \in Int, NEW g \in Int
    PROVE  a + b + x + d + e + f + g <= a + b + y + d + e + f + g
  OBVIOUS

\* A smaller share of more is less.
LEMMA ShareMonotone ==
    ASSUME NEW x \in Nat, NEW y \in Nat, x <= y,
           NEW l \in Nat \ {0}, NEW m \in Nat \ {0}, l <= m
    PROVE  x \div m \in Nat /\ y \div l \in Nat /\ x \div m <= y \div l
  <1> DEFINE p == x \div m
             q == y \div l
  <1>1. p \in Nat /\ m * p <= x
    BY SMT
  <1>2. q \in Nat /\ y < l * (q + 1)
    BY SMT
  <1> HIDE DEF p, q
  <1>3. ASSUME p > q PROVE FALSE
    <2>1. q + 1 <= p /\ q + 1 \in Nat
      BY <1>1, <1>2, <1>3
    <2>2. l * (q + 1) <= m * (q + 1)
      BY <2>1, SMT
    <2>3. m * (q + 1) <= m * p
      BY <1>1, <2>1, SMT
    <2>4. l * (q + 1) \in Nat /\ m * (q + 1) \in Nat /\ m * p \in Nat
      BY <1>1, <2>1, SMT
    <2> QED
      BY <1>1, <1>2, <2>2, <2>3, <2>4
  <1> QED
    BY <1>1, <1>2, <1>3 DEF p, q

\* A score is a whole number of 120ths, and references that leave the support
\* of a claim as it is never raise it.
LEMMA ScoreNeverRises ==
    ASSUME NEW c \in ClaimRecords, NEW at \in Int,
           NEW refs \in Seq(EvidenceRecords), NEW more \in Seq(EvidenceRecords),
           Len(refs) <= Len(more), \A i \in References(refs) : more[i] = refs[i],
           Supporting(c, more, at) = Supporting(c, refs, at)
    PROVE  /\ Score(c, refs, at) \in Int /\ Score(c, more, at) \in Int
           /\ Score(c, more, at) <= Score(c, refs, at)
           /\ Contradicting(c, refs, at) \subseteq Contradicting(c, more, at)
           /\ (\A i \in Supporting(c, refs, at) : ~FreshReference(refs[i], at)) =
              (\A i \in Supporting(c, more, at) : ~FreshReference(more[i], at))
  <1> DEFINE S == Supporting(c, refs, at)
             n == Cardinality(S)
             Recent(r) == {i \in S : Within(r[i].asOf, at) \/ Within(r[i].retrieved, at)}
             Tiers(r) == {r[i].tier : i \in S}
             Complete(r) == \A i \in S : /\ r[i].value # "none"
                                         /\ r[i].unit # "none" \/ c.unit
                                         /\ r[i].currency # "none" \/ c.currency
             Exact(r) == \A i \in S : /\ c.unit => r[i].unit = "same"
                                      /\ c.currency => r[i].currency = "same"
             Authority(r) == Largest({Weight[t] : t \in Tiers(r)})
             Recency(r) == (36 * Cardinality(Recent(r))) \div n
             Agreed(r) == (IF Contradicting(c, r, at) = {} THEN 36 ELSE 12) * n
             Diverse(r) == Factor({1, 2} \subseteq Tiers(r), 12)
             Numeric(r) == Factor(c.type = "numeric" /\ Complete(r), 12)
             Timed(r) == Factor(c.period /\ \E i \in S : r[i].period = "same", 6)
             Stated(r) == Factor((c.unit \/ c.currency) /\ Exact(r), 6)
             Sum(r) == Authority(r) + Recency(r) + Agreed(r) \div Len(r)
                       + Diverse(r) + Numeric(r) + Timed(r) + Stated(r)
  <1>1. /\ S \subseteq References(refs) /\ IsFiniteSet(S) /\ n \in Nat
        /\ Len(refs) \in Nat /\ Len(more) \in Nat
    <2>1. Len(refs) \in Nat /\ Len(more) \in Nat
      OBVIOUS
    <2>2. IsFiniteSet(References(refs))
      BY <2>1, FS_Interval DEF References
    <2>3. S \in SUBSET References(refs)
      BY SidesFacts
    <2> HIDE DEF S
    <2>4. IsFiniteSet(S)
      BY <2>2, <2>3, FS_Subset
    <2> QED
      BY <2>1, <2>3, <2>4, FS_CardinalityType
  <1>2. RawScore(c, refs, at) = Sum(refs)
    BY DEF RawScore, Lending
  <1>3. RawScore(c, more, at) = Sum(more)
    BY DEF RawScore, Lending
  <1>4. Contradicting(c, refs, at) \subseteq Contradicting(c, more, at)
    BY DEF Contradicting, Classified, References
  <1>5. \A i \in S : more[i] = refs[i] /\ refs[i] \in EvidenceRecords
    BY <1>1 DEF References
  <1>6. S = Supporting(c, more, at)
    OBVIOUS
  <1> HIDE DEF S
  <1>7. /\ Recent(more) = Recent(refs) /\ Tiers(more) = Tiers(refs)
        /\ Diverse(more) = Diverse(refs)
    BY <1>5
  <1>8. Numeric(more) = Numeric(refs)
    <2>1. Complete(more) <=> Complete(refs)
      BY <1>5
    <2> HIDE DEF Complete
    <2> QED
      BY <2>1 DEF Factor
  <1>9. Timed(more) = Timed(refs)
    <2>1. (\E i \in S : more[i].period = "same") <=> (\E i \in S : refs[i].period = "same")
      BY <1>5
    <2> QED
      BY <2>1 DEF Factor
  <1>10. Stated(more) = Stated(refs)
    <2>1. Exact(more) <=> Exact(refs)
      BY <1>5
    <2> HIDE DEF Exact
    <2> QED
      BY <2>1 DEF Factor
  <1>11. Diverse(refs) \in Int /\ Numeric(refs) \in Int /\ Timed(refs) \in Int /\ Stated(refs) \in Int
    BY DEF Factor
  <1>12. CASE S = {}
    <2>1. Score(c, refs, at) = 0 /\ Score(c, more, at) = 0
      BY <1>6, <1>12 DEF Score, S
    <2> QED
      BY <1>4, <1>6, <1>12, <2>1 DEF S
  <1>13. CASE S # {}
    <2>1. n \in Nat \ {0} /\ Len(refs) \in Nat \ {0} /\ Len(more) \in Nat \ {0}
      <3>1. n # 0
        BY <1>1, <1>13, FS_EmptySet
      <3>2. Len(refs) # 0
        <4>1. PICK i \in S : i \in 1..Len(refs)
          BY <1>1, <1>13 DEF References
        <4> QED
          BY <1>1, <4>1
      <3> QED
        BY <1>1, <3>1, <3>2
    <2>2. Authority(refs) \in Int
      <3>1. \A i \in S : refs[i].tier \in 1..4
        BY <1>5 DEF EvidenceRecords
      <3>2. {Weight[t] : t \in Tiers(refs)} \in SUBSET {120, 84, 60, 24}
        <4>1. \A t \in 1..4 : Weight[t] \in {120, 84, 60, 24}
          BY DEF Weight
        <4>2. Tiers(refs) \subseteq 1..4
          BY <3>1
        <4> HIDE DEF Tiers
        <4> QED
          BY <4>1, <4>2
      <3>3. {Weight[t] : t \in Tiers(refs)} # {}
        <4>1. Tiers(refs) # {}
          BY <1>13
        <4> HIDE DEF Tiers
        <4> QED
          BY <4>1
      <3> QED
        BY <3>2, <3>3, WeightLargest
    <2>3. Recency(refs) \in Int
      <3>1. IsFiniteSet(Recent(refs))
        <4>1. Recent(refs) \in SUBSET S
          OBVIOUS
        <4> HIDE DEF Recent
        <4> QED
          BY <1>1, <4>1, FS_Subset
      <3>2. Cardinality(Recent(refs)) \in Nat
        <4> HIDE DEF Recent
        <4> QED
          BY <3>1, FS_CardinalityType
      <3> HIDE DEF Recent, n
      <3> QED
        BY <2>1, <3>2
    <2>4. /\ Agreed(more) \div Len(more) \in Nat /\ Agreed(refs) \div Len(refs) \in Nat
          /\ Agreed(more) \div Len(more) <= Agreed(refs) \div Len(refs)
      <3>1. Agreed(more) \in Nat /\ Agreed(refs) \in Nat /\ Agreed(more) <= Agreed(refs)
        <4> HIDE DEF n
        <4> QED
          BY <1>4, <2>1
      <3> HIDE DEF Agreed
      <3> QED
        BY <2>1, <3>1, ShareMonotone
    <2>5. Sum(refs) \in Int /\ Sum(more) \in Int /\ Sum(more) <= Sum(refs)
      <3>1. Authority(more) = Authority(refs) /\ Recency(more) = Recency(refs)
        BY <1>7
      <3>2. Diverse(more) = Diverse(refs)
        BY <1>7
      <3> DEFINE fewer == Agreed(more) \div Len(more)
                 before == Agreed(refs) \div Len(refs)
      <3>3. fewer \in Nat /\ before \in Nat /\ fewer <= before
        BY <2>4
      <3> HIDE DEF Authority, Recency, Agreed, Diverse, Numeric, Timed, Stated, fewer, before
      <3>4. Authority(refs) + Recency(refs) + before + Diverse(refs) + Numeric(refs)
              + Timed(refs) + Stated(refs) \in Int
        BY <1>11, <2>2, <2>3, <3>3
      <3>5. Authority(refs) + Recency(refs) + fewer + Diverse(refs) + Numeric(refs)
              + Timed(refs) + Stated(refs) \in Int
        BY <1>11, <2>2, <2>3, <3>3
      <3>6. Authority(refs) + Recency(refs) + fewer + Diverse(refs) + Numeric(refs)
              + Timed(refs) + Stated(refs)
            <= Authority(refs) + Recency(refs) + before + Diverse(refs) + Numeric(refs)
                 + Timed(refs) + Stated(refs)
        <4>1. Authority(refs) \in Int /\ Recency(refs) \in Int
          BY <2>2, <2>3
        <4>2. Diverse(refs) \in Int /\ Numeric(refs) \in Int /\ Timed(refs) \in Int
              /\ Stated(refs) \in Int /\ fewer \in Int /\ before \in Int
          BY <1>11, <3>3
        <4> QED
          BY <3>3, <4>1, <4>2, SumMonotone
      <3>7. Sum(refs) = Authority(refs) + Recency(refs) + before + Diverse(refs)
                          + Numeric(refs) + Timed(refs) + Stated(refs)
        BY DEF before
      <3>8. Sum(more) = Authority(more) + Recency(more) + fewer + Diverse(more)
                          + Numeric(more) + Timed(more) + Stated(more)
        BY DEF fewer
      <3> HIDE DEF Sum
      <3>9. Sum(more) = Authority(refs) + Recency(refs) + fewer + Diverse(refs)
                          + Numeric(refs) + Timed(refs) + Stated(refs)
        BY <1>8, <1>9, <1>10, <3>1, <3>2, <3>8
      <3> QED
        BY <3>4, <3>5, <3>6, <3>7, <3>9
    <2> HIDE DEF Sum
    <2>6. /\ Score(c, refs, at) = (IF Sum(refs) > 120 THEN 120 ELSE Sum(refs))
          /\ Score(c, more, at) = (IF Sum(more) > 120 THEN 120 ELSE Sum(more))
      BY <1>2, <1>3, <1>6, <1>13 DEF Score, S
    <2>7. (\A i \in S : ~FreshReference(refs[i], at)) = (\A i \in S : ~FreshReference(more[i], at))
      BY <1>5
    <2> QED
      BY <1>4, <1>6, <2>5, <2>6, <2>7 DEF S
  <1> QED
    BY <1>12, <1>13

\* Renumbering a finite set changes no count.
LEMMA RenumberedCount ==
    ASSUME NEW All, IsFiniteSet(All), NEW place \in Bijection(All, All),
           NEW T \in SUBSET All
    PROVE  Cardinality({i \in All : place[i] \in T}) = Cardinality(T)
  <1> DEFINE T2 == {i \in All : place[i] \in T}
             moved == [i \in T2 |-> place[i]]
  <1>1. /\ place \in [All -> All]
        /\ \A i, j \in All : place[i] = place[j] => i = j
        /\ \A t \in All : \E i \in All : place[i] = t
    BY DEF Bijection, Injection, Surjection, IsInjective
  <1>2. moved \in [T2 -> T] /\ \A i \in T2 : moved[i] = place[i]
    BY <1>1
  <1>3. T2 \in SUBSET All /\ IsFiniteSet(T2)
    BY FS_Subset
  <1>4. \A t \in T : \E i \in T2 : place[i] = t
    BY <1>1
  <1> HIDE DEF T2, moved
  <1>5. moved \in Bijection(T2, T)
    <2>1. moved \in Injection(T2, T)
      BY <1>1, <1>2, <1>3 DEF Injection, IsInjective
    <2>2. moved \in Surjection(T2, T)
      BY <1>2, <1>4 DEF Surjection
    <2> QED
      BY <2>1, <2>2 DEF Bijection
  <1>6. ExistsBijection(T2, T)
    BY <1>5 DEF ExistsBijection
  <1>7. Cardinality(T) = Cardinality(T2)
    BY <1>3, <1>6, FS_Bijection
  <1> QED
    BY <1>7 DEF T2

\* The same references in another order.
Reordered(refs, place) == [i \in References(refs) |-> refs[place[i]]]

\* The order in which references were submitted decides nothing: not the
\* score, not the status, not whether verify() refuses a bundle for a repeated
\* id, however many references there are and whatever they say.
THEOREM OrderDecidesNothing ==
    ASSUME NEW c, NEW at, NEW refs \in Seq(EvidenceRecords),
           NEW place \in Bijection(References(refs), References(refs))
    PROVE  LET other == Reordered(refs, place)
           IN  /\ Score(c, other, at) = Score(c, refs, at)
               /\ Status(c, other, at) = Status(c, refs, at)
               /\ SameIds(other) <=> SameIds(refs)
               /\ Verify(c, other, at).status = Verify(c, refs, at).status
  <1> DEFINE other == Reordered(refs, place)
             All == References(refs)
             S == Supporting(c, refs, at)
             S2 == Supporting(c, other, at)
             C == Contradicting(c, refs, at)
             C2 == Contradicting(c, other, at)
  <1>1. Len(refs) \in Nat /\ All = 1..Len(refs)
    BY DEF References
  <1>2. /\ place \in [All -> All]
        /\ \A i, j \in All : place[i] = place[j] => i = j
        /\ \A t \in All : \E i \in All : place[i] = t
    BY DEF Bijection, Injection, Surjection, IsInjective
  <1>3. Len(other) = Len(refs) /\ References(other) = All /\ \A i \in All : other[i] = refs[place[i]]
    <2>1. other = [i \in 1..Len(refs) |-> refs[place[i]]]
      BY <1>1 DEF Reordered
    <2>2. Len(other) = Len(refs)
      BY <1>1, <2>1
    <2> QED
      BY <1>1, <2>1, <2>2 DEF References
  <1>4. IsFiniteSet(All)
    BY <1>1, FS_Interval
  <1>5. S \in SUBSET All /\ C \in SUBSET All /\ place \in Bijection(All, All)
    BY SidesFacts
  <1>6. S2 = {i \in All : place[i] \in S}
    <2> HIDE DEF All, other
    <2>1. \A i \in All : i \in S2 <=> /\ Match(c, other[i]) = "SUPPORTING"
                                      /\ Retrieved(other[i], at)
      BY <1>3 DEF Supporting, Classified
    <2>2. \A i \in All : i \in S <=> /\ Match(c, refs[i]) = "SUPPORTING"
                                     /\ Retrieved(refs[i], at)
      BY DEF Supporting, Classified, All
    <2>3. S2 \subseteq All
      BY <1>3 DEF Supporting, Classified
    <2> HIDE DEF S, S2
    <2> QED
      BY <1>2, <1>3, <2>1, <2>2, <2>3
  <1>7. C2 = {i \in All : place[i] \in C}
    <2> HIDE DEF All, other
    <2>1. \A i \in All : i \in C2 <=> /\ Match(c, other[i]) = "CONTRADICTING"
                                      /\ Retrieved(other[i], at)
      BY <1>3 DEF Contradicting, Classified
    <2>2. \A i \in All : i \in C <=> /\ Match(c, refs[i]) = "CONTRADICTING"
                                     /\ Retrieved(refs[i], at)
      BY DEF Contradicting, Classified, All
    <2>3. C2 \subseteq All
      BY <1>3 DEF Contradicting, Classified
    <2> HIDE DEF C, C2
    <2> QED
      BY <1>2, <1>3, <2>1, <2>2, <2>3
  <1>8. SameIds(other) <=> SameIds(refs)
    <2>1. SameIds(other) <=> \E i, j \in All : i # j /\ refs[place[i]].id = refs[place[j]].id
      BY <1>3 DEF SameIds
    <2>2. SameIds(refs) <=> \E i, j \in All : i # j /\ refs[i].id = refs[j].id
      BY DEF SameIds
    <2> HIDE DEF All, other
    <2> QED
      BY <1>2, <2>1, <2>2
  <1> HIDE DEF All, other, S, S2, C, C2
  \* What holds of the supporting references of the one list holds of the other's.
  <1>9. /\ \A i \in S2 : place[i] \in S /\ other[i] = refs[place[i]]
        /\ \A s \in S : \E i \in S2 : place[i] = s
        /\ S2 = {} <=> S = {}
        /\ C2 = {} <=> C = {}
    BY <1>2, <1>3, <1>5, <1>6, <1>7
  <1>10. Cardinality(S2) = Cardinality(S)
    BY <1>4, <1>5, <1>6, RenumberedCount
  <1> DEFINE Recent(r, X) == {i \in X : Within(r[i].asOf, at) \/ Within(r[i].retrieved, at)}
             Tiers(r, X) == {r[i].tier : i \in X}
             Complete(r, X) == \A i \in X : /\ r[i].value # "none"
                                            /\ r[i].unit # "none" \/ c.unit
                                            /\ r[i].currency # "none" \/ c.currency
             Exact(r, X) == \A i \in X : /\ c.unit => r[i].unit = "same"
                                         /\ c.currency => r[i].currency = "same"
             Timed(r, X) == \E i \in X : r[i].period = "same"
             Stale(r, X) == \A i \in X : ~FreshReference(r[i], at)
             Authority(A) == Largest({Weight[t] : t \in A})
             Diverse(A) == Factor({1, 2} \subseteq A, 12)
             Part(r) == IF Contradicting(c, r, at) = {} THEN 36 ELSE 12
             Numeric(r, X) == Factor(c.type = "numeric" /\ Complete(r, X), 12)
             Dated(r, X) == Factor(c.period /\ Timed(r, X), 6)
             Stated(r, X) == Factor((c.unit \/ c.currency) /\ Exact(r, X), 6)
             Sum(r, X, A, n, l) ==
                Authority(A) + (36 * Cardinality(Recent(r, X))) \div n
                + (Part(r) * n) \div l
                + Diverse(A) + Numeric(r, X) + Dated(r, X) + Stated(r, X)
  <1>11. Cardinality(Recent(other, S2)) = Cardinality(Recent(refs, S))
    <2>1. Recent(refs, S) \in SUBSET All
      BY <1>5
    <2>2. Recent(other, S2) = {i \in All : place[i] \in Recent(refs, S)}
      BY <1>3, <1>6
    <2> HIDE DEF Recent
    <2> QED
      BY <1>4, <1>5, <2>1, <2>2, RenumberedCount
  <1>12. Tiers(other, S2) = Tiers(refs, S)
    BY <1>9
  <1>13. Complete(other, S2) <=> Complete(refs, S)
    BY <1>9
  <1>14. Exact(other, S2) <=> Exact(refs, S)
    BY <1>9
  <1>15. Timed(other, S2) <=> Timed(refs, S)
    BY <1>9
  <1>16. Stale(other, S2) <=> Stale(refs, S)
    BY <1>9
  <1>17. RawScore(c, refs, at) = Sum(refs, S, Tiers(refs, S), Cardinality(S), Len(refs))
    BY DEF RawScore, Lending, S
  <1>18. RawScore(c, other, at) = Sum(other, S2, Tiers(other, S2), Cardinality(S2), Len(other))
    BY DEF RawScore, Lending, S2
  <1> HIDE DEF Authority, Diverse
  <1>19. RawScore(c, other, at) = RawScore(c, refs, at)
    <2>1. Part(other) = Part(refs)
      BY <1>9 DEF C, C2
    <2>2. Numeric(other, S2) = Numeric(refs, S)
      <3> HIDE DEF Complete
      <3> QED
        BY <1>13 DEF Factor
    <2>3. Dated(other, S2) = Dated(refs, S)
      <3> HIDE DEF Timed
      <3> QED
        BY <1>15 DEF Factor
    <2>4. Stated(other, S2) = Stated(refs, S)
      <3> HIDE DEF Exact
      <3> QED
        BY <1>14 DEF Factor
    <2> HIDE DEF Recent, Tiers, Part, Numeric, Dated, Stated
    <2> QED
      BY <1>3, <1>10, <1>11, <1>12, <1>17, <1>18, <2>1, <2>2, <2>3, <2>4
  <1>20. Score(c, other, at) = Score(c, refs, at)
    BY <1>9, <1>19 DEF Score, S, S2
  <1>21. Status(c, other, at) = Status(c, refs, at)
    <2> DEFINE Verdict(s, contra, stale, score) ==
          CASE s /\ contra -> "CONFLICTING"
            [] s /\ ~contra /\ stale -> "STALE"
            [] s /\ ~contra /\ ~stale ->
                  IF score >= 84 THEN "VERIFIED"
                  ELSE IF score >= 48 THEN "PARTIALLY_VERIFIED" ELSE "UNVERIFIABLE"
            [] ~s /\ contra -> "CONTRADICTED"
            [] OTHER -> "UNVERIFIABLE"
    <2>1. ASSUME NEW r
          PROVE  Status(c, r, at) = Verdict(Supporting(c, r, at) # {},
                                            Contradicting(c, r, at) # {},
                                            Stale(r, Supporting(c, r, at)), Score(c, r, at))
      BY DEF Status
    <2>2. (S2 # {}) = (S # {}) /\ (C2 # {}) = (C # {}) /\ Stale(other, S2) = Stale(refs, S)
      BY <1>9, <1>16
    <2>3. Status(c, other, at) = Verdict(S2 # {}, C2 # {}, Stale(other, S2), Score(c, other, at))
      BY <2>1 DEF S2, C2
    <2>4. Status(c, refs, at) = Verdict(S # {}, C # {}, Stale(refs, S), Score(c, refs, at))
      BY <2>1 DEF S, C
    <2> HIDE DEF Verdict, Stale
    <2> QED
      BY <1>20, <2>2, <2>3, <2>4, Zenon
  <1>22. Verify(c, other, at).status = Verify(c, refs, at).status
    BY <1>8, <1>21 DEF Verify, CannotAsk
  <1> QED
    BY <1>8, <1>20, <1>21, <1>22 DEF other

\* Evidence that does not support a claim never raises its score and never
\* makes it verified.
THEOREM DoubtCannotHelp == CriticSpec => DoubtNeverHelps
  <1> DEFINE Step == day' = day /\ result.status # "REFUSED" /\ result'.status # "REFUSED"
                       /\ Supporting(claim, evidence', day) = Supporting(claim, evidence, day) =>
                     /\ result'.score <= result.score
                     /\ result'.status = "VERIFIED" => result.status = "VERIFIED"
  <1>1. ASSUME CriticInductive, CriticInductive', CriticNext PROVE Step
    <2> SUFFICES ASSUME day' = day, result.status # "REFUSED", result'.status # "REFUSED",
                        Supporting(claim, evidence', day) = Supporting(claim, evidence, day)
                 PROVE  /\ result'.score <= result.score
                        /\ result'.status = "VERIFIED" => result.status = "VERIFIED"
      OBVIOUS
    <2>1. ~Reverify
      BY <1>1 DEF Reverify, CriticInductive
    <2>2. PICK found \in Evidence : Research(found)
      BY <1>1, <2>1 DEF CriticNext
    <2>3. /\ claim' = claim /\ claim \in ClaimRecords /\ day \in Int
          /\ evidence \in Seq(EvidenceRecords) /\ evidence' \in Seq(EvidenceRecords)
      BY <1>1, <2>2, CriticAssumption DEF CriticInductive, Research
    <2>4. Len(evidence) <= Len(evidence') /\ \A i \in References(evidence) : evidence'[i] = evidence[i]
      <3>1. CASE found.id = 0
        BY <2>2, <2>3, <3>1 DEF Research
      <3>2. CASE found.id # 0
        <4>1. found \in EvidenceRecords
          BY CriticAssumption
        <4>2. \A i \in References(evidence) : evidence[i].id = i
          BY <1>1 DEF CriticInductive
        <4>3. evidence' = Append(evidence, [found EXCEPT !.id = Len(evidence) + 1])
          BY <2>2, <3>2 DEF Research
        <4>4. Len(evidence') = Len(evidence) + 1 /\ Len(evidence) \in Nat
          BY <2>3, <4>1, <4>2, <4>3, FoundNumbered
        <4>5. \A i \in References(evidence) : evidence'[i] = evidence[i]
          BY <2>3, <4>1, <4>2, <4>3, FoundNumbered
        <4> QED
          BY <4>4, <4>5
      <3> QED
        BY <3>1, <3>2
    <2>5. /\ Score(claim, evidence, day) \in Int /\ Score(claim, evidence', day) \in Int
          /\ Score(claim, evidence', day) <= Score(claim, evidence, day)
          /\ Contradicting(claim, evidence, day) \subseteq Contradicting(claim, evidence', day)
          /\ (\A i \in Supporting(claim, evidence, day) : ~FreshReference(evidence[i], day)) =
             (\A i \in Supporting(claim, evidence', day) : ~FreshReference(evidence'[i], day))
      BY <2>3, <2>4, ScoreNeverRises
    <2>6. /\ result.status = Status(claim, evidence, day)
          /\ result.score = Score(claim, evidence, day)
      BY <1>1, VerifyFacts DEF CriticInductive
    <2>7. /\ result'.status = Status(claim, evidence', day)
          /\ result'.score = Score(claim, evidence', day)
      <3>1. result' = Verify(claim, evidence', day)
        BY <1>1, <2>3 DEF CriticInductive
      <3> QED
        BY <3>1, VerifyFacts
    <2>8. ASSUME Status(claim, evidence', day) = "VERIFIED"
          PROVE  Status(claim, evidence, day) = "VERIFIED"
      <3>1. /\ Contradicting(claim, evidence', day) = {}
            /\ \E i \in Supporting(claim, evidence', day) : FreshReference(evidence'[i], day)
            /\ Score(claim, evidence', day) >= 84
        BY <2>8, VerifiedSides
      <3>2. Contradicting(claim, evidence, day) = {}
        BY <2>5, <3>1
      <3>3. ~(\A i \in Supporting(claim, evidence, day) : ~FreshReference(evidence[i], day))
        BY <2>5, <3>1
      <3>4. Supporting(claim, evidence, day) # {}
        BY <3>3
      <3>5. Score(claim, evidence, day) >= 84
        BY <2>5, <3>1
      <3> QED
        BY <3>2, <3>3, <3>4, <3>5 DEF Status
    <2> QED
      BY <2>5, <2>6, <2>7, <2>8
  <1>2. CriticInductive /\ CriticInductive' /\ [CriticNext]_criticVars => [Step]_criticVars
    BY <1>1
  <1> QED
    BY <1>2, CriticInvariant, PTL DEF CriticSpec, DoubtNeverHelps

-----------------------------------------------------------------------------
(* Orders *)

\* Wherever some member has k - 1 others before it, s[k] is such a member.
PutInPlace(S, key, s) ==
    \A k \in 1..Cardinality(S) :
        (\E c \in S : Cardinality({d \in S : Precedes(key[d], key[c])}) = k - 1) =>
           /\ s[k] \in S
           /\ Cardinality({d \in S : Precedes(key[d], key[s[k]])}) = k - 1

\* A sequence that puts at every place the member that has it holds all
\* members, in the order of their keys.
LEMMA SequenceFacts ==
    ASSUME NEW S, IsFiniteSet(S), NEW m \in Nat, NEW key \in [S -> [1..m -> Int]],
           \A c, d \in S : key[c] = key[d] => c = d,
           NEW s,
           PutInPlace(S, key, s)
    PROVE  /\ Cardinality(S) \in Nat
           /\ \A k \in 1..Cardinality(S) : s[k] \in S
           /\ \A c \in S : \E k \in 1..Cardinality(S) : s[k] = c
           /\ \A j, k \in 1..Cardinality(S) : j < k => Precedes(key[s[j]], key[s[k]])
  <1> DEFINE R == {p \in S \X S : Precedes(key[p[1]], key[p[2]])}
             Place(c) == Cardinality(Earlier(S, R, c))
             N == Cardinality(S)
  <1>1. /\ \A x \in S : <<x, x>> \notin R
        /\ \A x, y \in S : x = y \/ <<x, y>> \in R \/ <<y, x>> \in R
        /\ \A x, y, z \in S : <<x, y>> \in R /\ <<y, z>> \in R => <<x, z>> \in R
    <2>1. ASSUME NEW x \in S PROVE <<x, x>> \notin R
      <3>1. key[x] \in [1..m -> Int]
        OBVIOUS
      <3>2. ~Precedes(key[x], key[x])
        BY <3>1, PrecedesOrders
      <3> QED
        BY <3>2
    <2>2. ASSUME NEW x \in S, NEW y \in S PROVE x = y \/ <<x, y>> \in R \/ <<y, x>> \in R
      BY PrecedesOrders
    <2>3. ASSUME NEW x \in S, NEW y \in S, NEW z \in S, <<x, y>> \in R, <<y, z>> \in R
          PROVE  <<x, z>> \in R
      BY <2>3, PrecedesOrders
    <2> QED
      BY <2>1, <2>2, <2>3
  <1>2. \A c \in S : {d \in S : Precedes(key[d], key[c])} = Earlier(S, R, c)
    BY DEF Earlier
  <1>3. /\ N \in Nat
        /\ \A c \in S : Place(c) \in 0..(N - 1)
        /\ \A b, c \in S : <<b, c>> \in R => Place(b) < Place(c)
        /\ \A k \in 1..N : \E c \in S : Place(c) = k - 1
    <2> HIDE DEF R
    <2> QED
      BY <1>1, EveryPlaceTaken
  <1> HIDE DEF R
  <1>4. ASSUME NEW k \in 1..N PROVE s[k] \in S /\ Place(s[k]) = k - 1
    <2>1. PICK c \in S : Place(c) = k - 1
      BY <1>3
    <2>2. Cardinality({d \in S : Precedes(key[d], key[c])}) = k - 1
      BY <1>2, <2>1
    <2>3. s[k] \in S /\ Cardinality({d \in S : Precedes(key[d], key[s[k]])}) = k - 1
      BY <2>2 DEF PutInPlace
    <2> QED
      BY <1>2, <2>3
  <1>5. \A c \in S : Place(c) \in Int
    BY <1>3
  <1> HIDE DEF Place, N
  <1>6. ASSUME NEW j \in 1..N, NEW k \in 1..N, j < k PROVE <<s[j], s[k]>> \in R
    <2>1. s[j] \in S /\ s[k] \in S /\ Place(s[j]) = j - 1 /\ Place(s[k]) = k - 1
      BY <1>4
    <2>2. s[j] # s[k]
      BY <2>1, <1>3, <1>6
    <2>3. ~(<<s[k], s[j]>> \in R)
      BY <2>1, <1>3, <1>6
    <2> QED
      BY <1>1, <2>1, <2>2, <2>3
  <1>7. ASSUME NEW c \in S PROVE \E k \in 1..N : s[k] = c
    <2> DEFINE k == Place(c) + 1
    <2>1. k \in 1..N /\ k - 1 = Place(c)
      BY <1>3, <1>5
    <2>2. s[k] \in S /\ Place(s[k]) = Place(c)
      BY <1>4, <2>1
    <2>3. s[k] = c
      <3>1. PICK e \in S : e = s[k]
        BY <2>2
      <3>2. ~(<<e, c>> \in R) /\ ~(<<c, e>> \in R)
        BY <1>3, <1>5, <2>2, <3>1
      <3>3. e = c
        BY <1>1, <3>2
      <3> QED
        BY <3>1, <3>3
    <2> QED
      BY <2>1, <2>3
  <1>8. ASSUME NEW j \in 1..N, NEW k \in 1..N, j < k PROVE Precedes(key[s[j]], key[s[k]])
    BY <1>4, <1>6, <1>8 DEF R
  <1> QED
    BY <1>3, <1>4, <1>7, <1>8 DEF N

-----------------------------------------------------------------------------
(* The synthesis request *)

Verifications ==
    {Verify(c, refs, at) : c \in ClaimRecords, refs \in Seq(EvidenceRecords), at \in Nat}

\* The result of a claim is its verification at one moment up to now, and the
\* gate would admit it.
SettledResult(item, r) ==
    /\ r.status # "REFUSED" /\ r.at \in Nat /\ r.at <= now
    /\ r = Verify(item.claim, item.refs, r.at)
    /\ Admissible(item, r)

\* Every claim verified so far is settled; what is published is assembled from
\* all of them, none twice and each about the company, at the present moment.
SynthesisInductive ==
    /\ request \in Requests /\ now \in Today
    /\ results \in Seq(Verifications) /\ Len(results) <= Len(Items)
    /\ \A i \in 1..Len(results) : SettledResult(Items[i], results[i])
    /\ reply \in {0, 200, 400, 409}
    /\ Published =>
         /\ Len(results) = Len(Items)
         /\ ~SameClaimTwice /\ \A i \in 1..Len(Items) : GateAdmits(Items[i], now)
         /\ document = Assembled(Items, results, now)
         /\ request.format # "unknown" /\ report = Rendered(document, request.format)

\* The items of a request are as the constructors admit them.
LEMMA ItemFacts ==
    ASSUME request \in Requests
    PROVE  /\ Items \in Seq(ItemRecords) /\ Len(Items) \in Nat
           /\ \A i \in 1..Len(Items) :
                /\ Items[i].id \in Nat /\ Items[i].claim \in ClaimRecords
                /\ Items[i].refs \in Seq(EvidenceRecords) /\ Items[i].section \in 1..8
                /\ Items[i].materiality \in 1..3
           /\ request.format \in {"none", "structured_json", "markdown", "docx", "unknown"}
  <1>1. request \in [items : Seq(ItemRecords), resolved : BOOLEAN,
                     format : {"none", "structured_json", "markdown", "docx", "unknown"}]
    BY RequestsAssumption
  <1>2. Items \in Seq(ItemRecords)
    BY <1>1 DEF Items
  <1>3. \A i \in 1..Len(Items) : Items[i] \in ItemRecords
    BY <1>2
  <1>4. ASSUME NEW x \in ItemRecords
        PROVE  /\ x.id \in Nat /\ x.claim \in ClaimRecords /\ x.refs \in Seq(EvidenceRecords)
               /\ x.section \in 1..8 /\ x.materiality \in 1..3
    BY DEF ItemRecords
  <1> QED
    BY <1>1, <1>2, <1>3, <1>4

LEMMA InitSynthesis == SynthesisInit => SynthesisInductive
  <1> SUFFICES ASSUME SynthesisInit PROVE SynthesisInductive
    OBVIOUS
  <1>1. Len(Items) \in Nat
    BY ItemFacts DEF SynthesisInit
  <1>2. results = <<>> /\ Len(results) = 0
    BY DEF SynthesisInit
  <1> QED
    BY <1>1, <1>2 DEF SynthesisInit, SynthesisInductive, Published

LEMMA VerifyKeeps ==
    ASSUME SynthesisInductive, VerifyNextClaim
    PROVE  SynthesisInductive'
  <1> DEFINE n == Len(results) + 1
             r == Verify(Items[n].claim, Items[n].refs, now)
  <1>1. /\ reply = 0 /\ UNCHANGED <<request, now, document, report>>
        /\ Len(results) < Len(Items) /\ request \in Requests /\ now \in Nat
        /\ results \in Seq(Verifications) /\ Len(results) \in Nat
    BY SummaryAssumption DEF VerifyNextClaim, SynthesisInductive
  <1>2. Items' = Items /\ Len(Items) \in Nat /\ n \in 1..Len(Items)
    BY <1>1, ItemFacts DEF Items
  <1>3. \A i \in 1..Len(results) : SettledResult(Items[i], results[i])'
    <2>1. \A i \in 1..Len(results) : results'[i] = results[i]
      BY <1>1 DEF VerifyNextClaim
    <2> QED
      BY <1>1, <1>2, <2>1 DEF SynthesisInductive, SettledResult
  <1>4. CASE reply' = 400 /\ UNCHANGED results
    BY <1>1, <1>2, <1>3, <1>4 DEF SynthesisInductive, Published
  <1>5. CASE results' = Append(results, r) /\ UNCHANGED reply
             /\ r.status # "REFUSED" /\ Admissible(Items[n], r)
    <2>1. r \in Verifications
      <3>1. Items[n].claim \in ClaimRecords /\ Items[n].refs \in Seq(EvidenceRecords)
        BY <1>1, <1>2, ItemFacts
      <3> QED
        BY <1>1, <3>1 DEF Verifications
    <2>2. r.at = now
      <3>1. \A c, refs, at : Verify(c, refs, at).status # "REFUSED" => Verify(c, refs, at).at = at
        BY VerifyFacts
      <3>2. r = Verify(Items[n].claim, Items[n].refs, now) /\ r.status # "REFUSED"
        BY <1>5
      <3> HIDE DEF r
      <3> QED
        BY <3>1, <3>2
    <2> HIDE DEF r
    <2>3. results' \in Seq(Verifications) /\ Len(results') = n /\ results'[n] = r
      BY <1>1, <1>5, <2>1
    <2>4. r = Verify(Items[n].claim, Items[n].refs, r.at)
      BY <2>2 DEF r
    <2>5. ASSUME NEW i \in 1..Len(results'), i = n PROVE SettledResult(Items[i], results[i])'
      <3>1. results'[i] = r /\ Items'[i] = Items[n] /\ now' = now
        BY <1>1, <1>2, <2>3, <2>5
      <3>2. /\ r.status # "REFUSED" /\ r.at \in Nat /\ r.at <= now
            /\ r = Verify(Items[n].claim, Items[n].refs, r.at) /\ Admissible(Items[n], r)
        BY <1>1, <1>5, <2>2, <2>4
      <3> QED
        BY <3>1, <3>2 DEF SettledResult
    <2>6. \A i \in 1..Len(results') : SettledResult(Items[i], results[i])'
      <3> SUFFICES ASSUME NEW i \in 1..Len(results') PROVE SettledResult(Items[i], results[i])'
        OBVIOUS
      <3>1. CASE i = n
        BY <2>5, <3>1
      <3>2. CASE i # n
        <4>1. i \in 1..Len(results)
          BY <1>1, <2>3, <3>2
        <4> QED
          BY <1>3, <4>1
      <3> QED
        BY <3>1, <3>2
    <2> QED
      BY <1>1, <1>2, <1>5, <2>3, <2>6 DEF SynthesisInductive, Published
  <1> QED
    BY <1>4, <1>5 DEF VerifyNextClaim

LEMMA SynthesizeKeeps ==
    ASSUME SynthesisInductive, Synthesize
    PROVE  SynthesisInductive'
  <1>1. /\ UNCHANGED <<request, now, results>> /\ Len(results) = Len(Items)
        /\ reply' \in {200, 400, 409}
    BY DEF Synthesize
  <1>2. Items' = Items
    BY <1>1 DEF Items
  <1>3. Published' =>
          /\ ~SameClaimTwice /\ \A i \in 1..Len(Items) : GateAdmits(Items[i], now)
          /\ document' = Assembled(Items, results, now)
          /\ request.format # "unknown" /\ report' = Rendered(document', request.format)
    BY DEF Synthesize, Published
  <1>4. SameClaimTwice' = SameClaimTwice
    BY <1>2 DEF SameClaimTwice
  <1>5. \A i \in 1..Len(results) : SettledResult(Items[i], results[i])'
    BY <1>1, <1>2 DEF SynthesisInductive, SettledResult
  <1> QED
    BY <1>1, <1>2, <1>3, <1>4, <1>5 DEF SynthesisInductive

LEMMA DayKeeps ==
    ASSUME SynthesisInductive, DayPasses
    PROVE  SynthesisInductive'
  <1>1. /\ now' = now + 1 /\ now' \in Today /\ reply' = 0
        /\ UNCHANGED <<request, results, document, report>> /\ now \in Nat
    BY SummaryAssumption DEF DayPasses, SynthesisInductive
  <1>2. Items' = Items
    BY <1>1 DEF Items
  <1>3. \A i \in 1..Len(results) : SettledResult(Items[i], results[i])'
    BY <1>1, <1>2 DEF SynthesisInductive, SettledResult
  <1> QED
    BY <1>1, <1>2, <1>3 DEF SynthesisInductive, Published

LEMMA StutterKeeps ==
    ASSUME SynthesisInductive, UNCHANGED synthesisVars
    PROVE  SynthesisInductive'
  <1>1. UNCHANGED <<request, now, results, document, report, reply>>
    BY DEF synthesisVars
  <1>2. Items' = Items /\ SameClaimTwice' = SameClaimTwice /\ Published' = Published
    BY <1>1 DEF Items, SameClaimTwice, Published
  <1>3. \A i \in 1..Len(results) : SettledResult(Items[i], results[i])'
    BY <1>1, <1>2 DEF SynthesisInductive, SettledResult
  <1> QED
    BY <1>1, <1>2, <1>3 DEF SynthesisInductive

THEOREM SynthesisInvariant == SynthesisSpec => []SynthesisInductive
  <1>1. SynthesisInductive /\ [SynthesisNext]_synthesisVars => SynthesisInductive'
    BY VerifyKeeps, SynthesizeKeeps, DayKeeps, StutterKeeps DEF SynthesisNext
  <1> QED
    BY <1>1, InitSynthesis, PTL DEF SynthesisSpec

-----------------------------------------------------------------------------
(* What the assembler makes of a set of claims *)

LEMMA GroupFacts ==
    ASSUME NEW d \in DOMAIN Group
    PROVE  Group[d] \in 0..4 /\ (Group[d] = 0 <=> d = "FACTUAL")
  BY DEF Group

\* The document lists every claim, each at a place of its own.
LEMMA OrderedFacts ==
    ASSUME NEW claims, IsFiniteSet(claims),
           \A c \in claims : c.section \in Int /\ c.materiality \in Int /\ c.id \in Int,
           \A c, d \in claims : c.id = d.id => c = d
    PROVE  /\ Ordered(claims) \in Seq(claims)
           /\ \A c \in claims : \E k \in 1..Len(Ordered(claims)) : Ordered(claims)[k] = c
  <1> DEFINE key == [c \in claims |-> <<c.section, c.materiality, c.id>>]
             Below(c) == {d \in claims : Precedes(<<d.section, d.materiality, d.id>>,
                                                  <<c.section, c.materiality, c.id>>)}
             N == Cardinality(claims)
             s == Ordered(claims)
  <1>1. s = [k \in 1..N |-> CHOOSE c \in claims : Cardinality(Below(c)) = k - 1]
    BY DEF Ordered, InSequence
  <1>2. key \in [claims -> [1..3 -> Int]]
    OBVIOUS
  <1>3. \A c, d \in claims : key[c] = key[d] => c = d
    OBVIOUS
  <1>4. \A c \in claims : {d \in claims : Precedes(key[d], key[c])} = Below(c)
    OBVIOUS
  <1> HIDE DEF key, Below, s
  <1>5. PutInPlace(claims, key, s)
    <2> SUFFICES ASSUME NEW k \in 1..N, NEW c \in claims,
                        Cardinality({d \in claims : Precedes(key[d], key[c])}) = k - 1
                 PROVE  /\ s[k] \in claims
                        /\ Cardinality({d \in claims : Precedes(key[d], key[s[k]])}) = k - 1
      BY DEF PutInPlace
    <2>1. Cardinality(Below(c)) = k - 1
      BY <1>4
    <2>2. s[k] = CHOOSE e \in claims : Cardinality(Below(e)) = k - 1
      BY <1>1
    <2>3. s[k] \in claims /\ Cardinality(Below(s[k])) = k - 1
      BY <2>1, <2>2
    <2> QED
      BY <1>4, <2>3
  <1>6. /\ N \in Nat /\ \A k \in 1..N : s[k] \in claims
        /\ \A c \in claims : \E k \in 1..N : s[k] = c
    <2>1. PICK m \in Nat : key \in [claims -> [1..m -> Int]]
      BY <1>2
    <2> HIDE DEF N
    <2>2. /\ Cardinality(claims) \in Nat /\ \A k \in 1..Cardinality(claims) : s[k] \in claims
          /\ \A c \in claims : \E k \in 1..Cardinality(claims) : s[k] = c
      <3>1. IsFiniteSet(claims)
        OBVIOUS
      <3> QED
        BY <1>3, <1>5, <2>1, <3>1, SequenceFacts
    <2> QED
      BY <2>2 DEF N
  <1>7. s \in Seq(claims) /\ Len(s) = N
    <2>1. s \in [1..N -> claims]
      BY <1>1, <1>6
    <2> HIDE DEF N
    <2> QED
      BY <1>6, <2>1
  <1> QED
    BY <1>6, <1>7 DEF s

\* A claim stated as fact is left out of the summary only for others that are.
LEMMA SummaryFacts ==
    ASSUME NEW claims, IsFiniteSet(claims),
           \A c \in claims : /\ c.disposition \in DOMAIN Group
                             /\ c.score \in Int /\ c.materiality \in Int /\ c.id \in Int,
           \A c, d \in claims : c.id = d.id => c = d,
           NEW fact \in claims, fact.disposition = "FACTUAL",
           fact \notin Range(Summary(claims))
    PROVE  /\ Len(Summary(claims)) = MaxSummary
           /\ \A k \in 1..MaxSummary : Summary(claims)[k].disposition = "FACTUAL"
  <1> DEFINE S == {c \in claims : c.disposition # "POLICY_EXCLUDED"}
             key == [c \in S |-> SummaryKey(c)]
             Below(c) == {d \in S : Precedes(SummaryKey(d), SummaryKey(c))}
             N == Cardinality(S)
             s == InSequence(S, LAMBDA a, b : Precedes(SummaryKey(a), SummaryKey(b)))
  <1>1. s = [k \in 1..N |-> CHOOSE c \in S : Cardinality(Below(c)) = k - 1]
    BY DEF InSequence
  <1>2. key \in [S -> [1..4 -> Int]]
    <2>1. \A c \in S : Group[c.disposition] \in Int /\ 0 - c.score \in Int
      BY GroupFacts
    <2>2. \A c \in S : SummaryKey(c) \in [1..4 -> Int]
      BY <2>1 DEF SummaryKey
    <2> QED
      BY <2>2
  <1>3. \A c, d \in S : key[c] = key[d] => c = d
    BY DEF SummaryKey
  <1>4. \A c \in S : {d \in S : Precedes(key[d], key[c])} = Below(c)
    OBVIOUS
  <1>5. S \in SUBSET claims /\ IsFiniteSet(S) /\ fact \in S
    <2>1. S \in SUBSET claims /\ fact \in S
      OBVIOUS
    <2> HIDE DEF S
    <2> QED
      BY <2>1, FS_Subset
  <1>6. \A c \in S : key[c] = SummaryKey(c)
    OBVIOUS
  <1>7. Summary(claims) = SubSeq(s, 1, IF Len(s) < MaxSummary THEN Len(s) ELSE MaxSummary)
    BY DEF Summary
  <1> HIDE DEF key, Below, S, s
  <1>8. PutInPlace(S, key, s)
    <2> SUFFICES ASSUME NEW k \in 1..N, NEW c \in S,
                        Cardinality({d \in S : Precedes(key[d], key[c])}) = k - 1
                 PROVE  /\ s[k] \in S
                        /\ Cardinality({d \in S : Precedes(key[d], key[s[k]])}) = k - 1
      BY DEF PutInPlace
    <2>1. Cardinality(Below(c)) = k - 1
      BY <1>4
    <2>2. s[k] = CHOOSE e \in S : Cardinality(Below(e)) = k - 1
      BY <1>1
    <2>3. s[k] \in S /\ Cardinality(Below(s[k])) = k - 1
      BY <2>1, <2>2
    <2> QED
      BY <1>4, <2>3
  <1>9. /\ N \in Nat /\ \A k \in 1..N : s[k] \in S
        /\ \A c \in S : \E k \in 1..N : s[k] = c
        /\ \A j, k \in 1..N : j < k => Precedes(key[s[j]], key[s[k]])
    <2>1. 4 \in Nat /\ IsFiniteSet(S)
      BY <1>5
    <2>2. /\ Cardinality(S) \in Nat
          /\ \A k \in 1..Cardinality(S) : s[k] \in S
          /\ \A c \in S : \E k \in 1..Cardinality(S) : s[k] = c
          /\ \A j, k \in 1..Cardinality(S) : j < k => Precedes(key[s[j]], key[s[k]])
      BY <1>2, <1>3, <1>8, <2>1, SequenceFacts
    <2> QED
      BY <2>2
  <1> HIDE DEF N
  <1>10. s \in Seq(S) /\ Len(s) = N
    <2>1. s \in [1..N -> S]
      BY <1>1, <1>9
    <2> QED
      BY <1>9, <2>1
  <1> DEFINE m == IF N < MaxSummary THEN N ELSE MaxSummary
  <1>11. m \in Nat /\ m <= N /\ MaxSummary \in Nat
    BY <1>9, SummaryAssumption
  <1>12. /\ Summary(claims) \in Seq(S) /\ Len(Summary(claims)) = m
         /\ \A k \in 1..m : Summary(claims)[k] = s[k]
    BY <1>7, <1>10, <1>11
  <1> HIDE DEF m
  <1>13. PICK p \in 1..N : s[p] = fact
    BY <1>5, <1>9
  <1>14. p > m
    <2> SUFFICES ASSUME p \in 1..m PROVE FALSE
      BY <1>9, <1>11
    <2>1. p \in DOMAIN Summary(claims) /\ Summary(claims)[p] = fact
      BY <1>12, <1>13
    <2> QED
      BY <2>1 DEF Range
  <1>15. m = MaxSummary
    BY <1>9, <1>11, <1>13, <1>14 DEF m
  <1>16. ASSUME NEW k \in 1..m PROVE s[k].disposition = "FACTUAL"
    <2>1. k \in 1..N /\ k < p
      BY <1>9, <1>11, <1>14
    <2>2. Precedes(SummaryKey(s[k]), SummaryKey(fact)) /\ s[k] \in S
      BY <1>5, <1>6, <1>9, <1>13, <2>1
    <2>3. s[k].disposition \in DOMAIN Group
      BY <1>5, <2>2
    <2>4. ~(Group[s[k].disposition] > Group["FACTUAL"])
      <3>1. PICK j \in 1..4 : /\ SummaryKey(s[k])[j] < SummaryKey(fact)[j]
                              /\ \A i \in 1..(j - 1) : SummaryKey(s[k])[i] = SummaryKey(fact)[i]
        BY <2>2 DEF Precedes, SummaryKey
      <3>2. SummaryKey(s[k])[1] <= SummaryKey(fact)[1]
        <4>1. SummaryKey(s[k])[1] \in Int /\ SummaryKey(fact)[1] \in Int
          BY <2>3, GroupFacts DEF SummaryKey
        <4>2. CASE j = 1
          BY <3>1, <4>1, <4>2
        <4>3. CASE j # 1
          <5>1. 1 \in 1..(j - 1)
            BY <4>3
          <5> QED
            BY <3>1, <4>1, <5>1
        <4> QED
          BY <4>2, <4>3
      <3>3. Group[s[k].disposition] \in 0..4 /\ Group["FACTUAL"] \in 0..4
        BY <2>3, GroupFacts DEF Group
      <3> QED
        BY <3>2, <3>3 DEF SummaryKey
    <2>5. Group[s[k].disposition] = 0
      BY <2>3, <2>4, GroupFacts DEF Group
    <2> QED
      BY <2>3, <2>5, GroupFacts
  <1> QED
    BY <1>12, <1>15, <1>16

-----------------------------------------------------------------------------
(* The published document *)

\* What the document says of the claim at place i of the request.
Said(i) == Gated(Items[i], results[i], now)

Sayings == {Said(i) : i \in 1..Len(Items)}

\* The verification of an item, taken apart.
LEMMA ResultFacts ==
    ASSUME SynthesisInductive, NEW i \in 1..Len(Items), i <= Len(results)
    PROVE  LET c == Items[i].claim
               refs == Items[i].refs
               r == results[i]
           IN  /\ c \in ClaimRecords /\ refs \in Seq(EvidenceRecords)
               /\ r.at \in Nat /\ r.at <= now /\ now \in Nat
               /\ r.status = Status(c, refs, r.at) /\ r.score = Score(c, refs, r.at)
               /\ r.score \in Int
               /\ r.contradictions = Contradictions(c, refs, r.at)
               /\ Admissible(Items[i], r)
  <1> DEFINE c == Items[i].claim
             refs == Items[i].refs
             r == results[i]
  <1>1. /\ c \in ClaimRecords /\ refs \in Seq(EvidenceRecords) /\ now \in Nat
    BY ItemFacts, SummaryAssumption DEF SynthesisInductive
  <1>2. SettledResult(Items[i], r)
    <2>1. i \in 1..Len(results)
      BY DEF SynthesisInductive
    <2> QED
      BY <2>1 DEF SynthesisInductive
  <1>3. /\ r.status # "REFUSED" /\ r.at \in Nat /\ r.at <= now
        /\ r = Verify(c, refs, r.at) /\ Admissible(Items[i], r)
    BY <1>2 DEF SettledResult
  <1>4. /\ r.status = Status(c, refs, r.at) /\ r.score = Score(c, refs, r.at)
        /\ r.contradictions = Contradictions(c, refs, r.at)
    <2> HIDE DEF c, refs, r
    <2> QED
      BY <1>3, VerifyFacts
  <1>5. Score(c, refs, r.at) \in Int
    <2> HIDE DEF c, refs, r
    <2>1. r.at \in Int /\ Len(refs) <= Len(refs)
      BY <1>1, <1>3
    <2> QED
      BY <1>1, <2>1, ScoreNeverRises
  <1> QED
    BY <1>1, <1>3, <1>4, <1>5

\* The gate's answers, and which of them a status leads to.
LEMMA DispositionFacts ==
    ASSUME NEW item, NEW r, NEW on
    PROVE  LET d == Disposition(item, r, on)
           IN  /\ d \in DOMAIN Group
               /\ d = "FACTUAL" =>
                    /\ r.status = "VERIFIED" /\ ~item.advice
                    /\ Freshness(item, r, on) # "STALE"
                    /\ item.kind # "other" => AuthorityIsSufficient(item)
               /\ d = "CONFLICT" => r.status = "CONFLICTING"
               /\ d \in Factual =>
                    /\ r.status \in {"VERIFIED", "PARTIALLY_VERIFIED"}
                    /\ Freshness(item, r, on) # "STALE"
  BY DEF Disposition, Group, Factual

\* Every claim of the request is said once, under its own identity.
LEMMA SaidFacts ==
    ASSUME SynthesisInductive, Published
    PROVE  /\ IsFiniteSet(Sayings) /\ Len(Items) \in Nat /\ Len(results) = Len(Items)
           /\ \A i \in 1..Len(Items) : Said(i).id = Items[i].id /\ ItemOf(Said(i).id) = i
           /\ \A c \in Sayings : /\ c.section \in 1..8 /\ c.materiality \in Int
                                 /\ c.id \in Int /\ c.score \in Int
                                 /\ c.disposition \in DOMAIN Group
           /\ \A c, d \in Sayings : c.id = d.id => c = d
  <1>1. /\ Len(Items) \in Nat /\ Len(results) = Len(Items) /\ ~SameClaimTwice
    BY ItemFacts DEF SynthesisInductive
  <1>2. \A i \in 1..Len(Items) : Said(i).id = Items[i].id
    BY DEF Said, Gated
  <1>3. ASSUME NEW i \in 1..Len(Items) PROVE ItemOf(Said(i).id) = i
    <2>1. \A j \in 1..Len(Items) : Items[j].id = Said(i).id => j = i
      BY <1>1, <1>2 DEF SameClaimTwice
    <2> QED
      BY <1>2, <2>1 DEF ItemOf
  <1>4. ASSUME NEW i \in 1..Len(Items)
        PROVE  /\ Said(i).section \in 1..8 /\ Said(i).materiality \in Int
               /\ Said(i).id \in Int /\ Said(i).score \in Int
               /\ Said(i).disposition \in DOMAIN Group
    <2>1. /\ Items[i].id \in Nat /\ Items[i].section \in 1..8
          /\ Items[i].materiality \in 1..3
      BY ItemFacts DEF SynthesisInductive
    <2>2. results[i].score \in Int
      BY <1>1, ResultFacts
    <2>3. Disposition(Items[i], results[i], now) \in DOMAIN Group
      BY DispositionFacts
    <2> QED
      BY <2>1, <2>2, <2>3 DEF Said, Gated
  <1>5. IsFiniteSet(Sayings)
    <2> DEFINE f == [i \in 1..Len(Items) |-> Said(i)]
    <2>1. IsFiniteSet(1..Len(Items))
      BY <1>1, FS_Interval
    <2>2. f \in Surjection(1..Len(Items), Sayings)
      BY DEF Surjection, Sayings
    <2> HIDE DEF f
    <2> QED
      BY <2>1, <2>2, FS_Surjection
  <1>6. \A c, d \in Sayings : c.id = d.id => c = d
    BY <1>3 DEF Sayings
  <1> QED
    BY <1>1, <1>2, <1>3, <1>4, <1>5, <1>6 DEF Sayings

\* The document lists what is said, in some order, and nothing else.
LEMMA DocumentFacts ==
    ASSUME SynthesisInductive, Published
    PROVE  /\ document.status = SynthesisStatus(Sayings)
           /\ document.summary = Summary(Sayings)
           /\ document.claims \in Seq(Sayings) /\ Range(document.claims) = Sayings
           /\ \A n \in 1..Len(document.claims) : \E i \in 1..Len(Items) :
                 document.claims[n] = Said(i) /\ ItemOf(document.claims[n].id) = i
           /\ \A i \in 1..Len(Items) : \E n \in 1..Len(document.claims) :
                 document.claims[n] = Said(i)
  <1>1. document = [status |-> SynthesisStatus(Sayings), claims |-> Ordered(Sayings),
                    summary |-> Summary(Sayings)]
    BY DEF SynthesisInductive, Assembled, Sayings, Said
  <1>2. /\ Ordered(Sayings) \in Seq(Sayings)
        /\ \A c \in Sayings : \E k \in 1..Len(Ordered(Sayings)) : Ordered(Sayings)[k] = c
    <2>1. \A c \in Sayings : c.section \in Int /\ c.materiality \in Int /\ c.id \in Int
      BY SaidFacts
    <2> QED
      BY <2>1, SaidFacts, OrderedFacts
  <1>3. document.claims = Ordered(Sayings)
    BY <1>1
  <1>4. Range(document.claims) = Sayings
    BY <1>2, <1>3 DEF Range
  <1>5. \A n \in 1..Len(document.claims) : document.claims[n] \in Sayings
    BY <1>2, <1>3
  <1>6. ASSUME NEW n \in 1..Len(document.claims)
        PROVE  \E i \in 1..Len(Items) :
                  document.claims[n] = Said(i) /\ ItemOf(document.claims[n].id) = i
    <2>1. PICK i \in 1..Len(Items) : document.claims[n] = Said(i)
      BY <1>5 DEF Sayings
    <2> QED
      BY <2>1, SaidFacts
  <1>7. ASSUME NEW i \in 1..Len(Items)
        PROVE  \E n \in 1..Len(document.claims) : document.claims[n] = Said(i)
    <2>1. Said(i) \in Sayings
      BY DEF Sayings
    <2> QED
      BY <1>2, <1>3, <2>1
  <1>8. document.status = SynthesisStatus(Sayings) /\ document.summary = Summary(Sayings)
    BY <1>1
  <1> QED
    BY <1>2, <1>3, <1>4, <1>6, <1>7, <1>8

\* A plain fact is one claim of the request, said of a verified result.
LEMMA ProvenFacts ==
    ASSUME SynthesisInductive, Published, NEW i \in 1..Len(Items),
           Said(i).disposition = "FACTUAL"
    PROVE  LET c == Said(i)
               item == Items[i]
           IN  /\ \E k \in c.citations : item.refs[k].relevant
                     /\ item.refs[k].retrieved <= results[i].at
               /\ \A k \in References(item.refs) :
                     Match(item.claim, item.refs[k]) = "CONTRADICTING" =>
                        item.refs[k].retrieved > results[i].at
               /\ item.kind # "other" => \E k \in c.citations :
                     /\ Match(item.claim, item.refs[k]) = "SUPPORTING"
                     /\ item.refs[k].tier <= (IF item.kind = "material_event" THEN 3 ELSE 2)
               /\ item.kind \in {"market_price", "market_change"} =>
                     item.claim.asOf # Undated /\ now - item.claim.asOf \in 0..1
               /\ ~item.advice
  <1> DEFINE item == Items[i]
             r == results[i]
             at == results[i].at
  <1>1. /\ item.claim \in ClaimRecords /\ item.refs \in Seq(EvidenceRecords)
        /\ at \in Nat /\ now \in Nat /\ r.status = Status(item.claim, item.refs, at)
    BY SaidFacts, ResultFacts
  <1>2. /\ r.status = "VERIFIED" /\ ~item.advice /\ Freshness(item, r, now) # "STALE"
        /\ item.kind # "other" => AuthorityIsSufficient(item)
    <2>1. Disposition(item, r, now) = "FACTUAL"
      BY DEF Said, Gated
    <2> HIDE DEF item, r
    <2> QED
      BY <2>1, DispositionFacts
  <1>3. Said(i).citations = Classified(item.claim, item.refs, "SUPPORTING")
    BY <1>2 DEF Said, Gated, Citations, Accepting
  <1> HIDE DEF at
  <1>4. /\ Contradicting(item.claim, item.refs, at) = {}
        /\ \E k \in Supporting(item.claim, item.refs, at) : FreshReference(item.refs[k], at)
    BY <1>1, <1>2, VerifiedSides
  <1>5. \A k \in References(item.refs) : item.refs[k].retrieved \in Int
    <2>1. \A k \in References(item.refs) : item.refs[k] \in EvidenceRecords
      BY <1>1 DEF References
    <2>2. \A e \in EvidenceRecords : e.retrieved \in Int
      BY DEF EvidenceRecords
    <2> QED
      BY <2>1, <2>2
  <1>6. \E k \in Said(i).citations : item.refs[k].relevant /\ item.refs[k].retrieved <= at
    <2>1. PICK k \in Supporting(item.claim, item.refs, at) : TRUE
      BY <1>4
    <2>2. /\ k \in Classified(item.claim, item.refs, "SUPPORTING")
          /\ item.refs[k].retrieved <= at
      BY <2>1 DEF Supporting, Retrieved
    <2>3. Match(item.claim, item.refs[k]) = "SUPPORTING"
      BY <2>2 DEF Classified
    <2>4. item.refs[k].relevant
      BY <2>3 DEF Match, Relevant
    <2> QED
      BY <1>3, <2>2, <2>4
  <1>7. \A k \in References(item.refs) :
           Match(item.claim, item.refs[k]) = "CONTRADICTING" => item.refs[k].retrieved > at
    <2> SUFFICES ASSUME NEW k \in References(item.refs),
                        Match(item.claim, item.refs[k]) = "CONTRADICTING",
                        ~(item.refs[k].retrieved > at)
                 PROVE  FALSE
      OBVIOUS
    <2>1. item.refs[k].retrieved <= at
      BY <1>1, <1>5
    <2>2. k \in Contradicting(item.claim, item.refs, at)
      BY <2>1 DEF Contradicting, Classified, Retrieved
    <2> QED
      BY <1>4, <2>2
  <1>8. item.kind # "other" => \E k \in Said(i).citations :
           /\ Match(item.claim, item.refs[k]) = "SUPPORTING"
           /\ item.refs[k].tier <= (IF item.kind = "material_event" THEN 3 ELSE 2)
    BY <1>2, <1>3 DEF AuthorityIsSufficient, Classified
  <1>9. item.kind \in {"market_price", "market_change"} =>
           item.claim.asOf # Undated /\ now - item.claim.asOf \in 0..1
    <2>1. item.claim.asOf \in Int
      BY <1>1 DEF ClaimRecords
    <2>2. item.claim.asOf <= now
      BY DEF SynthesisInductive, GateAdmits
    <2> QED
      BY <1>1, <1>2, <2>1, <2>2 DEF Freshness
  <1> QED
    BY <1>2, <1>6, <1>7, <1>8, <1>9 DEF at

\* Nothing is published as plain fact without evidence that proves it.
THEOREM PublishedFactsAreProven == SynthesisSpec => []FactsAreProven
  <1>1. SynthesisInductive => FactsAreProven
    <2> SUFFICES ASSUME SynthesisInductive, Published, NEW n \in 1..Len(document.claims),
                        document.claims[n].disposition = "FACTUAL"
                 PROVE  LET c == document.claims[n]
                            i == ItemOf(c.id)
                            item == Items[i]
                        IN /\ \E k \in c.citations : item.refs[k].relevant
                                 /\ item.refs[k].retrieved <= results[i].at
                           /\ \A k \in References(item.refs) :
                                 Match(item.claim, item.refs[k]) = "CONTRADICTING" =>
                                    item.refs[k].retrieved > results[i].at
                           /\ item.kind # "other" => \E k \in c.citations :
                                 /\ Match(item.claim, item.refs[k]) = "SUPPORTING"
                                 /\ item.refs[k].tier <=
                                      (IF item.kind = "material_event" THEN 3 ELSE 2)
                           /\ item.kind \in {"market_price", "market_change"} =>
                                 item.claim.asOf # Undated /\ now - item.claim.asOf \in 0..1
                           /\ ~item.advice
      BY DEF FactsAreProven
    <2>1. PICK i \in 1..Len(Items) :
             document.claims[n] = Said(i) /\ ItemOf(document.claims[n].id) = i
      BY DocumentFacts
    <2> QED
      BY <2>1, ProvenFacts
  <1> QED
    BY <1>1, SynthesisInvariant, PTL

\* A claim cites both sides of every contradiction recorded with it, and all
\* that speaks against it when it is shown as a conflict.
LEMMA CitedFacts ==
    ASSUME SynthesisInductive, Published, NEW i \in 1..Len(Items)
    PROVE  LET c == Said(i)
               item == Items[i]
               against == {k \in References(item.refs) :
                             Match(item.claim, item.refs[k]) = "CONTRADICTING"}
               named == UNION {{p[1], p[2]} : p \in c.contradictions}
           IN  /\ named \subseteq c.citations
               /\ c.disposition = "CONFLICT" => against \subseteq c.citations
  <1> DEFINE item == Items[i]
             r == results[i]
             pro == Classified(item.claim, item.refs, "SUPPORTING")
             contra == Classified(item.claim, item.refs, "CONTRADICTING")
  <1>1. /\ r.status = Status(item.claim, item.refs, r.at)
        /\ r.contradictions = Contradictions(item.claim, item.refs, r.at)
    BY SaidFacts, ResultFacts
  <1>2. Said(i).contradictions = r.contradictions
    BY DEF Said, Gated
  <1>3. r.status = "CONFLICTING" => Said(i).citations = pro \cup contra
    BY DEF Said, Gated, Citations, Accepting
  <1>4. Said(i).disposition = "CONFLICT" => r.status = "CONFLICTING"
    <2>1. Said(i).disposition = Disposition(item, r, now)
      BY DEF Said, Gated
    <2> HIDE DEF item, r
    <2> QED
      BY <2>1, DispositionFacts
  <1>5. ASSUME NEW p \in Said(i).contradictions
        PROVE  p[1] \in Said(i).citations /\ p[2] \in Said(i).citations
    <2>1. p \in Contradictions(item.claim, item.refs, r.at)
      BY <1>1, <1>2
    <2>2. /\ p[1] \in Supporting(item.claim, item.refs, r.at)
          /\ p[2] \in Contradicting(item.claim, item.refs, r.at)
      BY <2>1 DEF Contradictions
    <2>3. p[1] \in pro /\ p[2] \in contra
      BY <2>2 DEF Supporting, Contradicting
    <2>4. r.status = "CONFLICTING"
      BY <1>1, <2>2, StatusSides
    <2> QED
      BY <1>3, <2>3, <2>4
  <1>6. {k \in References(item.refs) : Match(item.claim, item.refs[k]) = "CONTRADICTING"}
          = contra
    BY DEF Classified
  <1> HIDE DEF pro, contra
  <1> QED
    BY <1>3, <1>4, <1>5, <1>6

\* Every format prints each listed claim with its evidence, and every cited
\* reference among the sources.
LEMMA ReportFacts ==
    ASSUME NEW d, NEW c \in Range(d.claims), c.section \in 1..8,
           NEW format \in {"structured_json", "markdown", "docx"}
    PROVE  /\ \E l \in Rendered(d, format).claims :
                 l.id = c.id /\ l.evidence = c.citations /\ l.disposition = c.disposition
           /\ \A k \in c.citations : <<c.id, k>> \in Rendered(d, format).appendix.sources
  <1> DEFINE claims == Range(d.claims)
             line == [id |-> c.id, disposition |-> c.disposition, label |-> c.label,
                      evidence |-> c.citations]
  <1>1. line \in ClaimLines(claims)
    BY DEF ClaimLines
  <1>2. line \in UNION {ClaimLines({e \in claims : e.section = s}) : s \in 1..8}
    <2> DEFINE mine == {e \in claims : e.section = c.section}
    <2>1. c \in mine
      OBVIOUS
    <2> HIDE DEF mine
    <2>2. line \in ClaimLines(mine)
      BY <2>1 DEF ClaimLines
    <2>3. line \in ClaimLines({e \in claims : e.section = c.section})
      BY <2>2 DEF mine
    <2> HIDE DEF line, claims
    <2> QED
      BY <2>3
  <1>3. \A k \in c.citations : <<c.id, k>> \in Appendix(claims).sources
    BY DEF Appendix
  <1>4. /\ Rendered(d, format).appendix = Appendix(claims)
        /\ \/ Rendered(d, format).claims = ClaimLines(claims)
           \/ Rendered(d, format).claims =
                UNION {ClaimLines({e \in claims : e.section = s}) : s \in 1..8}
    BY DEF Rendered, JsonContent, MarkdownContent, DocxBody
  <1>5. /\ line.id = c.id /\ line.evidence = c.citations
        /\ line.disposition = c.disposition
    OBVIOUS
  <1> HIDE DEF line, claims
  <1>6. line \in Rendered(d, format).claims
    BY <1>1, <1>2, <1>4
  <1> QED
    BY <1>3, <1>4, <1>5, <1>6

\* Both sides of every recorded disagreement reach the reader.
THEOREM DisagreementReachesReader == SynthesisSpec => []DisagreementIsCited
  <1>1. SynthesisInductive => DisagreementIsCited
    <2> SUFFICES ASSUME SynthesisInductive, Published, NEW n \in 1..Len(document.claims)
                 PROVE  LET c == document.claims[n]
                            item == Items[ItemOf(c.id)]
                            against == {k \in References(item.refs) :
                                          Match(item.claim, item.refs[k]) = "CONTRADICTING"}
                            named == UNION {{p[1], p[2]} : p \in c.contradictions}
                        IN /\ named \subseteq c.citations
                           /\ c.disposition = "CONFLICT" => against \subseteq c.citations
                           /\ report # NoReport =>
                                /\ \E l \in report.claims :
                                      l.id = c.id /\ l.evidence = c.citations
                                        /\ l.disposition = c.disposition
                                /\ \A k \in named : <<c.id, k>> \in report.appendix.sources
      BY DEF DisagreementIsCited
    <2> DEFINE c == document.claims[n]
               named == UNION {{p[1], p[2]} : p \in c.contradictions}
    <2>1. PICK i \in 1..Len(Items) : c = Said(i) /\ ItemOf(c.id) = i
      BY DocumentFacts
    <2>2. /\ named \subseteq c.citations
          /\ c.disposition = "CONFLICT" =>
                {k \in References(Items[i].refs) :
                    Match(Items[i].claim, Items[i].refs[k]) = "CONTRADICTING"}
                  \subseteq c.citations
      BY <2>1, CitedFacts
    <2>3. ASSUME report # NoReport
          PROVE  /\ \E l \in report.claims : l.id = c.id /\ l.evidence = c.citations
                                               /\ l.disposition = c.disposition
                 /\ \A k \in c.citations : <<c.id, k>> \in report.appendix.sources
      <3>1. c \in Range(document.claims) /\ c.section \in 1..8
        <4>1. c \in Sayings /\ Range(document.claims) = Sayings
          BY DocumentFacts
        <4> HIDE DEF c
        <4> QED
          BY <4>1, SaidFacts
      <3>2. report = Rendered(document, request.format)
        BY DEF SynthesisInductive
      <3>3. request.format \in {"structured_json", "markdown", "docx"}
        BY <2>3, <3>2, ItemFacts DEF SynthesisInductive, Rendered
      <3> HIDE DEF c
      <3> QED
        BY <3>1, <3>2, <3>3, ReportFacts
    <2> HIDE DEF c, named
    <2>4. report # NoReport =>
             /\ \E l \in report.claims : l.id = c.id /\ l.evidence = c.citations
                                           /\ l.disposition = c.disposition
             /\ \A k \in named : <<c.id, k>> \in report.appendix.sources
      BY <2>2, <2>3
    <2> QED
      BY <2>1, <2>2, <2>4 DEF c, named
  <1> QED
    BY <1>1, SynthesisInvariant, PTL

\* A fact is left out of the summary only for other facts.
THEOREM FactsComeFirst == SynthesisSpec => []SummaryKeepsFacts
  <1>1. SynthesisInductive => SummaryKeepsFacts
    <2> SUFFICES ASSUME SynthesisInductive, Published, NEW n \in 1..Len(document.claims),
                        document.claims[n].disposition = "FACTUAL",
                        document.claims[n] \notin Range(document.summary)
                 PROVE  /\ Len(document.summary) = MaxSummary
                        /\ \A k \in 1..MaxSummary :
                              document.summary[k].disposition = "FACTUAL"
      BY DEF SummaryKeepsFacts
    <2>1. document.claims[n] \in Sayings /\ document.summary = Summary(Sayings)
      BY DocumentFacts DEF Sayings
    <2>2. /\ \A c \in Sayings : /\ c.disposition \in DOMAIN Group
                                /\ c.score \in Int /\ c.materiality \in Int /\ c.id \in Int
          /\ IsFiniteSet(Sayings) /\ \A c, d \in Sayings : c.id = d.id => c = d
      BY SaidFacts
    <2> QED
      BY <2>1, <2>2, SummaryFacts
  <1> QED
    BY <1>1, SynthesisInvariant, PTL

\* A synthesis that calls itself complete answers every claim, and nothing it
\* says is contradicted, stale or withheld.
THEOREM CompleteMeansWhole == SynthesisSpec => []CompleteIsWhole
  <1>1. SynthesisInductive => CompleteIsWhole
    <2> SUFFICES ASSUME SynthesisInductive, Published, document.status = "COMPLETE"
                 PROVE  /\ {document.claims[n].id : n \in 1..Len(document.claims)}
                             = {Items[i].id : i \in 1..Len(Items)}
                        /\ \A n \in 1..Len(document.claims) :
                              /\ document.claims[n].contradictions = {}
                              /\ document.claims[n].label \in {"HIGH", "MODERATE", "LOW"}
      BY DEF CompleteIsWhole
    <2>1. \A c \in Sayings : c.disposition \in Factual
      BY DocumentFacts DEF SynthesisStatus
    <2>2. \A n \in 1..Len(document.claims) : \E i \in 1..Len(Items) :
             document.claims[n] = Said(i) /\ document.claims[n].id = Items[i].id
      BY DocumentFacts, SaidFacts
    <2>3. \A i \in 1..Len(Items) : \E n \in 1..Len(document.claims) :
             document.claims[n].id = Items[i].id
      BY DocumentFacts, SaidFacts
    <2>4. ASSUME NEW i \in 1..Len(Items)
          PROVE  Said(i).contradictions = {} /\ Said(i).label \in {"HIGH", "MODERATE", "LOW"}
      <3> DEFINE item == Items[i]
                 r == results[i]
      <3>1. Said(i) \in Sayings
        BY DEF Sayings
      <3>2. /\ Said(i).disposition = Disposition(item, r, now)
            /\ Said(i).label = Label(item, r, now)
            /\ Said(i).contradictions = r.contradictions
        BY DEF Said, Gated
      <3>3. /\ r.status = Status(item.claim, item.refs, r.at)
            /\ r.contradictions = Contradictions(item.claim, item.refs, r.at)
        BY SaidFacts, ResultFacts
      <3> HIDE DEF item, r
      <3>4. /\ r.status \in {"VERIFIED", "PARTIALLY_VERIFIED"}
            /\ Freshness(item, r, now) # "STALE"
        BY <2>1, <3>1, <3>2, DispositionFacts
      <3>5. Contradicting(item.claim, item.refs, r.at) = {}
        BY <3>3, <3>4, StatusSides DEF Accepting
      <3>6. r.contradictions = {}
        BY <3>3, <3>5 DEF Contradictions
      <3>7. Label(item, r, now) \in {"HIGH", "MODERATE", "LOW"}
        BY <3>4 DEF Label
      <3> QED
        BY <3>2, <3>6, <3>7
    <2>5. \A n \in 1..Len(document.claims) :
             /\ document.claims[n].contradictions = {}
             /\ document.claims[n].label \in {"HIGH", "MODERATE", "LOW"}
      BY <2>2, <2>4
    <2>6. {document.claims[n].id : n \in 1..Len(document.claims)}
            = {Items[i].id : i \in 1..Len(Items)}
      <3> DEFINE listed == {document.claims[n].id : n \in 1..Len(document.claims)}
                 asked == {Items[i].id : i \in 1..Len(Items)}
      <3>1. listed \subseteq asked
        BY <2>2
      <3>2. asked \subseteq listed
        BY <2>3
      <3> HIDE DEF listed, asked
      <3>3. listed = asked
        BY <3>1, <3>2
      <3> QED
        BY <3>3 DEF listed, asked
    <2> QED
      BY <2>5, <2>6
  <1> QED
    BY <1>1, SynthesisInvariant, PTL

=============================================================================
