SPECIFICATION Spec
CONSTANTS
    MaxAge = 2
    Claims <- MCClaims
    Evidence <- MCEvidence
    MaxEvidence = 3
    MaxAttempts = 3
    LastDay = 3
    Requests <- MCRequests
    MaxSummary = 2
    Today = {2, 3}
CHECK_DEADLOCK FALSE
INVARIANTS
    CriticNeverStuck
    VerifiedIsGrounded
    FactsAreProven
    DisagreementIsCited
    SummaryKeepsFacts
    CompleteIsWhole
PROPERTIES
    DoubtNeverHelps
