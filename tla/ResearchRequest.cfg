SPECIFICATION Spec
CONSTANTS
    MaxBody = 3
    MaxChunks = 3
    ChunkSizes = {0, 1, 2}
    Slice <- MCSlice
    MaxRetries = 2
    Ceiling = 1
    Payloads <- MCPayloads
    Planners <- PlannersWired
    Objectives <- MCObjectives
    Unavailable = {"regulatory_intelligence"}
    MaxTasks = 3
    MaxDepth = 2
CHECK_DEADLOCK FALSE
INVARIANTS
    SafetyTypeOK
    BodyWholeAndBounded
    NotReadyServesNobody
    ProtectedAdmission
    PlannerHasModel
    PlanningTypeOK
    PlanRunnable
    PlanIsTheFreeAnswer
    IdentityFirst
    RetriesBounded
    AnsweredNotRepeated
