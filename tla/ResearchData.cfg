SPECIFICATION Spec
CONSTANTS
    Catalog <- MCCatalog
    Questions <- MCQuestions
    t1 = t1
    t2 = t2
    Threads = {t1, t2}
    Calls <- AllCalls
    MaxCalls = 3
    Fixtures <- MCFixtures
    LiveKinds = {"market", "financial"}
    Registered = {"company_resolution", "market", "financial", "news", "industry", "regulatory"}
    Unavailable = {"regulatory"}
    TTL = 2
    StaleAfter = 1
    MaxNow = 2
    Years = {"FY2"}
    Payloads <- MCPayloads
    YearsAsked = {0, 1, 2, 7}
    Checkers = {t1, t2}
    ListRequests <- MCListRequests
    MaxLists = 2
    MaxChecks = 2
SYMMETRY Symmetry
CHECK_DEADLOCK FALSE
INVARIANTS
    ResolvedIsEntitled
    OriginTruthful
    RightCompany
    RefusedLeavesNoTrace
    PackageIsTraceable
    MonitoringKeepsCompanies
PROPERTIES
    FreshEntryKept
