SPECIFICATION Spec
CONSTANTS
    Tasks = {1, 2, 3}
    Plans <- MCPlans
    Budgets <- MCBudgets
    MaxSessions = 1
CHECK_DEADLOCK FALSE
INVARIANTS
    TypeOK
    BudgetRespected
    DependenciesFirst
    EverythingSettled
    GuardsNeverFire
PROPERTIES
    SuccessKept
