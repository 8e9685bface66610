SPECIFICATION Spec
CONSTANTS
    Threads = {t1, t2, t3}
    Tasks = {k1}
    MaxVersion = 1
CHECK_DEADLOCK FALSE
SYMMETRY ThreadSymmetry
INVARIANTS
    TypeOK
    ApprovalGate
    RunningHasExecutor
    CheckpointFollowsRecord
    NotificationsTruthful
    AnswersStayTrue
PROPERTIES
    TerminalIsFinal
    Lifecycle
