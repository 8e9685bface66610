SPECIFICATION FairSpec
CONSTANTS
    Threads = {t1, t2}
    Tasks = {k1}
    MaxVersion = 2
CHECK_DEADLOCK FALSE
PROPERTY ExecutionEnds
