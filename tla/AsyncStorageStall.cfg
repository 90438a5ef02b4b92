SPECIFICATION FairSpec
CONSTANTS
    Worker = {w1}
    Client = {c1, c2}
    Task = {t1, t2, t3, t4}
    NoTask = NoTask
    MaxQueueSizes = {1}
    TasksCall = FALSE
    LateDestroy = FALSE
PROPERTY EnqueueReturns
CHECK_DEADLOCK FALSE
