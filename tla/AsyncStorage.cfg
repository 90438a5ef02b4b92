SPECIFICATION FairSpec
CONSTANTS
    Worker = {w1, w2}
    Client = {c1, c2}
    Task = {t1, t2, t3}
    NoTask = NoTask
    MaxQueueSizes = {0, 1}
    TasksCall = TRUE
    LateDestroy = TRUE
INVARIANTS QueueSound
PROPERTIES ImplementsExecutor EveryCallAnswered
CHECK_DEADLOCK FALSE
