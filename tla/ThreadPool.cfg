SPECIFICATION FairSpec
CONSTANTS
    Worker = {w1, w2}
    Client = {c1, c2}
    Task = {t1, t2, t3}
    NoTask = NoTask
INVARIANTS HeldOnce NoLostWakeup
PROPERTIES ImplementsExecutor ImplementsFairExecutor
