SPECIFICATION FairSpec
CONSTANTS
    Worker = {w1, w2}
    Priority = {0, 1}
    MaxQueueSize = 2
    MaxId = 3
    NoTask = NoTask
    NoWorker = NoWorker
INVARIANTS BooksAgree
PROPERTIES ImplementsExecutor WorkIsTaken
