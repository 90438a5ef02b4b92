SPECIFICATION CoordinationSpec
CONSTANTS
    Node = {"node1", "node2"}
    Silent = {"client"}
    Service = {"gateway", "logic"}
    serviceOf <- Typed
    Interval = 1
    Timeout = 2
    SweepInterval = 2
    Listeners = {"plain"}
    Punctuality = {TRUE, FALSE}
    Key = {"k"}
    Field = {1, 2}
    Value = {0, 1}
    Score = {1, 2}
    MaxLen = 2
    Lock = {l1, l2}
    MaxAcquire = 3
    Server = {TRUE, FALSE}
    Punctual = {TRUE, FALSE}
    CrashAt = {"leased", "holding", "stopping", "joined", "deleting"}
INVARIANTS LockSound StoreConsistent DirectoryExact
PROPERTIES LossIsNoticed KeyIsFreed MembershipSettles
