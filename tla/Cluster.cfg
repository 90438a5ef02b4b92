SPECIFICATION ClusterSpec
CONSTANTS
    Req = {q1, q2}
    SyncReq = {q1}
    MaxConn = 2
    Threshold = 1
    Limited = TRUE
    Reconnects = TRUE
    Client = {c1, c2}
    Threads = {2, 6}
    MaxRequest = 2
    MaxDeath = 1
    Servers = {"router", "rpc"}
    Method = {m1}
    Sizes = {0, 2, 3}
    LenMod = 3
    CompactAt = 3
    MaxSent = 3
    MaxLink = 2
INVARIANTS CallsSound EveryRequestOnce ForwardMapsAgree
PROPERTIES EveryCallAnswered ReplyReturns
