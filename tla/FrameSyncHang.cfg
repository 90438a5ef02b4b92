SPECIFICATION FairSpec
CONSTANTS
    Player = {p1}
    Room = {r1}
    Conn = {c1, c2}
    App = App
    Free = Free
    KeepSnapshots = 1
    MaxFrame = 1
    MaxQueue = 1
    AppDestroys = FALSE
    AppLeaves = FALSE
PROPERTY BroadcastReturns
CHECK_DEADLOCK FALSE
