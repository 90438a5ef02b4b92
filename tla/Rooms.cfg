SPECIFICATION RoomsSpec
CONSTANTS
    Player = {p1, p2}
    Room = {r1}
    Conn = {c1, c2}
    App = App
    Entity = {"e1", "e2"}
    Prop = {"hp"}
    StateRoom = {"r1"}
    Stamp = {1, 2}
    Hooks = {{}, {"diff"}}
    PlayerId = {p1, p2}
    RoomId = {"r1", "r2"}
    Where = {"here"}
    Order <- Registered
    Free = Free
    KeepSnapshots = 1
    MaxFrame = 1
    MaxQueue = 2
    AppDestroys = TRUE
    AppLeaves = TRUE
SYMMETRY Symmetry
INVARIANTS RoomMapsAgree SubscribersFollow NoGhosts
PROPERTY AdvanceNeedsEveryPlayer
CHECK_DEADLOCK FALSE
