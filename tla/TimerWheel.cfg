SPECIFICATION FairWheelSpec
CONSTANTS
    Timer = {t1, t2}
    Repeating = {t2}
    NoTimer = NoTimer
    Delay = {3, 8}
    Tick = 2
    Size = 2
    Layers = 2
    LateCap = 7
    Pauses = {TRUE, FALSE}
INVARIANTS WheelSound
PROPERTIES NeverEarly TimersExpire
