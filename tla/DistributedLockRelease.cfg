SPECIFICATION Spec
CONSTANTS
    Lock = {l1, l2}
    MaxAcquire = 2
    Server = {FALSE}
    Punctual = {FALSE}
    CrashAt = {}
PROPERTY OnlyHolderReleases
