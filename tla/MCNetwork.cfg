SPECIFICATION FairSpec
CONSTANTS
    None = None
    n1 = n1
    n2 = n2
    n3 = n3
    Nodes = {n1, n2, n3}
    Senders = {n1, n2}
    MicroPython = {n2}
    Links <- MCLinks
    Strangers <- MCStrangers
    Faulty = {n1, n2}
    MinNodes = 2
    MaxKnown = 1
    HopLimit = 3
    MaxBundles = 2
    StartTime <- MCStartTime
    MaxPause = 0
    MaxFaults = 1
INVARIANTS
    TypeOK
    DeliveredOncePerRun
    IdsTellApart
    SpreadWhenQuiet
PROPERTIES
    FloodingKept
    FloodEnds
CHECK_DEADLOCK FALSE
