SPECIFICATION Spec
CONSTANTS
    None = None
    n1 = n1
    n2 = n2
    e1 = e1
    e2 = e2
    e3 = e3
    g1 = g1
    g2 = g2
    Addresses <- OneAddress
    Uris <- MCUris
    Anonymous = "dtn:none"
    MicroPython = FALSE
    Infos <- MCInfos3
    Clas = {"mtcp"}
    MaxStored = 2
    MaxKnown = 3
    UnicastClas = {"mtcp"}
    BroadcastClas = {}
    MinNodes = 1
    Endpoints = {}
    GroupEndpoints = {}
    Uri <- NoUri
    Malformed = {}
    LocalLifetime = 2
    LocalHopLimit = 32
    AnonymousUse = {FALSE}
    MaxMembers = 0
    MaxTime = 2
    RemoteBundles <- Transit
    BackgroundThread = FALSE
    CallbacksRaise = FALSE
INVARIANTS
    Bounded
    NothingLost
    ForeignReceivedOnce
PROPERTIES
    PendingLeavesStoreRightly
