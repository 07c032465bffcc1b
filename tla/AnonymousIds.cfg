SPECIFICATION Spec
CONSTANTS
    None = None
    n1 = n1
    n2 = n2
    e1 = e1
    e2 = e2
    e3 = e3
    g1 = g1
    g2 = g2
    Addresses <- OneAddress
    Uris <- MCTwoUris
    Anonymous = "dtn:none"
    MicroPython = FALSE
    Infos <- MCInfos2
    Clas = {"mtcp"}
    MaxStored = 1
    MaxKnown = 2
    UnicastClas = {"mtcp"}
    BroadcastClas = {}
    MinNodes = 1
    Endpoints = {e1, e2}
    GroupEndpoints = {}
    Uri <- MCUriTwo
    Malformed = {}
    LocalLifetime = 2
    LocalHopLimit = 32
    AnonymousUse = {TRUE}
    MaxMembers = 0
    MaxTime = 1
    RemoteBundles = {}
    BackgroundThread = FALSE
    CallbacksRaise = FALSE
INVARIANTS
    LocalIdsUnique
