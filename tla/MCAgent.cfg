SPECIFICATION Spec
CONSTANTS
    None = None
    n1 = n1
    n2 = n2
    e1 = e1
    e2 = e2
    e3 = e3
    g1 = g1
    g2 = g2
    Addresses <- MCAddresses
    Uris <- HereOnly
    Anonymous = "dtn:none"
    MicroPython = TRUE
    Infos <- MCInfos2
    Clas = {"mtcp"}
    MaxStored = 1
    MaxKnown = 1
    UnicastClas = {"mtcp"}
    BroadcastClas = {"espnow"}
    MinNodes = 2
    Endpoints = {e1}
    GroupEndpoints = {}
    Uri <- MCUriOne
    Malformed = {}
    LocalLifetime = 2
    LocalHopLimit = 32
    AnonymousUse = {FALSE}
    MaxMembers = 0
    MaxTime = 0
    RemoteBundles <- ForHere
    BackgroundThread = TRUE
    CallbacksRaise = FALSE
INVARIANTS
    TypeOK
    
    Bounded
    OnlyForwardedCollected
    SentOncePerNode
    LocalIdsUnique
SYMMETRY AddressSymmetry
