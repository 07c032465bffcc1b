SPECIFICATION Spec
CONSTANTS
    None = None
    n1 = n1
    n2 = n2
    e1 = e1
    e2 = e2
    e3 = e3
    g1 = g1
    g2 = g2
    Addresses = {}
    Uris <- MCGroupUris
    Anonymous = "dtn:none"
    MicroPython = FALSE
    Infos <- MCInfos2
    Clas = {}
    MaxStored = 1
    MaxKnown = 2
    UnicastClas = {}
    BroadcastClas = {}
    MinNodes = 1
    Endpoints = {e1, e2, e3}
    GroupEndpoints = {g1, g2}
    Uri <- MCUriGroup
    Malformed = {e3}
    LocalLifetime = 2
    LocalHopLimit = 32
    AnonymousUse = {FALSE}
    MaxMembers = 2
    MaxTime = 0
    RemoteBundles <- ToGroup
    BackgroundThread = FALSE
    CallbacksRaise = TRUE
INVARIANTS
    LostOnlyDelivered
    DeliveredOnce
    RegistrationsMatch
    SendersRegistered
SYMMETRY EndpointSymmetry
