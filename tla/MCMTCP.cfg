SPECIFICATION FairSpec
CONSTANTS
    None = None
    n1 = n1
    n2 = n2
    p = p
    bundle = bundle
    empty = empty
    text = text
    Hosts = {n1, n2}
    MicroPython = {n2}
    Peers = {p}
    Connections = {1, 2}
    Messages = {bundle, empty, text}
    Bundles = {bundle}
    Size <- MCSize
    Invalid = {text}
    Scripts <- MCScripts
    Capacity = 2
    MaxWaiting = 1
    MaxOpen = 1
INVARIANTS
    TypeOK
    OnePlace
    SuccessNotLost
PROPERTIES
    TransferKept
    SentIsReceived
    PollReturns
    Released
