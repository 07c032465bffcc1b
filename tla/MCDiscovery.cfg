SPECIFICATION FairSpec
CONSTANTS
    None = None
    n1 = n1
    n2 = n2
    Hosts = {n1, n2}
    Late = {n2}
    Networks = {"lan", "lo", "wlan"}
    Interfaces <- MCInterfaces
    Whitelist <- MCWhitelist
    Faulty = {n1}
    Periods = {1}
    Width = 2
    MaxInFlight = 2
    MaxFaults = 1
INVARIANTS
    TypeOK
    BeaconsDecoded
    NeighboursAreOthers
    AnswersEnd
    MarkOnlyAfterFailure
PROPERTIES
    Discovered
    LayerReannounced
