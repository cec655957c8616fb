SPECIFICATION FairSpec
CONSTANTS
    hub = hub
    left = left
    right = right
    Gateways = {hub, left, right}
    PeersOf <- RelayPeers
    Writers = {hub, left}
    Ids = {i1, i2}
    MaxFailures = 1
    MaxInsertFailures = 1
CHECK_DEADLOCK FALSE
INVARIANT
    MirrorIsPrefix
PROPERTIES
    ImplementsReplication
    EntriesArrive
