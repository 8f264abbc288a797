SPECIFICATION LiveSpec
CONSTANTS
    NoPeer = NoPeer
    Peers = {p, q}
    Timeout = 1
    MaxAsks = 1
    MaxRequests = 1
    MaxKeys = 1
    MaxPending = 2
PROPERTIES ConnectingEnds LostSessionEnds
INVARIANTS AppInv OnlyInvited HostHasSession SignalingOutlives
CHECK_DEADLOCK FALSE
