SPECIFICATION ThreadsSpec
CONSTANTS
    Items = {f1, f2}
    Capacity = 4
    None = None
    Hollow = Hollow
    PoolThreads = {1, 2}
    MaxPools = 3
    MaxTiles = 3
    MaxDecodes = 2
    Senders = {t1, t2}
    HeaderSize = 2
    Lengths = {0, 1, 3}
    BufferSize = 3
    PipeSize = 4
    MaxMessages = 3
    MaxAttempts = 2
    MaxLinks = 2
    MaxFails = 2
    MaxInbox = 2
INVARIANTS
    NoRace PoolSafe FramingInv ClientInv
PROPERTIES
    IsFifo PoolServes Received ComesBackAlone DisconnectReturns
CHECK_DEADLOCK FALSE
