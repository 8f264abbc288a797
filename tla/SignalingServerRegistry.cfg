SPECIFICATION Spec
CONSTANTS
    Ids = {1, 2}
    c1 = c1
    c2 = c2
    Conns = {c1, c2}
    NoConn = NoConn
    MayRegister <- TwoIds
    Dialog = {"connect_request", "connect_accept", "ice_candidate"}
    StaleAfter = 2
    MaxQueue = 1
INVARIANTS ToldIsOwner IInv OnlyOwnerHears RegisteredIsServed
PROPERTY PromisesKept
CHECK_DEADLOCK FALSE
