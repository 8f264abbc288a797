SPECIFICATION LiveSpec
CONSTANTS
    Ids = {1}
    c1 = c1
    c2 = c2
    Conns = {c1, c2}
    NoConn = NoConn
    MayRegister <- OneUser
    Dialog = {}
    StaleAfter = 1
    MaxQueue = 2
PROPERTIES RegisterHandled ClosedUserRemoved VanishedUserRemoved
CHECK_DEADLOCK FALSE
