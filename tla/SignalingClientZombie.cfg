SPECIFICATION ClientSpec
CONSTANTS
    MaxAttempts = 2
    MaxLinks = 3
    MaxFails = 1
    MaxInbox = 2
INVARIANT DisconnectDisconnects
CHECK_DEADLOCK FALSE
