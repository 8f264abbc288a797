SPECIFICATION ClientLiveSpec
CONSTANTS
    MaxAttempts = 2
    MaxLinks = 3
    MaxFails = 1
    MaxInbox = 2
PROPERTY ComesBack
CHECK_DEADLOCK FALSE
