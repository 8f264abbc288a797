SPECIFICATION LiveSpec
CONSTANTS
    Levels = 3
    DownscaleFrames = 2
    UpscaleFrames = 2
    Tiles = {t1, t2}
    Contents = {0, 1, 2}
    Threshold = 1
    RingSize = 2
    NoFrame = NoFrame
    Black = Black
    Garbled = Garbled
    MaxChanges = 2
    MaxPackets = 2
INVARIANTS StreamInv
PROPERTIES SentIsShown Converges
CHECK_DEADLOCK FALSE
