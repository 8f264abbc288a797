SPECIFICATION FramesSpec
CONSTANTS
    Modes = {1, 2}
    Retries = 2
    MaxSwitches = 3
    MaxDrawings = 3
    Rects <- SomeRects
    MaxDirty = 4
    Limits = {1, 2}
    Levels = 3
    DownscaleFrames = 10
    UpscaleFrames = 30
    TileWidth = 5
    TileHeight = 4
    ByteValues = 8
    Tiles <- SomeTiles
    MaxError = 2
    Transforms <- SomeTransforms
    AlphabetSize = 4
    Scale = 4
    ByteSize = 2
    LowerBound = 16
    WordSize = 64
    Messages <- SomeMessages
    IdrPeriod = 3
    MaxInits = 2
    MfDelay = 1
    MfRoom = 3
    MaxMfInits = 3
    MaxFaults = 2
INVARIANTS
    DxgiInv X11Inv MergedCovers QualityInv PixelPerfect RansInv VaInv MfInv
PROPERTIES
    Hysteresis FramesAgain ChangeIsCaptured VaKeyFrameServed MfKeyFrameServed
    H264KeyFrameServed
CHECK_DEADLOCK FALSE
