SPECIFICATION TileSpec
CONSTANTS
    TileWidth = 3
    TileHeight = 2
    ByteValues = 8
    Tiles <- GreyTiles
    MaxError = 2
    Transforms <- NoTransforms
INVARIANT ErrorBounded
CHECK_DEADLOCK FALSE
