CONSTANTS
    QUEUE = 2
    FRAME = 2
    HOLD = 2
    INNER = 6
    CHUNK = 3
    Chunks <- MCChunks
    ReadLens <- MCReadLens
    NoChunk = nochunk
    Pins = {12}
    PinMasks <- MCPinMasks
    PIN = 12
SPECIFICATION PathSpec
INVARIANTS IntFollowsQueue NoStuckContact StreamAlive ChunkFits LevelLatched FrameInterrupts
PROPERTIES HoldRespected ContactSettles
