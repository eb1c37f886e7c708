CONSTANTS
    Registers <- MCRegisters
    Lcds = {"LCD2"}
    BootOutput = "LCD2"
    Buffers = {b0, b1}
    FirstBuffer = b0
    Frames = {f1, f2}
    NoFrame = none
    FRAME = 2
    WRITES = 2
SPECIFICATION DispcSpec
INVARIANTS IrqHonest FrameOnScreen
PROPERTIES GoClears FrameShown
