CONSTANTS
    Addrs = {touch, none}
    Slaves = {touch}
    NoSlave = noslave
    Bytes = {b}
    FIFO = 2
    Counts = {0, 1, 3}
    Masks <- MCMasks
    Cons <- MCCons
SPECIFICATION I2cSpec
VIEW MCView
INVARIANTS CompletionArmed IrqFollowsStat WriteNotStuck BusHeld
