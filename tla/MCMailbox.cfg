CONSTANTS
    Mboxes = {tx, rx, mx}
    TX = tx
    RX = rx
    Users = {mpu}
    MPU = mpu
    Words = {a, b}
    Masks <- MCMasks
    DEPTH = 2
    Window = 1
SPECIFICATION EchoSpec
INVARIANTS NewmsgIsLevel NoStrandedRequest EchoStream
PROPERTY RequestAnswered
