CONSTANTS
    WRAP = 4
    NS = 5
    Rates = {1, 2}
    Values <- MCValues
    IrqMasks <- MCIrqMasks
    LATE = 3
SPECIFICATION GptSpec
INVARIANT DeadlineInTime
PROPERTIES CounterContinuous OverflowComes
