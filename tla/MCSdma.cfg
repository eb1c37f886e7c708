CONSTANTS
    Chans = {c1, c2}
    Outputs = {o1}
    Totals <- MCTotals
    ChanMasks <- MCChanMasks
    STEP = 1
    BURST = 2
    WORD = 4
SPECIFICATION SdmaSpec
INVARIANTS EngineRuns EnabledIsActive CompletionIsWhole
PROPERTY ChannelCompletes
