CONSTANTS
    r = r
    x = x
    t1 = t1
    t2 = t2
    t3 = t3
    t4 = t4
    Renders = {r}
    Transfers = {x}
    Tasks = {t1, t2, t3, t4}
    Ctx <- MCCtx
    TaSyncs = {texture}
    FragSyncs = {frag}
    DstSyncs = {screen}
    Screen = screen
    Controls <- MCControls
    KSLOTS = 3
    GUARD = 2
    WORD = 10
    START = 9
    LAG = 4
    COMMANDS = 3
    BACKLOG = 2
SYMMETRY Interchangeable
SPECIFICATION SgxSpec
INVARIANTS SyncSettled NeverAhead NoLostFlip PollAnswered
