CONSTANTS
    Tasks = {t1, t2}
    Logged = {logged}
    Client = {pointer}
    Queued = {bind, draw}
    Answered = {query, swap}
    QMAX = 3
SPECIFICATION GlRenderSpec
INVARIANT OwnResult
