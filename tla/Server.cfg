SPECIFICATION ServerFairSpec
CONSTANTS
    Requests = {r1, r2}
    ConsoleRequests = {q}
    Callers = {c1, c2}
    Targets = {t1, t2}
    QueueCap = 1
    FlushAt = 2
    Nobody = Nobody
INVARIANTS
    NoLogOnClosed
    EngineClosedLast
    CutIsReported
PROPERTIES
    LinesSettle
    ShutdownReturns
