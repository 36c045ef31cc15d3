SPECIFICATION FairSpec
CONSTANTS
    Events = {e1, e2}
    Workers = {w1, w2}
    Stoppers = {s1, s2}
    QueueSize = 1
    MaxRetries = 2
    None = None
INVARIANTS
    NoSendOnClosed
    StopWaits
PROPERTIES
    EveryEventSettles
    StopReturns
