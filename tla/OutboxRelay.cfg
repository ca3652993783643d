\* Two relays and three threads that serve them, one of them for a delivery its
\* relay no longer waits for; claims that expire under the feet of a run.
SPECIFICATION FairSpec
CONSTANTS
    p1 = p1
    p2 = p2
    Relays = {p1, p2}
    Nobody = Nobody
    Limit = 2
    MaxSeq = 3
    MaxThreads = 3
    Scenarios <- MCScenarios
    MaxLapses = 1
INVARIANTS AckedWasSettled EffectivelyOnce OnceDrains
PROPERTY EventuallyDelivered
CHECK_DEADLOCK FALSE
