SPECIFICATION FairSpec
CONSTANTS
    p1 = p1
    p2 = p2
    Relays = {p1}
    Nobody = Nobody
    Limit = 2
    MaxSeq = 2
    MaxThreads = 2
    Scenarios <- OneLostAnswer
    MaxLapses = 1
PROPERTY NextDrainTriesAgain
CHECK_DEADLOCK FALSE
