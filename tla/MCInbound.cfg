\* Three requests, a drain and a bucket of one token; two verifiers, a probe, a rotation;
\* four MCP requests, room for one session and for one tool call; three rows, pages of one and two.
SPECIFICATION MCSpec
CONSTANTS
    r1 = r1
    r2 = r2
    r3 = r3
    Requests <- MCRequests
    Profiles <- MCProfiles
    One = 4
    Gain = 2
    TicksPerSecond = 2
    MaxTime = 2
    Verifiers = {v1, v2}
    Probes = {p1}
    RefreshTicks = 2
    FloorTicks = 1
    Lifetime = 2
    MaxKey = 1
    MaxKeyTime = 5
    MayFail = TRUE
    NoKey = NoKey
    Nobody = Nobody
    c1 = c1
    c2 = c2
    c3 = c3
    c4 = c4
    MaxSessions = 1
    MaxToolCalls = 1
    ListKeys = {1, 2, 3}
    SortValues = {1, 2}
    Limits = {1, 2}
    MaxWrites = 2
INVARIANTS CountsAreExact RateHonoured RotationIsSmooth
           SlotsAndSessionsAreExact ReadsAreHonest
PROPERTIES DrainCompletes EveryCallIsAnswered
CHECK_DEADLOCK FALSE
