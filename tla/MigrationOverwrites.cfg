\* As MCDatabase, for what the migration says of values that are there.
SPECIFICATION MCSpec
CONSTANTS
    Runs = {r1, r2}
    Keys = {k1, k2}
    Seeded = {k1}
    Ops <- AllOps
    MaxOps = 4
    NoRow = NoRow
    NoRun = NoRun
    NoTouch = NoTouch
    Requests = {h1, e1, e2}
    Events = {e1, e2}
    TTL = 2
    MaxTime = 3
    Wal = FALSE
    NoClaim = NoClaim
    NoAnswer = NoAnswer
    RowKeys = {m1, m2}
    Backups = {b1, b2}
    MaxWrites = 3
    Gone = Gone
    NoFile = NoFile
    Partial = Partial
SYMMETRY MCSymmetry
PROPERTY NeverOverwritten
CHECK_DEADLOCK FALSE
