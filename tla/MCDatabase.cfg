\* Two runs that may use every operation; three requests for one key, two of them
\* deliveries of one event, claims that expire and commits that may be refused; a
\* migration of two rows and two backups to one file beside a server.
SPECIFICATION MCSpec
CONSTANTS
    Runs = {r1, r2}
    Keys = {k1, k2}
    Seeded = {k1}
    Ops <- AllOps
    MaxOps = 4
    NoRow = NoRow
    NoRun = NoRun
    NoTouch = NoTouch
    Requests = {h1, e1, e2}
    Events = {e1, e2}
    TTL = 2
    MaxTime = 3
    Wal = FALSE
    NoClaim = NoClaim
    NoAnswer = NoAnswer
    RowKeys = {m1, m2}
    Backups = {b1, b2}
    MaxWrites = 3
    Gone = Gone
    NoFile = NoFile
    Partial = Partial
SYMMETRY MCSymmetry
INVARIANTS AllOrNothing OncePerWindow TruthfulAnswers NoStuckClaim
PROPERTIES CommittedSetsLand MaintenanceIsSafe
CHECK_DEADLOCK FALSE
