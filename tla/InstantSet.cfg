SPECIFICATION MCSpec
CONSTANTS
    N = 3
    Calls = {1}
    Idempotent = {2, 3}
    Cap = 2
    Retry = 1
    Deadline = 110
    NoDeadline = NoDeadline
    Program <- Order
    Guarded = {1, 2, 4, 6, 7}
    RunRetry = 2
    RunDeadline = 720
    Readers = {r1}
    Updaters = {u1, u2}
    Creators = {c1, c2}
    Fields <- MCFields
    ValuesOf <- MCValuesOf
    Texts <- MCTexts
    Rowsets <- Lists
    Bare = {"free", "paid"}
    Known = {"free"}
    Foreign = {"reply"}
    Members = {"paid"}
    MinInt <- Lowest
    MaxInt = 7
    StoreRuns = {1}
    Brief = {}
    Keys = {k1}
    Seeded = {k1}
    Ops <- StoreOps
    MaxOps = 1
    AbsentRow = AbsentRow
    NoRun = NoRun
    NoTouch = NoTouch
INVARIANT StoredAsDeclared
CHECK_DEADLOCK FALSE
