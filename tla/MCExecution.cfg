\* A block of a call and two idempotent steps on two threads, one retry, with a
\* deadline just behind one backoff; a run with increments around a call, two
\* retries and a deadline of 720 ms; a reader, two updaters and two creators
\* beside a cache that may fail; some nine thousand guards and assignments;
\* two runs of four effects and one of one over a store with two keys.
SPECIFICATION MCSpec
CONSTANTS
    N = 3
    Calls = {1}
    Idempotent = {2, 3}
    Cap = 2
    Retry = 1
    Deadline = 110
    NoDeadline = NoDeadline
    Program <- Order
    Guarded = {1, 2, 4, 6, 7}
    RunRetry = 2
    RunDeadline = 720
    Readers = {r1}
    Updaters = {u1, u2}
    Creators = {c1, c2}
    Fields <- MCFields
    ValuesOf <- MCValuesOf
    Texts <- MCTexts
    Rowsets <- Lists
    Bare = {"free", "paid"}
    Known = {"free"}
    Foreign = {"reply"}
    Members = {"paid"}
    MinInt <- Lowest
    MaxInt = 7
    StoreRuns = {1, 2, 3}
    Brief = {3}
    Keys = {k1, k2}
    Seeded = {k1}
    Ops <- StoreOps
    MaxOps = 4
    AbsentRow = AbsentRow
    NoRun = NoRun
    NoTouch = NoTouch
INVARIANTS NothingLeft VerdictsAreHonest EffectsApplyOnce CacheIsHonest DimensionsAreSound
           CompiledAgrees
PROPERTIES BlockDone ImplementsLedger
