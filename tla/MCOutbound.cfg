\* Three threads and one breaker; one thread, two sockets, two calls of two attempts;
\* two runs that emit beside a tail whose connection breaks twice.
SPECIFICATION MCSpec
CONSTANTS
    Threads = {t1, t2, t3}
    Threshold = 2
    Window = 2
    Retries = 1
    NoBreaker = NoBreaker
    Closed = Closed
    Sockets = {s1, s2}
    MaxCalls = 2
    AttemptsPerCall = 2
    Unconnected = Unconnected
    Nothing = Nothing
    Writers = {w1, w2}
    MaxSeq = 4
    MaxBreaks = 2
INVARIANTS TripsAtThreshold ConnectionsAreHonest TailExact
PROPERTIES Recovers TailComplete
