\* The increment of one row, retried once.
SPECIFICATION Spec
CONSTANTS
    Program <- Take
    Guarded = {}
    Retry = 1
    Deadline = NoDeadline
    NoDeadline = NoDeadline
INVARIANT RetriesAreIdempotent
