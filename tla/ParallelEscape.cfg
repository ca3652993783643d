\* A call and a retried step; any branch may raise something but a RunError.
SPECIFICATION Spec
CONSTANTS
    N = 2
    Calls = {1}
    Idempotent = {2}
    Cap = 2
    Retry = 0
    Deadline = NoDeadline
    NoDeadline = NoDeadline
INVARIANT OneFailureFailsAll
