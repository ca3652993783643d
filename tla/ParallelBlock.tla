--------------------------- MODULE ParallelBlock ---------------------------
(***************************************************************************)
(* One `parallel` block of a workflow (interp.py, _run_parallel_block and  *)
(* its worker _execute_step_with_retry): the steps of the block run on a   *)
(* thread pool made for it, under one lock that only a network call drops. *)
(* What a thread does with the lock held is one step of the model.         *)
(*                                                                         *)
(* The pool and its futures (concurrent.futures) are external: a FIFO      *)
(* queue, at most Cap threads, cancel() refused once a thread has begun.   *)
(***************************************************************************)
EXTENDS Integers, FiniteSets

CONSTANTS
    N,              \* the block's steps are 1..N, in declared order
    Calls,          \* the steps that are NetworkCalls
    Idempotent,     \* the steps with only idempotent effects
    Cap,            \* policy parallel <N>
    Retry,          \* policy retry <N>
    Deadline,       \* policy timeout, on the virtual clock, or NoDeadline
    NoDeadline

Steps == 1..N

ASSUME ParallelAssumption ==
    /\ N \in Nat \ {0}
    /\ Calls \subseteq Steps
    /\ Idempotent \subseteq Steps \ Calls
    /\ Cap \in Nat \ {0}
    /\ Retry \in Nat
    /\ Deadline \in Nat \cup {NoDeadline}
    /\ NoDeadline \notin Nat

StepCost == 6           \* Clock.step_cost_ms, and 1 for the one effect
MaxStepAttempts == 100  \* MAX_STEP_ATTEMPTS

(* _backoff_ms: 100, 200, 400, 800, 1000, 1000, ...                         *)
Backoff(attempt) == IF attempt <= 4 THEN 100 * 2^(attempt - 1) ELSE 1000

VARIABLES
    main,           \* the calling thread: "submit", "wait", "cancel", "done"
    submitted,      \* how many futures it has submitted
    toCancel,       \* the futures its cancel loop has still to visit
    future,         \* step -> its future's state
    cancelEvent,
    pc,             \* step -> where its worker is
    attempts,
    error,          \* step -> last_error
    began,          \* step -> span.start_ms, 0 before there is a span
    outcomes,       \* the steps with an entry in `outcomes`
    clock,          \* self.clock.now
    result

worker == <<pc, attempts, error, began>>
caller == <<main, submitted, toCancel, cancelEvent, result>>
vars == <<caller, worker, future, outcomes, clock>>

Init ==
    /\ main = "submit" /\ submitted = 0 /\ toCancel = {}
    /\ future = [s \in Steps |-> "pending"]
    /\ cancelEvent = FALSE
    /\ pc = [s \in Steps |-> "idle"]
    /\ attempts = [s \in Steps |-> 0]
    /\ error = [s \in Steps |-> "none"]
    /\ began = [s \in Steps |-> 0]
    /\ outcomes = {}
    /\ clock = 0
    /\ result = [status |-> "running", step |-> 0]

Goes(s, label) == pc' = [pc EXCEPT ![s] = label]
Running == {s \in Steps : future[s] = "running"}
Settled(s) == future[s] \in {"finished", "raised", "cancelled"}
Late == Deadline # NoDeadline /\ clock >= Deadline

-----------------------------------------------------------------------------
(* The pool.                                                                *)

(* A free thread takes the first queued future that is not cancelled.       *)
Start(s) ==
    /\ s <= submitted
    /\ future[s] = "pending"
    /\ \A t \in 1..(s - 1) : future[t] # "pending"
    /\ Cardinality(Running) < Cap
    /\ future' = [future EXCEPT ![s] = "running"]
    /\ Goes(s, "span")
    /\ UNCHANGED <<caller, attempts, error, began, outcomes, clock>>

(* The worker leaves _execute_step_with_retry: it raises the last error.    *)
Leaves(s, raised) ==
    /\ Goes(s, "left")
    /\ future' = [future EXCEPT ![s] = IF raised THEN "raised" ELSE "finished"]

-----------------------------------------------------------------------------
(* _execute_step_with_retry, one step's worker.                             *)

(* The span starts now; two spans may start in the same millisecond.        *)
OpensSpan(s) ==
    /\ pc[s] = "span"
    /\ Goes(s, "attempt")
    /\ LET latest == CHOOSE b \in 0..N : /\ \E t \in Steps : began[t] = b
                                         /\ \A t \in Steps : began[t] <= b
       IN \E b \in {latest, latest + 1} \ {0} : began' = [began EXCEPT ![s] = b]
    /\ UNCHANGED <<caller, attempts, error, future, outcomes, clock>>

(* attempts += 1; a sibling's failure stops the next attempt, and the one  *)
(* that was not made is counted.                                            *)
Attempt(s) ==
    /\ pc[s] = "attempt"
    /\ attempts' = [attempts EXCEPT ![s] = @ + 1]
    /\ Goes(s, IF attempts[s] > 0 /\ cancelEvent THEN "report" ELSE "run")
    /\ UNCHANGED <<caller, error, began, future, outcomes, clock>>

Raises(s, what) ==
    /\ error' = [error EXCEPT ![s] = what]
    /\ Goes(s, "failed")
    /\ UNCHANGED clock

Succeeds(s) ==
    /\ error' = [error EXCEPT ![s] = "none"]
    /\ Goes(s, "report")
    /\ clock' = clock + StepCost

(* _run_step: the deadline is looked at first; a network call drops the    *)
(* lock, everything else runs with it held.                                 *)
RunStep(s) ==
    /\ pc[s] = "run"
    /\ IF Late THEN Raises(s, "deadline")
       ELSE IF s \in Calls THEN Goes(s, "call") /\ UNCHANGED <<error, clock>>
       ELSE Succeeds(s) \/ Raises(s, "failure")
    /\ UNCHANGED <<caller, attempts, began, future, outcomes>>

CallReturns(s) ==
    /\ pc[s] = "call"
    /\ Succeeds(s) \/ Raises(s, "failure")
    /\ UNCHANGED <<caller, attempts, began, future, outcomes>>

(* _retryable.                                                              *)
Retryable(s) ==
    /\ attempts[s] < MaxStepAttempts
    /\ attempts[s] <= Retry
    /\ Deadline # NoDeadline => clock + Backoff(attempts[s]) < Deadline
    /\ s \in Idempotent

(* The clock is read here, without the lock ...                             *)
Decides(s) ==
    /\ pc[s] = "failed"
    /\ Goes(s, IF Retryable(s) THEN "backoff" ELSE "report")
    /\ UNCHANGED <<caller, attempts, error, began, future, outcomes, clock>>

(* ... and advanced here, with it.                                          *)
BacksOff(s) ==
    /\ pc[s] = "backoff"
    /\ clock' = clock + Backoff(attempts[s])
    /\ Goes(s, "attempt")
    /\ UNCHANGED <<caller, attempts, error, began, future, outcomes>>

Reports(s) ==
    /\ pc[s] = "report"
    /\ outcomes' = outcomes \cup {s}
    /\ Leaves(s, error[s] # "none")
    /\ UNCHANGED <<caller, attempts, error, began, clock>>

(* Only RunError is caught: anything else leaves without an outcome.        *)
Escapes(s) ==
    /\ pc[s] \in {"run", "call"}
    /\ Leaves(s, TRUE)
    /\ UNCHANGED <<caller, attempts, error, began, outcomes, clock>>

-----------------------------------------------------------------------------
(* _run_parallel_block, the calling thread.                                 *)

Submit ==
    /\ main = "submit"
    /\ submitted' = submitted + 1
    /\ main' = IF submitted' = N THEN "wait" ELSE "submit"
    /\ UNCHANGED <<toCancel, cancelEvent, result, worker, future, outcomes, clock>>

(* The futures wait() calls pending.                                        *)
Pending == {s \in Steps : ~ Settled(s)}

(* wait(FIRST_EXCEPTION) returns.                                           *)
WaitReturns ==
    /\ main = "wait"
    /\ \/ \E s \in Steps : future[s] = "raised"
       \/ \A s \in Steps : Settled(s)
    /\ main' = "cancel"
    /\ cancelEvent' = \E s \in Steps : future[s] = "raised"
    /\ toCancel' = IF cancelEvent' THEN Pending ELSE {}
    /\ UNCHANGED <<submitted, result, worker, future, outcomes, clock>>

(* Mutant: a future is visited until its cancel() succeeds.                 *)
CancelInsists(s) ==
    /\ main = "cancel"
    /\ s \in toCancel
    /\ toCancel' = IF future[s] = "pending" THEN toCancel \ {s} ELSE toCancel
    /\ future' = IF future[s] = "pending"
                 THEN [future EXCEPT ![s] = "cancelled"] ELSE future
    /\ UNCHANGED <<main, submitted, cancelEvent, result, worker, outcomes, clock>>

(* fut.cancel(), a no-op on a future that has begun.                        *)
Cancel(s) ==
    /\ main = "cancel"
    /\ s \in toCancel
    /\ toCancel' = toCancel \ {s}
    /\ future' = IF future[s] = "pending"
                 THEN [future EXCEPT ![s] = "cancelled"] ELSE future
    /\ UNCHANGED <<main, submitted, cancelEvent, result, worker, outcomes, clock>>

(* Mutant: only a step that used up its retries counts as failed.           *)
FailedExhausted == {s \in outcomes : error[s] # "none" /\ attempts[s] > Retry}

Failed == {s \in outcomes : error[s] # "none"}

(* The failed step whose span started first; the first declared of a tie.   *)
EarliestFailed ==
    CHOOSE s \in Failed : \A t \in Failed \ {s} :
        began[s] < began[t] \/ (began[s] = began[t] /\ s < t)

Verdict ==
    IF Failed # {} THEN [status |-> "failed", step |-> EarliestFailed]
    ELSE IF Deadline # NoDeadline /\ outcomes # {} /\ clock > Deadline
    THEN [status |-> "failed", step |-> N]
    ELSE [status |-> "completed", step |-> 0]

(* Mutant: shutdown(wait=False), the block does not join its threads.       *)
OverUnjoined(s) == future[s] # "pending"

(* The pool's exit waits for every future that has begun.                   *)
Over(s) == Settled(s)

Return ==
    /\ main = "cancel"
    /\ toCancel = {}
    /\ \A s \in Steps : Over(s)
    /\ main' = "done"
    /\ result' = Verdict
    /\ UNCHANGED <<submitted, toCancel, cancelEvent, worker, future, outcomes, clock>>

(* The block has returned: nothing is left to do.                           *)
Done == main = "done" /\ UNCHANGED vars

-----------------------------------------------------------------------------
WorkerStep(s) ==
    \/ Start(s) \/ OpensSpan(s) \/ Attempt(s) \/ RunStep(s) \/ CallReturns(s)
    \/ Decides(s) \/ BacksOff(s) \/ Reports(s) \/ Escapes(s)

MainStep == Submit \/ WaitReturns \/ Return \/ \E s \in Steps : Cancel(s)

Next == MainStep \/ Done \/ \E s \in Steps : WorkerStep(s)

Spec == Init /\ [][Next]_vars

(* Threads are scheduled, and every network call ends (it has a timeout).   *)
FairSpec == Spec /\ WF_vars(MainStep) /\ \A s \in Steps : WF_vars(WorkerStep(s))

-----------------------------------------------------------------------------
(* Properties.                                                              *)

(* Type invariant; no step is attempted more often than its budget allows. *)
TypeOK ==
    /\ main \in {"submit", "wait", "cancel", "done"}
    /\ submitted \in 0..N
    /\ toCancel \subseteq Steps
    /\ future \in [Steps -> {"pending", "running", "finished", "raised", "cancelled"}]
    /\ cancelEvent \in BOOLEAN
    /\ pc \in [Steps -> {"idle", "span", "attempt", "run", "call", "failed",
                         "backoff", "report", "left"}]
    /\ attempts \in [Steps -> 0..(Retry + 1)]
    /\ error \in [Steps -> {"none", "failure", "deadline"}]
    /\ began \in [Steps -> 0..N]
    /\ outcomes \subseteq Steps
    /\ clock \in Nat
    /\ result \in [status : {"running", "completed", "failed"}, step : 0..N]

(* Structured concurrency, "no task from this block outlives it": once the *)
(* block has returned no thread of it runs and none can be started.         *)
NoOrphans == main = "done" => \A s \in Steps : Settled(s)

(* Fail-fast: when the cancel loop is through, no step of a failing block  *)
(* is left in the queue for a freed thread to start.                        *)
NothingLeftQueued ==
    cancelEvent /\ toCancel = {} => \A s \in Steps : future[s] # "pending"

(* Nothing of a block that has returned runs or waits to run.               *)
NothingLeft == NoOrphans /\ NothingLeftQueued

(* An exception that is not a RunError has ended a branch.                  *)
Escaped == \E s \in Steps : future[s] = "raised" /\ s \notin outcomes

(* A block that reports completed has run every one of its steps to        *)
(* success, as far as its branches raise nothing but RunErrors.             *)
CompletedRanAll ==
    result.status = "completed" /\ ~ Escaped =>
        \A s \in Steps : s \in outcomes /\ error[s] = "none"

(* "One branch failing fails the block."                                    *)
OneFailureFailsAll ==
    result.status = "completed" => \A s \in Steps : future[s] # "raised"

(* What a step has waited before its n-th attempt, and what the block costs. *)
Waited[n \in Nat] == IF n <= 1 THEN 0 ELSE Waited[n - 1] + Backoff(n - 1)

SumOverSteps(f) ==
    LET upTo[n \in 0..N] == IF n = 0 THEN 0 ELSE upTo[n - 1] + f[n] IN upTo[N]

TotalCost == SumOverSteps([s \in Steps |-> StepCost + Waited[attempts[s]]])

(* Whether a block whose steps all succeed misses its deadline depends on  *)
(* their cost, backoffs included, and not on how the threads interleave    *)
(* ("the SUM is order-independent").                                        *)
DeadlineVerdict ==
    main = "done" /\ Deadline # NoDeadline /\ ~ Escaped
    /\ (\A s \in Steps : error[s] # "failure")
    => (result.status = "failed" <=> TotalCost > Deadline)

(* Every block returns.                                                     *)
BlockReturns == <>(main = "done")
=============================================================================
