---------------------------- MODULE WorkflowRun ----------------------------
(***************************************************************************)
(* One run of a workflow without `parallel` blocks (interp.py,             *)
(* run_workflow, _run_step, _run_effect, _retryable) over a transactional  *)
(* repository: a list of steps with one effect each, on one row with one   *)
(* number, which `set` increments.                                         *)
(*                                                                         *)
(* A real driver's read binds a copy of the stored row; a `set` changes    *)
(* the copy and then writes it.  Guards are nondeterministic.              *)
(***************************************************************************)
EXTENDS Integers, Sequences, FiniteSets

CONSTANTS
    Program,        \* the effect kind of every step
    Guarded,        \* the steps a `when` guard may skip
    Retry,          \* policy retry <N>
    Deadline,       \* policy timeout, on the virtual clock, or NoDeadline
    NoDeadline

NoRow == -1

Kinds == {"read", "set", "create", "emit", "call", "reject"}
Steps == 1..Len(Program)

RunAssumption ==
    /\ Program \in Seq(Kinds)
    /\ Guarded \subseteq Steps
    /\ Retry \in Nat
    /\ Deadline \in Nat \cup {NoDeadline} /\ NoDeadline \notin Nat

StepCost == 6           \* Clock.step_cost_ms, and 1 for the one effect
MaxStepAttempts == 100  \* MAX_STEP_ATTEMPTS

(* _backoff_ms: 100, 200, 400, 800, 1000, 1000, ...                         *)
Backoff(attempt) == IF attempt <= 4 THEN 100 * 2^(attempt - 1) ELSE 1000

VARIABLES
    at,             \* the step the loop is at
    attempts,       \* attempts made of that step
    clock,          \* self.clock.now
    bound,          \* the number of the bound row, or NoRow
    stored,         \* the committed row
    tx,             \* the row as this run's transaction has it
    made,           \* step -> how often its call, emit or create was made
    status,
    ran,            \* the steps that have completed (history)
    found,          \* the row before the run (history)
    again           \* a set that had changed its row was retried (history)

vars == <<at, attempts, clock, bound, stored, tx, made, status, ran, found, again>>

Init ==
    /\ at = 1 /\ attempts = 0 /\ clock = 0
    /\ bound = NoRow
    /\ stored \in {NoRow, 1} /\ tx = stored /\ found = stored
    /\ again = FALSE
    /\ made = [s \in Steps |-> 0]
    /\ status = "running"
    /\ ran = {}

Kind == Program[at]
InLoop == status = "running" /\ at \in Steps
Late == Deadline # NoDeadline /\ clock >= Deadline

-----------------------------------------------------------------------------
(* _run_effect: what an attempt does.                                       *)

Make == made' = [made EXCEPT ![at] = @ + 1]

Effect ==
    \/ Kind = "read" /\ tx # NoRow /\ bound' = tx /\ UNCHANGED <<tx, made>>
    \/ Kind = "set" /\ bound # NoRow /\ bound' = bound + 1 /\ tx' = bound' /\ UNCHANGED made
    \/ Kind = "create" /\ tx = NoRow /\ tx' = 0 /\ Make /\ UNCHANGED bound
    \/ Kind \in {"emit", "call"} /\ Make /\ UNCHANGED <<bound, tx>>

(* What it has done when it raises RunError.  row[field] = value comes     *)
(* before persist(), the INSERT of a create before the row's content; a    *)
(* call that has no answer may have been made.                              *)
EffectRaises ==
    \/ Kind \in {"read", "create", "emit", "reject"} /\ UNCHANGED <<bound, tx, made>>
    \/ Kind = "set" /\ bound = NoRow /\ UNCHANGED <<bound, tx, made>>
    \/ Kind = "set" /\ bound # NoRow /\ bound' = bound + 1 /\ UNCHANGED <<tx, made>>
    \/ Kind = "create" /\ tx = NoRow /\ tx' = 0 /\ Make /\ UNCHANGED bound
    \/ Kind = "call" /\ Make /\ UNCHANGED <<bound, tx>>

(* A read that finds no row takes a millisecond.                            *)
Spent == IF Kind = "read" /\ tx = NoRow THEN 1 ELSE 0

(* Mutant: any step is retried.                                             *)
RetryableAny(n, now) ==
    n <= Retry /\ (Deadline # NoDeadline => now + Backoff(n) < Deadline)

(* _retryable, after attempt n.                                             *)
Retryable(n, now) ==
    /\ n < MaxStepAttempts
    /\ n <= Retry
    /\ Deadline # NoDeadline => now + Backoff(n) < Deadline
    /\ Kind \notin {"create", "call", "emit", "reject"}

-----------------------------------------------------------------------------
(* run_workflow.                                                            *)

(* _flatten_items passes a guarded step over.                               *)
Skip ==
    /\ InLoop /\ attempts = 0
    /\ at \in Guarded
    /\ at' = at + 1
    /\ UNCHANGED <<attempts, clock, bound, stored, tx, made, status, ran, found, again>>

(* A guard that cannot be evaluated raises out of the loop.                 *)
GuardRaises ==
    /\ InLoop /\ attempts = 0
    /\ at \in Guarded
    /\ status' = "failing"
    /\ UNCHANGED <<at, attempts, clock, bound, stored, tx, made, ran, found, again>>

(* Mutant: a step that ends past the deadline is as good as any.            *)
AfterStepAnyTime(now) == "running"

(* "deadline exceeded after step".                                          *)
AfterStep(now) == IF Deadline # NoDeadline /\ now > Deadline THEN "failing" ELSE "running"

StepCompletes ==
    /\ InLoop /\ ~ Late
    /\ Effect
    /\ clock' = clock + StepCost
    /\ status' = AfterStep(clock')
    /\ ran' = ran \cup {at}
    /\ at' = at + 1 /\ attempts' = 0
    /\ UNCHANGED <<stored, found, again>>

(* A failed attempt is made again after a backoff, or fails the run.        *)
StepRaises ==
    /\ InLoop
    /\ IF Late THEN UNCHANGED <<bound, tx, made>> ELSE EffectRaises
    /\ attempts' = attempts + 1
    /\ LET now == clock + IF Late THEN 0 ELSE Spent
       IN IF Retryable(attempts', now)
          THEN /\ clock' = now + Backoff(attempts')
               /\ again' = (again \/ (Kind = "set" /\ bound' # bound))
               /\ UNCHANGED status
          ELSE clock' = now /\ status' = "failing" /\ UNCHANGED again
    /\ UNCHANGED <<at, stored, ran, found>>

(* A `respond` term that cannot be evaluated fails the run before commit.   *)
RespondRaises ==
    /\ status = "running" /\ at > Len(Program)
    /\ status' = "failing"
    /\ UNCHANGED <<at, attempts, clock, bound, stored, tx, made, ran, found, again>>

Commit ==
    /\ status = "running" /\ at > Len(Program)
    /\ status' = "completed"
    /\ stored' = tx
    /\ UNCHANGED <<at, attempts, clock, bound, tx, made, ran, found, again>>

Rollback ==
    /\ status = "failing"
    /\ status' = "failed"
    /\ tx' = stored
    /\ UNCHANGED <<at, attempts, clock, bound, stored, made, ran, found, again>>

(* What is not a RunError leaves run_workflow with the transaction open:   *)
(* an exception of the program's own, or a DriverError of commit().         *)
Escapes ==
    /\ status = "running"
    /\ status' = "escaped"
    /\ UNCHANGED <<at, attempts, clock, bound, stored, tx, made, ran, found, again>>

Over == status \in {"completed", "failed", "escaped"}
Done == Over /\ UNCHANGED vars

Next ==
    \/ Skip \/ GuardRaises \/ StepCompletes \/ StepRaises
    \/ RespondRaises \/ Commit \/ Rollback \/ Escapes \/ Done

Spec == Init /\ [][Next]_vars

-----------------------------------------------------------------------------
(* Properties.                                                              *)

(* Type invariant; no step is attempted more often than its budget allows. *)
TypeOK ==
    /\ at \in 1..(Len(Program) + 1)
    /\ attempts \in 0..(Retry + 1)
    /\ clock \in Nat
    /\ {bound, stored, tx} \subseteq Nat \cup {NoRow}
    /\ made \in [Steps -> Nat]
    /\ status \in {"running", "failing", "completed", "failed", "escaped"}
    /\ ran \subseteq Steps /\ found \in Nat \cup {NoRow} /\ again \in BOOLEAN

(* What a completed run should have stored: one added per `set` step that  *)
(* has run to the number it found or created; nothing for any other run.    *)
Sets == Cardinality({s \in ran : Program[s] = "set"})
Base == IF \E s \in ran : Program[s] = "create" THEN 0 ELSE found
WritesLanded == stored = IF status = "completed" THEN Base + Sets ELSE found

(* A run's writes land once and together, unless a `set` was retried that  *)
(* had changed its row object before its persist failed.                    *)
SetsApplyOnce == ~ again => WritesLanded

(* "Relative operations (increments, accumulation) are not idempotent" and *)
(* only idempotent effects are retried (RFC-0003): no retry changes what a *)
(* run's assignments come to.                                               *)
RetriesAreIdempotent == WritesLanded

(* "A step is retried only if all its effects are idempotent": whatever    *)
(* fails, no call, emit or create is made twice in a run.                   *)
ExternalEffectsOnce == \A s \in Steps : made[s] <= 1

(* What retries and a failure leave of a run's effects: each lands once, or *)
(* none does.                                                               *)
EffectsApplyOnce == SetsApplyOnce /\ ExternalEffectsOnce

(* A run that ends past its deadline is not reported as completed.          *)
CompletedInTime ==
    status = "completed" /\ Deadline # NoDeadline => clock <= Deadline
=============================================================================
