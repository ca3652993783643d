------------------------------ MODULE Breaker ------------------------------
(***************************************************************************)
(* The retry loop and the circuit breaker of one network target            *)
(* (drivers.py, _Breaker and _call_with_resilience), shared without a lock *)
(* by the threads of a server: a NetworkDriver lives as long as the        *)
(* process.  A method of _Breaker is one step; the look-up in the driver's *)
(* `breakers` dict and the registration of a new instance are two.         *)
(*                                                                         *)
(* Only the time since the breaker opened matters, up to the window.       *)
(***************************************************************************)
EXTENDS Integers, FiniteSets

CONSTANTS
    Threads,        \* callers of this target
    Threshold,      \* breaker after <N>
    Window,         \* window_ms, in clock ticks
    Retries,        \* retry count of the capability
    NoBreaker, Closed

ASSUME BreakerAssumption ==
    /\ Threshold \in Nat \ {0}
    /\ Window \in Nat
    /\ Retries \in Nat
    /\ NoBreaker \notin Threads \cup {"first"}
    /\ Closed \notin 0..Window

(* A _Breaker is named after the thread that made it.                       *)
Instances == Threads \cup {"first"}

VARIABLES
    current,        \* breakers[target]
    fails,          \* instance -> _consecutive_failures, up to the threshold
    age,            \* instance -> time since _opened_at, or Closed
    half,           \* instance -> _half_open
    pc,             \* thread -> where its call() is
    mine,           \* thread -> the instance its call uses
    tries,          \* thread -> attempts left
    split,          \* a registered instance was replaced (history)
    healthy,        \* whether the target answers well
    streak          \* calls that have failed in a row, up to the threshold

state == <<fails, age, half>>
vars == <<current, state, pc, mine, tries, split, healthy, streak>>

Init ==
    /\ current \in {"first", NoBreaker}   \* an earlier call may have made one
    /\ fails = [b \in Instances |-> 0]
    /\ age = [b \in Instances |-> Closed]
    /\ half = [b \in Instances |-> FALSE]
    /\ pc = [t \in Threads |-> "idle"]
    /\ mine = [t \in Threads |-> NoBreaker]
    /\ tries = [t \in Threads |-> 0]
    /\ split = FALSE
    /\ healthy \in BOOLEAN
    /\ streak = 0

UpTo(n, bound) == IF n < bound THEN n ELSE bound

-----------------------------------------------------------------------------
(* _Breaker.                                                                *)

(* Mutant: an open breaker is never tried again.                            *)
MayPassClosedOnly(b) == age[b] = Closed

MayPass(b) == age[b] \in {Closed, Window}

(* allow() on an open breaker past its window marks it half-open, and says *)
(* yes to every caller until an outcome is recorded.                        *)
Allow(b) ==
    /\ MayPass(b)
    /\ half' = IF age[b] = Closed THEN half ELSE [half EXCEPT ![b] = TRUE]
    /\ UNCHANGED <<fails, age>>

RecordSuccess(b) ==
    /\ fails' = [fails EXCEPT ![b] = 0]
    /\ age' = [age EXCEPT ![b] = Closed]
    /\ half' = [half EXCEPT ![b] = FALSE]

(* Mutant: the threshold is exceeded before the breaker opens.              *)
RecordFailureLate(b) ==
    /\ fails' = [fails EXCEPT ![b] = UpTo(@ + 1, Threshold)]
    /\ age' = [age EXCEPT ![b] = IF fails[b] >= Threshold THEN 0 ELSE @]
    /\ half' = [half EXCEPT ![b] = FALSE]

RecordFailure(b) ==
    IF half[b]
    THEN /\ age' = [age EXCEPT ![b] = 0]
         /\ half' = [half EXCEPT ![b] = FALSE]
         /\ UNCHANGED fails
    ELSE /\ fails' = [fails EXCEPT ![b] = UpTo(@ + 1, Threshold)]
         /\ age' = [age EXCEPT ![b] = IF fails[b] + 1 >= Threshold THEN 0 ELSE @]
         /\ UNCHANGED half

-----------------------------------------------------------------------------
(* _call_with_resilience.                                                   *)

Goes(t, label) == pc' = [pc EXCEPT ![t] = label]

Admitted(t, b) ==
    /\ Goes(t, "attempt")
    /\ mine' = [mine EXCEPT ![t] = b]
    /\ tries' = [tries EXCEPT ![t] = 1 + Retries]

(* breakers.get(target) finds an instance: it is asked at once.             *)
Call(t) ==
    /\ pc[t] = "idle"
    /\ current # NoBreaker
    /\ Allow(current)
    /\ Admitted(t, current)
    /\ UNCHANGED <<current, split, healthy, streak>>

(* "breaker-open": the call is rejected without an attempt.                 *)
CallRejected(t) ==
    /\ pc[t] = "idle"
    /\ current # NoBreaker
    /\ ~ MayPass(current)
    /\ UNCHANGED vars

(* No instance yet: this thread will make one ...                           *)
LooksUpNothing(t) ==
    /\ pc[t] = "idle"
    /\ current = NoBreaker
    /\ Goes(t, "register")
    /\ UNCHANGED <<current, state, mine, tries, split, healthy, streak>>

(* ... and put it into the dict, over whatever is there by then.            *)
Register(t) ==
    /\ pc[t] = "register"
    /\ current' = t
    /\ Allow(t)
    /\ Admitted(t, t)
    /\ split' = (split \/ current # NoBreaker)
    /\ UNCHANGED <<healthy, streak>>

Returns(t) ==
    /\ Goes(t, "idle")
    /\ mine' = [mine EXCEPT ![t] = NoBreaker]
    /\ tries' = [tries EXCEPT ![t] = 0]

(* An answer, a non-retryable status included, is a success.                *)
AttemptSucceeds(t) ==
    /\ pc[t] = "attempt"
    /\ healthy
    /\ RecordSuccess(mine[t])
    /\ Returns(t)
    /\ streak' = 0
    /\ UNCHANGED <<current, split, healthy>>

(* No response, or a retryable status; the call sleeps and tries again.     *)
AttemptRetried(t) ==
    /\ pc[t] = "attempt"
    /\ ~ healthy
    /\ tries[t] > 1
    /\ tries' = [tries EXCEPT ![t] = @ - 1]
    /\ UNCHANGED <<current, state, pc, mine, split, healthy, streak>>

(* The last attempt failed: the call counts once.                           *)
CallFails(t) ==
    /\ pc[t] = "attempt"
    /\ ~ healthy
    /\ tries[t] = 1
    /\ RecordFailure(mine[t])
    /\ Returns(t)
    /\ streak' = UpTo(streak + 1, Threshold)
    /\ UNCHANGED <<current, split, healthy>>

(* An exception that is not a DriverError leaves without recording.         *)
CallEscapes(t) ==
    /\ pc[t] = "attempt"
    /\ Returns(t)
    /\ UNCHANGED <<current, state, split, healthy, streak>>

-----------------------------------------------------------------------------
(* The clock, and the target at the other end.                              *)

Tick ==
    /\ \E b \in Instances : age[b] # Closed /\ age[b] < Window
    /\ age' = [b \in Instances |->
                 IF age[b] = Closed THEN Closed ELSE UpTo(age[b] + 1, Window)]
    /\ UNCHANGED <<current, fails, half, pc, mine, tries, split, healthy,
                   streak>>

TargetChanges ==
    /\ healthy' = ~ healthy
    /\ UNCHANGED <<current, state, pc, mine, tries, split, streak>>

ThreadStep(t) ==
    \/ Call(t) \/ CallRejected(t) \/ LooksUpNothing(t) \/ Register(t)
    \/ AttemptSucceeds(t) \/ AttemptRetried(t) \/ CallFails(t) \/ CallEscapes(t)

Next == Tick \/ TargetChanges \/ \E t \in Threads : ThreadStep(t)

Spec == Init /\ [][Next]_vars

(* Time passes, calls keep coming and an attempt that is answered returns.  *)
Fairness ==
    /\ WF_vars(Tick)
    /\ \A t \in Threads :
          /\ WF_vars(Call(t) \/ LooksUpNothing(t) \/ Register(t))
          /\ SF_vars(AttemptSucceeds(t))

FairSpec == Spec /\ Fairness

-----------------------------------------------------------------------------
(* Properties.                                                              *)

(* Type invariant: a breaker is open exactly when it has counted enough    *)
(* failures, and half-open only while it is open.                           *)
TypeOK ==
    /\ current \in Instances \cup {NoBreaker}
    /\ fails \in [Instances -> 0..Threshold]
    /\ age \in [Instances -> (0..Window) \cup {Closed}]
    /\ half \in [Instances -> BOOLEAN]
    /\ pc \in [Threads -> {"idle", "register", "attempt"}]
    /\ mine \in [Threads -> Instances \cup {NoBreaker}]
    /\ tries \in [Threads -> 0..(1 + Retries)]
    /\ split \in BOOLEAN
    /\ streak \in 0..Threshold
    /\ \A b \in Instances : /\ age[b] # Closed <=> fails[b] = Threshold
                            /\ half[b] => age[b] # Closed

(* "`breaker after <N>` reads as N bad calls in a row": when that many     *)
(* calls have failed with no success between them, the breaker a next call *)
(* would consult is open; unless two first calls have each registered one, *)
(* and the failures are counted on both.                                    *)
TripsAtThreshold ==
    streak = Threshold /\ ~ split => current # NoBreaker /\ age[current] # Closed

(* A target that has recovered is called again: the breaker does not stay  *)
(* open for ever once the target stays well.                                *)
Recovers == <>[]healthy => []<>(current # NoBreaker /\ age[current] = Closed)
=============================================================================
