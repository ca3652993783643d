--------------------------- MODULE OutboundProofs ---------------------------
(***************************************************************************)
(* Theorems about what a server sends (MCOutbound), in three parts: the     *)
(* breaker, for any number of threads, any threshold, window and retry      *)
(* count; the stream of the outbox, for any number of runs and reconnects;  *)
(* the kept connections, for any number of sockets, calls and attempts.     *)
(***************************************************************************)
EXTENDS MCOutbound, WellFoundedInduction, FiniteSetTheorems, TLAPS

-----------------------------------------------------------------------------
(* The breaker.                                                             *)


(* A call that attempts asks a breaker that exists.                         *)
AttemptsHaveOne == \A t \in Threads : pc[t] = "attempt" => mine[t] \in Instances

(* While no registered breaker has been replaced, every failure is counted  *)
(* on the one in the dict: it has seen as many as were in a row.            *)
CountedOnOne ==
    ~ split =>
      IF current = NoBreaker
      THEN streak = 0 /\ \A t \in Threads : pc[t] # "attempt"
      ELSE /\ streak <= fails[current]
           /\ \A t \in Threads : pc[t] = "attempt" => mine[t] = current

BreakerInv == TypeOK /\ AttemptsHaveOne /\ CountedOnOne

-----------------------------------------------------------------------------
(* The methods of _Breaker keep a breaker open exactly when it has counted *)
(* enough failures.                                                         *)

StateOK ==
    /\ fails \in [Instances -> 0..Threshold]
    /\ age \in [Instances -> (0..Window) \cup {Closed}]
    /\ half \in [Instances -> BOOLEAN]
    /\ \A b \in Instances : /\ age[b] # Closed <=> fails[b] = Threshold
                            /\ half[b] => age[b] # Closed

LEMMA AllowOK ==
    ASSUME StateOK, NEW b \in Instances, Allow(b)
    PROVE  StateOK' /\ UNCHANGED fails
<1>1. UNCHANGED <<fails, age>>
  BY DEF Allow
<1>2. CASE age[b] = Closed
  BY <1>1, <1>2 DEF StateOK, Allow
<1>3. CASE age[b] # Closed /\ half' = [half EXCEPT ![b] = TRUE]
  BY <1>1, <1>3 DEF StateOK
<1> QED
  BY <1>1, <1>2, <1>3 DEF Allow

LEMMA SuccessOK ==
    ASSUME StateOK, NEW b \in Instances, RecordSuccess(b)
    PROVE  StateOK'
BY BreakerAssumption DEF StateOK, RecordSuccess

LEMMA FailureOK ==
    ASSUME StateOK, NEW b \in Instances, RecordFailure(b)
    PROVE  /\ StateOK'
           /\ fails'[b] = UpTo(fails[b] + 1, Threshold)
<1>0. /\ fails[b] \in 0..Threshold /\ Threshold \in Nat /\ Window \in Nat
      /\ Closed \notin 0..Window
      /\ age[b] # Closed <=> fails[b] = Threshold
  BY BreakerAssumption DEF StateOK
<1>1. CASE half[b]
  <2>1. /\ age' = [age EXCEPT ![b] = 0]
        /\ half' = [half EXCEPT ![b] = FALSE]
        /\ UNCHANGED fails
    BY <1>1 DEF RecordFailure
  <2>2. fails[b] = Threshold
    BY <1>0, <1>1 DEF StateOK
  <2> QED
    BY <1>0, <2>1, <2>2 DEF StateOK, UpTo
<1>2. CASE ~ half[b]
  <2>1. /\ fails' = [fails EXCEPT ![b] = UpTo(fails[b] + 1, Threshold)]
        /\ age' = [age EXCEPT ![b] = IF fails[b] + 1 >= Threshold
                                     THEN 0 ELSE age[b]]
        /\ UNCHANGED half
    BY <1>2 DEF RecordFailure
  <2>2. /\ UpTo(fails[b] + 1, Threshold) \in 0..Threshold
        /\ UpTo(fails[b] + 1, Threshold) = Threshold <=> fails[b] + 1 >= Threshold
    BY <1>0 DEF UpTo
  <2> QED
    BY <1>0, <1>2, <2>1, <2>2 DEF StateOK
<1> QED
  BY <1>1, <1>2

-----------------------------------------------------------------------------
(* The types; TypeOK says of the breakers what StateOK says.                *)

ControlOK ==
    /\ current \in Instances \cup {NoBreaker}
    /\ pc \in [Threads -> {"idle", "register", "attempt"}]
    /\ mine \in [Threads -> Instances \cup {NoBreaker}]
    /\ tries \in [Threads -> 0..(1 + Retries)]
    /\ split \in BOOLEAN
    /\ streak \in 0..Threshold

LEMMA TypeSplits == TypeOK <=> StateOK /\ ControlOK
BY DEF TypeOK, StateOK, ControlOK

LEMMA SameState == ASSUME StateOK, UNCHANGED state PROVE StateOK'
BY DEF StateOK, state

LEMMA ThreadStepType ==
    ASSUME TypeOK, AttemptsHaveOne, NEW t \in Threads, ThreadStep(t)
    PROVE  TypeOK' /\ AttemptsHaveOne'
<1>0. StateOK /\ ControlOK
  BY TypeSplits
<1>a. /\ Retries \in Nat /\ Threshold \in Nat /\ t \in Instances
      /\ pc[t] = "attempt" => mine[t] \in Instances
      /\ UpTo(streak + 1, Threshold) \in 0..Threshold
  BY <1>0, BreakerAssumption DEF Instances, AttemptsHaveOne, UpTo, ControlOK
<1>1. CASE Call(t)
  <2>1. current \in Instances
    BY <1>0, <1>1 DEF Call, ControlOK
  <2>2. StateOK'
    BY <1>0, <1>1, <2>1, AllowOK DEF Call
  <2>3. ControlOK' /\ AttemptsHaveOne'
    BY <1>0, <1>1, <1>a, <2>1
       DEF Call, Admitted, Goes, ControlOK, AttemptsHaveOne
  <2> QED
    BY <2>2, <2>3, TypeSplits, PTL
<1>2. CASE CallRejected(t)
  <2>1. StateOK' /\ ControlOK' /\ AttemptsHaveOne'
    BY <1>0, <1>2 DEF CallRejected, vars, state, StateOK, ControlOK,
                      AttemptsHaveOne
  <2> QED
    BY <2>1, TypeSplits, PTL
<1>3. CASE LooksUpNothing(t)
  <2>1. StateOK' /\ ControlOK' /\ AttemptsHaveOne'
    BY <1>0, <1>3, SameState
       DEF LooksUpNothing, Goes, ControlOK, AttemptsHaveOne
  <2> QED
    BY <2>1, TypeSplits, PTL
<1>4. CASE Register(t)
  <2>1. StateOK'
    BY <1>0, <1>4, <1>a, AllowOK DEF Register
  <2>2. ControlOK' /\ AttemptsHaveOne'
    BY <1>0, <1>4, <1>a
       DEF Register, Admitted, Goes, ControlOK, AttemptsHaveOne
  <2> QED
    BY <2>1, <2>2, TypeSplits, PTL
<1>5. CASE AttemptSucceeds(t)
  <2>1. StateOK'
    BY <1>0, <1>5, <1>a, SuccessOK DEF AttemptSucceeds
  <2>2. ControlOK' /\ AttemptsHaveOne'
    BY <1>0, <1>5, <1>a
       DEF AttemptSucceeds, Returns, Goes, ControlOK, AttemptsHaveOne
  <2> QED
    BY <2>1, <2>2, TypeSplits, PTL
<1>6. CASE AttemptRetried(t)
  <2>1. StateOK' /\ ControlOK' /\ AttemptsHaveOne'
    BY <1>0, <1>6, <1>a, SameState
       DEF AttemptRetried, ControlOK, AttemptsHaveOne
  <2> QED
    BY <2>1, TypeSplits, PTL
<1>7. CASE CallFails(t)
  <2>1. StateOK'
    BY <1>0, <1>7, <1>a, FailureOK DEF CallFails
  <2>2. ControlOK' /\ AttemptsHaveOne'
    BY <1>0, <1>7, <1>a
       DEF CallFails, Returns, Goes, ControlOK, AttemptsHaveOne
  <2> QED
    BY <2>1, <2>2, TypeSplits, PTL
<1>8. CASE CallEscapes(t)
  <2>1. StateOK' /\ ControlOK' /\ AttemptsHaveOne'
    BY <1>0, <1>8, <1>a, SameState
       DEF CallEscapes, Returns, Goes, ControlOK, AttemptsHaveOne
  <2> QED
    BY <2>1, TypeSplits, PTL
<1> QED
  BY <1>1, <1>2, <1>3, <1>4, <1>5, <1>6, <1>7, <1>8 DEF ThreadStep

(* The clock only ages what is open.                                        *)
LEMMA TickType ==
    ASSUME TypeOK, AttemptsHaveOne, Tick
    PROVE  TypeOK' /\ AttemptsHaveOne'
<1>0. StateOK /\ ControlOK /\ Window \in Nat /\ Closed \notin 0..Window
  BY TypeSplits, BreakerAssumption
<1>1. \A b \in Instances :
         /\ age'[b] \in (0..Window) \cup {Closed}
         /\ age'[b] = Closed <=> age[b] = Closed
  <2> SUFFICES ASSUME NEW b \in Instances
               PROVE  /\ age'[b] \in (0..Window) \cup {Closed}
                      /\ age'[b] = Closed <=> age[b] = Closed
    OBVIOUS
  <2>1. age'[b] = IF age[b] = Closed THEN Closed ELSE UpTo(age[b] + 1, Window)
    BY DEF Tick
  <2>2. CASE age[b] = Closed
    BY <2>1, <2>2
  <2>3. CASE age[b] # Closed
    <3>1. age[b] \in 0..Window
      BY <1>0, <2>3 DEF StateOK
    <3>2. UpTo(age[b] + 1, Window) \in 0..Window
      BY <1>0, <3>1 DEF UpTo
    <3> QED
      BY <1>0, <2>1, <2>3, <3>2
  <2> QED
    BY <2>2, <2>3
<1>2. age' \in [Instances -> (0..Window) \cup {Closed}]
  BY <1>1 DEF Tick
<1>3. StateOK'
  BY <1>0, <1>1, <1>2 DEF StateOK, Tick
<1>4. ControlOK' /\ AttemptsHaveOne'
  BY <1>0 DEF ControlOK, AttemptsHaveOne, Tick
<1> QED
  BY <1>3, <1>4, TypeSplits, PTL

-----------------------------------------------------------------------------
(* The failures in a row are counted on the breaker in the dict.            *)

(* A thread that leaves its attempt takes nothing from the others.          *)
LEMMA ReturnKeeps ==
    ASSUME TypeOK, NEW t \in Threads, Returns(t)
    PROVE  \A u \in Threads :
              pc'[u] = "attempt" => pc[u] = "attempt" /\ mine'[u] = mine[u]
BY DEF TypeOK, Returns, Goes

LEMMA ThreadStepCounts ==
    ASSUME BreakerInv, NEW t \in Threads, ThreadStep(t)
    PROVE  CountedOnOne'
<1> SUFFICES ASSUME ~ split' PROVE CountedOnOne'
  BY DEF CountedOnOne
<1>0. StateOK /\ ControlOK /\ CountedOnOne /\ TypeOK /\ AttemptsHaveOne
  BY TypeSplits DEF BreakerInv
<1>b. ~ split
  BY DEF ThreadStep, Call, CallRejected, LooksUpNothing, Register,
         AttemptSucceeds, AttemptRetried, CallFails, CallEscapes, vars
<1>a. /\ Threshold \in Nat /\ streak \in 0..Threshold /\ t \in Instances
      /\ NoBreaker \notin Instances
      /\ \A b \in Instances : fails[b] \in 0..Threshold
  BY <1>0, BreakerAssumption DEF StateOK, ControlOK, Instances
<1>1. CASE Call(t)
  <2>1. current \in Instances
    BY <1>0, <1>1 DEF Call, ControlOK
  <2>2. UNCHANGED <<fails, current, streak>>
    BY <1>0, <1>1, <2>1, AllowOK DEF Call
  <2> QED
    BY <1>0, <1>1, <1>b, <2>1, <2>2
       DEF Call, Admitted, Goes, ControlOK, CountedOnOne
<1>2. CASE CallRejected(t)
  BY <1>0, <1>2, <1>b DEF CallRejected, vars, state, CountedOnOne
<1>3. CASE LooksUpNothing(t)
  BY <1>0, <1>3, <1>b
     DEF LooksUpNothing, Goes, state, CountedOnOne, ControlOK
<1>4. CASE Register(t)
  <2>1. UNCHANGED <<fails, streak>> /\ current' = t /\ current = NoBreaker
    BY <1>0, <1>4, <1>a, AllowOK DEF Register
  <2>2. streak = 0 /\ \A u \in Threads : pc[u] # "attempt"
    BY <1>0, <1>b, <2>1 DEF CountedOnOne
  <2>3. \A u \in Threads : pc'[u] = "attempt" => mine'[u] = t
    BY <1>0, <1>4, <2>2 DEF Register, Admitted, Goes, ControlOK
  <2> QED
    BY <1>a, <2>1, <2>2, <2>3 DEF CountedOnOne
<1>5. CASE AttemptSucceeds(t)
  <2>1. \A u \in Threads :
           pc'[u] = "attempt" => pc[u] = "attempt" /\ mine'[u] = mine[u]
    BY <1>0, <1>5, ReturnKeeps DEF AttemptSucceeds
  <2>2. streak' = 0 /\ UNCHANGED current
    BY <1>5 DEF AttemptSucceeds
  <2>3. \A b \in Instances : 0 <= fails'[b]
    BY <1>0, <1>5, <1>a, SuccessOK DEF AttemptSucceeds, AttemptsHaveOne, StateOK
  <2>4. current = NoBreaker \/ current \in Instances
    BY <1>0 DEF ControlOK
  <2> QED
    BY <1>0, <1>b, <2>1, <2>2, <2>3, <2>4 DEF CountedOnOne
<1>6. CASE AttemptRetried(t)
  BY <1>0, <1>6, <1>b DEF AttemptRetried, state, CountedOnOne
<1>7. CASE CallFails(t)
  <2>1. \A u \in Threads :
           pc'[u] = "attempt" => pc[u] = "attempt" /\ mine'[u] = mine[u]
    BY <1>0, <1>7, ReturnKeeps DEF CallFails
  <2>2. pc[t] = "attempt"
    BY <1>7 DEF CallFails
  <2>3. current # NoBreaker /\ mine[t] = current /\ streak <= fails[current]
    BY <1>0, <1>b, <2>2 DEF CountedOnOne
  <2>4. mine[t] \in Instances
    BY <1>0, <2>2 DEF AttemptsHaveOne
  <2>5. fails'[current] = UpTo(fails[current] + 1, Threshold)
    BY <1>0, <1>7, <2>3, <2>4, FailureOK DEF CallFails
  <2>6. streak' = UpTo(streak + 1, Threshold) /\ UNCHANGED current
    BY <1>7 DEF CallFails
  <2>7. fails[current] \in 0..Threshold
    BY <1>a, <2>3, <2>4
  <2>8. streak' <= fails'[current]
    BY <1>a, <2>3, <2>5, <2>6, <2>7 DEF UpTo
  <2> QED
    BY <1>0, <1>b, <2>1, <2>3, <2>6, <2>8 DEF CountedOnOne
<1>8. CASE CallEscapes(t)
  <2>1. \A u \in Threads :
           pc'[u] = "attempt" => pc[u] = "attempt" /\ mine'[u] = mine[u]
    BY <1>0, <1>8, ReturnKeeps DEF CallEscapes
  <2> QED
    BY <1>0, <1>8, <1>b, <2>1 DEF CallEscapes, state, CountedOnOne
<1> QED
  BY <1>1, <1>2, <1>3, <1>4, <1>5, <1>6, <1>7, <1>8 DEF ThreadStep

-----------------------------------------------------------------------------

LEMMA InitBreakerInv ==
    ASSUME Init PROVE BreakerInv
<1>0. Threshold \in Nat \ {0} /\ Window \in Nat /\ Retries \in Nat
  BY BreakerAssumption
<1>1. TypeOK
  <2>1. fails \in [Instances -> 0..Threshold]
    BY <1>0 DEF Init
  <2>2. tries \in [Threads -> 0..(1 + Retries)]
    BY <1>0 DEF Init
  <2>3. \A b \in Instances : /\ age[b] # Closed <=> fails[b] = Threshold
                             /\ half[b] => age[b] # Closed
    <3> SUFFICES ASSUME NEW b \in Instances
                 PROVE  /\ age[b] # Closed <=> fails[b] = Threshold
                        /\ half[b] => age[b] # Closed
      OBVIOUS
    <3>1. age[b] = Closed /\ fails[b] = 0
      BY DEF Init
    <3>2. half[b] = FALSE
      BY DEF Init
    <3>3. fails[b] # Threshold
      BY <1>0, <3>1
    <3> QED
      BY <3>1, <3>2, <3>3
  <2>4. /\ current \in Instances \cup {NoBreaker}
        /\ age \in [Instances -> (0..Window) \cup {Closed}]
        /\ half \in [Instances -> BOOLEAN]
    BY DEF Init, Instances
  <2>5. /\ pc \in [Threads -> {"idle", "register", "attempt"}]
        /\ mine \in [Threads -> Instances \cup {NoBreaker}]
    BY DEF Init
  <2>6. split \in BOOLEAN
    BY DEF Init
  <2>7. streak \in 0..Threshold
    BY <1>0 DEF Init
  <2> QED
    BY <2>1, <2>2, <2>3, <2>4, <2>5, <2>6, <2>7 DEF TypeOK
<1>2. AttemptsHaveOne /\ CountedOnOne
  BY BreakerAssumption DEF Init, AttemptsHaveOne, CountedOnOne, Instances
<1> QED
  BY <1>1, <1>2 DEF BreakerInv

LEMMA NextBreakerInv ==
    ASSUME BreakerInv, [Next]_vars PROVE BreakerInv'
<1>0. TypeOK /\ AttemptsHaveOne /\ CountedOnOne
  BY DEF BreakerInv
<1>1. CASE Tick
  <2>1. TypeOK' /\ AttemptsHaveOne'
    BY <1>0, <1>1, TickType
  <2>2. CountedOnOne'
    BY <1>0, <1>1 DEF Tick, CountedOnOne
  <2> QED
    BY <2>1, <2>2 DEF BreakerInv
<1>2. CASE TargetChanges
  BY <1>0, <1>2 DEF TargetChanges, state, BreakerInv, TypeOK, AttemptsHaveOne,
                    CountedOnOne
<1>3. ASSUME NEW t \in Threads, ThreadStep(t) PROVE BreakerInv'
  BY <1>0, <1>3, ThreadStepType, ThreadStepCounts DEF BreakerInv
<1>4. CASE UNCHANGED vars
  BY <1>0, <1>4 DEF vars, state, BreakerInv, TypeOK, AttemptsHaveOne,
                    CountedOnOne
<1> QED
  BY <1>1, <1>2, <1>3, <1>4 DEF Next

THEOREM BreakerInvariant == Spec => []BreakerInv
BY InitBreakerInv, NextBreakerInv, PTL DEF Spec

(* "`breaker after <N>` reads as N bad calls in a row", for every N and any *)
(* number of threads sharing the breaker without a lock (_Breaker,          *)
(* _call_with_resilience), unless two first calls have each registered one. *)
THEOREM TripsHolds == Spec => []TripsAtThreshold
<1>1. BreakerInv => TripsAtThreshold
  <2> SUFFICES ASSUME BreakerInv, streak = Threshold, ~ split
               PROVE  current # NoBreaker /\ age[current] # Closed
    BY DEF TripsAtThreshold
  <2>1. StateOK /\ ControlOK /\ CountedOnOne
    BY TypeSplits DEF BreakerInv
  <2>2. current # NoBreaker
    BY <2>1, BreakerAssumption DEF CountedOnOne
  <2>3. current \in Instances /\ Threshold \in Nat
    BY <2>1, <2>2, BreakerAssumption DEF ControlOK
  <2>4. fails[current] \in 0..Threshold /\ Threshold <= fails[current]
    BY <2>1, <2>2, <2>3 DEF CountedOnOne, StateOK
  <2> QED
    BY <2>1, <2>2, <2>3, <2>4 DEF StateOK
<1> QED
  BY <1>1, BreakerInvariant, PTL

-----------------------------------------------------------------------------
(* Numbers.                                                                 *)

(* A set of numbers has a least element, and a bounded one a greatest.      *)
LEMMA LeastExists ==
    ASSUME NEW S \in SUBSET Nat, S # {}
    PROVE  \E x \in S : \A y \in S : x <= y
<1>1. PICK x \in S : \A y \in S : ~ (<<y, x>> \in OpToRel(<, Nat))
  BY WFMin, NatLessThanWellFounded, Zenon
<1>2. x \in Nat /\ \A y \in S : y \in Nat
  OBVIOUS
<1>3. \A y \in S : ~ (y < x)
  BY <1>1, <1>2, Zenon DEF OpToRel
<1> QED
  BY <1>2, <1>3

LEMMA MaxIsGreatest ==
    ASSUME NEW n \in Nat, NEW S \in SUBSET (0..n), S # {}
    PROVE  Tailing!Max(S) \in S /\ \A y \in S : y <= Tailing!Max(S)
<1> DEFINE Gaps == {g \in Nat : \E y \in S : g = n - y}
<1>1. Gaps # {}
  <2>1. PICK y \in S : TRUE
    OBVIOUS
  <2>2. n - y \in Gaps
    BY <2>1
  <2> QED
    BY <2>2
<1>2. PICK g \in Gaps : \A h \in Gaps : g <= h
  BY <1>1, LeastExists
<1>3. PICK x \in S : g = n - x
  BY <1>2
<1>4. \A y \in S : y <= x
  <2> SUFFICES ASSUME NEW y \in S PROVE y <= x
    OBVIOUS
  <2>1. g <= n - y
    BY <1>2
  <2> QED
    BY <1>3, <2>1
<1>5. \E m \in S : \A y \in S : m >= y
  BY <1>4
<1> QED
  BY <1>5 DEF Tailing!Max

-----------------------------------------------------------------------------
(* The tail of the outbox.                                                  *)

(* A sequence that lists a set in the order of its numbers.                 *)
Lists(q, S) == /\ q \in Seq(S)
               /\ \A i, j \in DOMAIN q : i < j => q[i] < q[j]
               /\ \A s \in S : \E i \in DOMAIN q : q[i] = s

(* The rows a subscriber can be sent.                                       *)
Ours == rows \cap ours

(* One run at a time has numbered rows, and they come after all others; what *)
(* is rolled back is forgotten.                                             *)
StoreOrdered ==
    /\ rows \subseteq Tailing!Seqs /\ ours \subseteq Tailing!Numbered
    /\ pending \in [Writers -> SUBSET Tailing!Seqs]
    /\ \A w \in Writers : \A p \in pending[w], s \in rows : s < p
    /\ \A w, v \in Writers : pending[w] # {} /\ pending[v] # {} => w = v

(* What was received, what is on the wire and what is fetched follow one    *)
(* another in the event's rows without a gap, while a frame can still come. *)
StreamFollows ==
    /\ after \in {0} \cup rows
    /\ Lists(got, {s \in Ours : s <= Tailing!LastId})
    /\ open \/ wire # <<>> =>
         Tailing!LastId <= after /\ Lists(wire, {s \in Ours : Tailing!LastId < s /\ s <= after})
    /\ \/ fetched = <<>>
       \/ /\ open
          /\ Lists(fetched, {s \in Ours : after < s /\ s <= fetched[Len(fetched)]})

TailInv == StoreOrdered /\ StreamFollows

LEMMA SeqOfElements ==
    ASSUME NEW S, NEW T, NEW q \in Seq(S), \A i \in 1..Len(q) : q[i] \in T
    PROVE  q \in Seq(T)
<1>1. Len(q) \in Nat /\ q \in [1..Len(q) -> T]
  OBVIOUS
<1> QED
  BY <1>1

(* Lists: the empty one, one number more at the end, one less at the front. *)
LEMMA ListsNothing == Lists(<<>>, {})
BY DEF Lists

LEMMA ListsEnds ==
    ASSUME NEW S \in SUBSET Nat, NEW q, Lists(q, S), q # <<>>
    PROVE  /\ Len(q) \in Nat \ {0} /\ DOMAIN q = 1..Len(q)
           /\ q[Len(q)] \in S /\ \A s \in S : s <= q[Len(q)]
           /\ Head(q) \in S /\ \A s \in S : Head(q) <= s
<1>0. q \in Seq(S) /\ Len(q) \in Nat \ {0} /\ DOMAIN q = 1..Len(q)
  BY DEF Lists
<1>1. /\ Len(q) \in Nat \ {0} /\ DOMAIN q = 1..Len(q)
      /\ 1 \in 1..Len(q) /\ Len(q) \in 1..Len(q)
      /\ \A i \in 1..Len(q) : q[i] \in S /\ q[i] \in Nat
  <2>1. \A i \in 1..Len(q) : q[i] \in S
    BY <1>0
  <2>2. \A i \in 1..Len(q) : q[i] \in Nat
    BY <2>1
  <2> QED
    BY <1>0, <2>1, <2>2
<1>2. Head(q) = q[1]
  BY DEF Lists
<1>3. ASSUME NEW s \in S PROVE q[1] <= s /\ s <= q[Len(q)]
  <2>1. PICK i \in 1..Len(q) : q[i] = s
    BY <1>1 DEF Lists
  <2>2. (1 < i => q[1] < q[i]) /\ (i < Len(q) => q[i] < q[Len(q)])
    BY <1>1, <2>1 DEF Lists
  <2>3. q[1] \in Nat /\ q[Len(q)] \in Nat /\ s \in Nat
    BY <1>1
  <2> QED
    BY <1>1, <2>1, <2>2, <2>3
<1> QED
  BY <1>1, <1>2, <1>3

LEMMA ListsAppend ==
    ASSUME NEW S \in SUBSET Nat, NEW q, Lists(q, S), NEW n \in Nat, \A s \in S : s < n
    PROVE  Lists(Append(q, n), S \cup {n})
<1> DEFINE r == Append(q, n)
<1>1. /\ q \in Seq(S) /\ Len(q) \in Nat /\ DOMAIN q = 1..Len(q)
      /\ r \in Seq(S \cup {n}) /\ Len(r) = Len(q) + 1 /\ DOMAIN r = 1..(Len(q) + 1)
      /\ r[Len(q) + 1] = n /\ \A i \in 1..Len(q) : r[i] = q[i] /\ q[i] \in S
  BY DEF Lists
<1>2. ASSUME NEW i \in DOMAIN r, NEW j \in DOMAIN r, i < j PROVE r[i] < r[j]
  <2>1. CASE j = Len(q) + 1
    <3>1. i \in 1..Len(q)
      BY <1>1, <1>2, <2>1
    <3> QED
      BY <1>1, <2>1, <3>1
  <2>2. CASE j # Len(q) + 1
    <3>1. i \in 1..Len(q) /\ j \in 1..Len(q)
      BY <1>1, <1>2, <2>2
    <3> QED
      BY <1>1, <1>2, <3>1 DEF Lists
  <2> QED
    BY <2>1, <2>2
<1>3. ASSUME NEW s \in S \cup {n} PROVE \E i \in DOMAIN r : r[i] = s
  <2>1. CASE s = n
    BY <1>1, <2>1
  <2>2. CASE s \in S
    <3>1. PICK i \in 1..Len(q) : q[i] = s
      BY <1>1, <2>2 DEF Lists
    <3> QED
      BY <1>1, <3>1
  <2> QED
    BY <2>1, <2>2
<1> QED
  BY <1>1, <1>2, <1>3 DEF Lists

LEMMA ListsTail ==
    ASSUME NEW S \in SUBSET Nat, NEW q, Lists(q, S), q # <<>>
    PROVE  Lists(Tail(q), S \ {Head(q)})
<1> DEFINE r == Tail(q)
<1>1. /\ q \in Seq(S) /\ Len(q) \in Nat \ {0} /\ DOMAIN q = 1..Len(q) /\ Head(q) = q[1]
      /\ r \in Seq(S) /\ Len(r) = Len(q) - 1 /\ DOMAIN r = 1..(Len(q) - 1)
      /\ \A i \in 1..(Len(q) - 1) : r[i] = q[i + 1]
      /\ \A i \in 1..Len(q) : q[i] \in S
  BY DEF Lists
<1>2. ASSUME NEW i \in 1..(Len(q) - 1) PROVE r[i] \in S \ {q[1]}
  <2>1. q[1] < q[i + 1]
    BY <1>1, <1>2 DEF Lists
  <2>2. 1 \in 1..Len(q) /\ i + 1 \in 1..Len(q)
    BY <1>1, <1>2
  <2>3. q[1] \in Nat /\ q[i + 1] \in S /\ r[i] = q[i + 1] /\ q[i + 1] \in Nat
    BY <1>1, <2>2
  <2> QED
    BY <2>1, <2>3
<1>3. ASSUME NEW i \in 1..(Len(q) - 1), NEW j \in 1..(Len(q) - 1), i < j PROVE r[i] < r[j]
  BY <1>1, <1>3 DEF Lists
<1>4. ASSUME NEW s \in S \ {q[1]} PROVE \E i \in 1..(Len(q) - 1) : r[i] = s
  <2>1. PICK i \in 1..Len(q) : q[i] = s
    BY <1>1, <1>4 DEF Lists
  <2>2. i - 1 \in 1..(Len(q) - 1) /\ r[i - 1] = q[i]
    BY <1>1, <1>4, <2>1
  <2> QED
    BY <2>1, <2>2
<1>5. r \in Seq(S \ {q[1]})
  <2>1. \A i \in 1..Len(r) : r[i] \in S \ {q[1]}
    BY <1>1, <1>2
  <2> QED
    BY <1>1, <2>1, SeqOfElements
<1> QED
  BY <1>1, <1>3, <1>4, <1>5 DEF Lists

LEMMA TailInit == Tailing!Init => TailInv
<1> SUFFICES ASSUME Tailing!Init PROVE TailInv
  OBVIOUS
<1>1. {s \in Ours : s <= Tailing!LastId} = {}
  BY DEF Tailing!Init, Tailing!LastId, Ours
<1> QED
  BY <1>1, ListsNothing DEF Tailing!Init, TailInv, StoreOrdered, StreamFollows, Tailing!Seqs

-----------------------------------------------------------------------------
(* The runs only add rows, behind all that are there.                       *)

LEMMA SeqsAreNumbers == Tailing!Seqs \subseteq Nat \ {0} /\ MaxSeq \in Nat
BY OutboundAssumption DEF Tailing!Seqs, Tailing!TailAssumption

LEMMA NextIsNew ==
    ASSUME StoreOrdered
    PROVE  Tailing!NextSeq \in Nat \ {0} /\ \A s \in Tailing!Numbered : s < Tailing!NextSeq
<1> DEFINE All == {0} \cup Tailing!Numbered
<1>1. All \in SUBSET (0..MaxSeq)
  <2>1. \A w \in Writers : pending[w] \subseteq Tailing!Seqs
    BY DEF StoreOrdered
  <2>2. Tailing!Numbered \subseteq Tailing!Seqs
    BY <2>1 DEF StoreOrdered, Tailing!Numbered
  <2> QED
    BY <2>2, SeqsAreNumbers DEF Tailing!Seqs
<1>2. Tailing!Max(All) \in All /\ \A s \in All : s <= Tailing!Max(All)
  BY <1>1, SeqsAreNumbers, MaxIsGreatest
<1> QED
  BY <1>1, <1>2 DEF Tailing!NextSeq

LEMMA LastIsARow ==
    ASSUME StoreOrdered, StreamFollows
    PROVE  Tailing!LastId \in {0} \cup Ours
<1>1. CASE got = <<>>
  BY <1>1 DEF Tailing!LastId
<1>2. CASE got # <<>>
  <2>1. {s \in Ours : s <= Tailing!LastId} \in SUBSET Nat
    BY SeqsAreNumbers DEF Ours, StoreOrdered
  <2>2. got[Len(got)] \in Ours
    BY <1>2, <2>1, ListsEnds DEF StreamFollows
  <2> QED
    BY <1>2, <2>2 DEF Tailing!LastId, Tailing!Last
<1> QED
  BY <1>1, <1>2

(* A stream does not notice rows behind all that it has dealt with.         *)
LEMMA GrowthKeepsStream ==
    ASSUME TailInv, UNCHANGED <<open, after, fetched, wire, got>>,
           rows \subseteq rows', Ours \subseteq Ours',
           \A s \in Ours' \ Ours : s \in Nat \ {0} /\ \A r \in rows : r < s
    PROVE  StreamFollows'
<1>1. Tailing!LastId' = Tailing!LastId
  BY DEF Tailing!LastId
<1>2. /\ Tailing!LastId \in {0} \cup Ours /\ after \in {0} \cup rows
      /\ Ours \subseteq rows /\ rows \subseteq Nat \ {0}
  BY LastIsARow, SeqsAreNumbers DEF TailInv, StreamFollows, StoreOrdered, Ours
<1>3. ASSUME NEW n \in {0} \cup rows PROVE \A s \in Ours' : s <= n => s \in Ours
  BY <1>2, <1>3
<1>4. ASSUME NEW n \in {0} \cup rows, NEW m
      PROVE  /\ {s \in Ours' : s <= n} = {s \in Ours : s <= n}
             /\ {s \in Ours' : m < s /\ s <= n} = {s \in Ours : m < s /\ s <= n}
  BY <1>3, <1>4
<1>5. CASE fetched = <<>>
  BY <1>1, <1>2, <1>4, <1>5 DEF TailInv, StreamFollows
<1>6. CASE fetched # <<>>
  <2>1. Lists(fetched, {s \in Ours : after < s /\ s <= fetched[Len(fetched)]})
    BY <1>6 DEF TailInv, StreamFollows
  <2>2. {s \in Ours : after < s /\ s <= fetched[Len(fetched)]} \in SUBSET Nat
    BY <1>2
  <2>3. fetched[Len(fetched)] \in Ours
    BY <1>6, <2>1, <2>2, ListsEnds
  <2> QED
    BY <1>1, <1>2, <1>4, <1>6, <2>3 DEF TailInv, StreamFollows
<1> QED
  BY <1>5, <1>6

LEMMA InsertKeeps ==
    ASSUME TailInv, NEW w \in Writers, Tailing!Insert(w) PROVE TailInv'
<1> DEFINE n == Tailing!NextSeq
<1>1. n \in Tailing!Seqs /\ n \notin Tailing!Numbered /\ \A s \in Tailing!Numbered : s < n
  BY NextIsNew, SeqsAreNumbers DEF TailInv, Tailing!Insert, Tailing!Seqs
<1>2. /\ UNCHANGED rows /\ ours' \in {ours, ours \cup {n}}
      /\ pending' = [pending EXCEPT ![w] = @ \cup {n}]
      /\ \A v \in Writers \ {w} : pending[v] = {}
      /\ UNCHANGED <<open, after, fetched, wire, got>>
  BY DEF Tailing!Insert, Tailing!HoldsLock, Tailing!stream
<1>3. /\ pending' \in [Writers -> SUBSET Tailing!Seqs]
      /\ pending'[w] = pending[w] \cup {n} /\ \A v \in Writers \ {w} : pending'[v] = {}
  BY <1>1, <1>2 DEF TailInv, StoreOrdered
<1>4. Tailing!Numbered' = Tailing!Numbered \cup {n}
  BY <1>2, <1>3 DEF Tailing!Numbered
<1>5. StoreOrdered'
  BY <1>1, <1>2, <1>3, <1>4 DEF TailInv, StoreOrdered, Tailing!Numbered
<1>6. Ours' = Ours
  BY <1>1, <1>2 DEF Ours, Tailing!Numbered
<1> QED
  BY <1>2, <1>5, <1>6, GrowthKeepsStream DEF TailInv

LEMMA CommitKeepsTail ==
    ASSUME TailInv, NEW w \in Writers, Tailing!CommitRun(w) PROVE TailInv'
<1>1. /\ rows' = rows \cup pending[w] /\ pending' = [pending EXCEPT ![w] = {}]
      /\ UNCHANGED <<ours, open, after, fetched, wire, got>> /\ pending[w] # {}
  BY DEF Tailing!CommitRun, Tailing!stream
<1>2. /\ pending' \in [Writers -> SUBSET Tailing!Seqs]
      /\ \A v \in Writers : pending'[v] = {}
  BY <1>1 DEF TailInv, StoreOrdered
<1>3. Tailing!Numbered' = Tailing!Numbered
  BY <1>1, <1>2 DEF Tailing!Numbered, TailInv, StoreOrdered
<1>4. StoreOrdered'
  BY <1>1, <1>2, <1>3 DEF TailInv, StoreOrdered
<1>5. /\ Ours \subseteq Ours'
      /\ \A s \in Ours' \ Ours : s \in Nat \ {0} /\ \A r \in rows : r < s
  BY <1>1, SeqsAreNumbers DEF Ours, TailInv, StoreOrdered
<1> QED
  BY <1>1, <1>4, <1>5, GrowthKeepsStream DEF TailInv

LEMMA RollbackKeepsTail ==
    ASSUME TailInv, NEW w \in Writers, Tailing!RollbackRun(w) PROVE TailInv'
<1>1. /\ ours' = ours \ pending[w] /\ pending' = [pending EXCEPT ![w] = {}]
      /\ UNCHANGED <<rows, open, after, fetched, wire, got>> /\ pending[w] # {}
  BY DEF Tailing!RollbackRun, Tailing!stream
<1>2. /\ pending' \in [Writers -> SUBSET Tailing!Seqs]
      /\ \A v \in Writers : pending'[v] = {} /\ (v # w => pending[v] = {})
  BY <1>1 DEF TailInv, StoreOrdered
<1>3. StoreOrdered'
  BY <1>1, <1>2 DEF TailInv, StoreOrdered, Tailing!Numbered
<1>4. Ours' = Ours
  <2>1. \A p \in pending[w], s \in rows : s < p /\ s \in Nat
    BY SeqsAreNumbers DEF TailInv, StoreOrdered
  <2>2. rows \cap pending[w] = {}
    BY <2>1
  <2> QED
    BY <1>1, <2>2 DEF Ours
<1> QED
  BY <1>1, <1>3, <1>4, GrowthKeepsStream DEF TailInv

-----------------------------------------------------------------------------
(* The stream moves one number at a time.                                   *)

LEMMA OursAreNumbers ==
    ASSUME TailInv
    PROVE  /\ Ours \subseteq Nat \ {0} /\ after \in Nat /\ Tailing!LastId \in Nat
           /\ Tailing!LastId \in {0} \cup Ours
<1>1. Ours \subseteq rows /\ rows \subseteq Nat \ {0}
  BY SeqsAreNumbers DEF TailInv, StoreOrdered, Ours
<1>2. after \in {0} \cup rows
  BY DEF TailInv, StreamFollows
<1>3. Tailing!LastId \in {0} \cup Ours
  BY LastIsARow DEF TailInv
<1> QED
  BY <1>1, <1>2, <1>3

LEMMA SubscribeKeeps ==
    ASSUME TailInv, Tailing!Subscribe PROVE TailInv'
<1>1. /\ UNCHANGED <<rows, ours, pending, wire, got>>
      /\ wire = <<>> /\ after' = Tailing!LastId /\ fetched' = <<>>
  BY DEF Tailing!Subscribe, Tailing!store
<1>2. StoreOrdered' /\ Ours' = Ours /\ Tailing!LastId' = Tailing!LastId
  BY <1>1 DEF TailInv, StoreOrdered, Tailing!Numbered, Ours, Tailing!LastId
<1>3. {s \in Ours : Tailing!LastId < s /\ s <= Tailing!LastId} = {}
  BY OursAreNumbers
<1>4. after' \in {0} \cup rows /\ Tailing!LastId <= after'
  BY <1>1, OursAreNumbers DEF Ours
<1> QED
  BY <1>1, <1>2, <1>3, <1>4, ListsNothing DEF TailInv, StreamFollows

LEMMA SameCardinality == ASSUME NEW S PROVE Tailing!Cardinality(S) = Cardinality(S)
BY DEF Tailing!Cardinality, Cardinality

(* read_outbox returns rows: the last of them is the greatest there is.     *)
LEMMA ReadKeeps ==
    ASSUME TailInv, Tailing!ReadOutbox PROVE TailInv'
<1>1. /\ UNCHANGED <<rows, ours, pending, open, after, wire, got>>
      /\ open /\ Tailing!Since # {} /\ fetched' \in Tailing!InSeqOrder(Tailing!Since)
  BY DEF Tailing!ReadOutbox, Tailing!store
<1>2. StoreOrdered' /\ Ours' = Ours /\ Tailing!LastId' = Tailing!LastId
  BY <1>1 DEF TailInv, StoreOrdered, Tailing!Numbered, Ours, Tailing!LastId
<1>3. Tailing!Since = {s \in Ours : after < s}
  BY OursAreNumbers DEF Tailing!Since, Ours
<1>4. Lists(fetched', Tailing!Since)
  <2>1. IsFiniteSet(Tailing!Since)
    <3>1. Tailing!Since \subseteq 1..MaxSeq
      BY DEF Tailing!Since, TailInv, StoreOrdered, Tailing!Seqs
    <3>2. IsFiniteSet(1..MaxSeq)
      BY FS_Interval, SeqsAreNumbers
    <3> QED
      BY <3>1, <3>2, FS_Subset
  <2>2. Tailing!Cardinality(Tailing!Since) \in Nat
    BY <2>1, FS_CardinalityType, SameCardinality
  <2>3. fetched' \in [1..Tailing!Cardinality(Tailing!Since) -> Tailing!Since]
    BY <1>1 DEF Tailing!InSeqOrder
  <2>4. fetched' \in Seq(Tailing!Since)
    BY <2>2, <2>3
  <2> QED
    BY <1>1, <2>4 DEF Tailing!InSeqOrder, Lists
<1>5. fetched' # <<>>
  BY <1>1, <1>4 DEF Lists
<1>6. \A s \in Tailing!Since : s <= fetched'[Len(fetched')]
  BY <1>3, <1>4, <1>5, ListsEnds, OursAreNumbers
<1>7. Tailing!Since = {s \in Ours : after < s /\ s <= fetched'[Len(fetched')]}
  BY <1>3, <1>6
<1> QED
  BY <1>1, <1>2, <1>4, <1>7 DEF TailInv, StreamFollows

(* The frame yielded is the next of the event's rows behind the cursor.     *)
LEMMA YieldKeeps ==
    ASSUME TailInv, Tailing!YieldFrame PROVE TailInv'
<1> DEFINE n == Head(fetched)
           end == fetched[Len(fetched)]
           Left == {s \in Ours : after < s /\ s <= end}
           Sent == {s \in Ours : Tailing!LastId < s /\ s <= after}
<1>1. /\ UNCHANGED <<rows, ours, pending, open, got>>
      /\ open /\ fetched # <<>>
      /\ wire' = Append(wire, n) /\ after' = n /\ fetched' = Tail(fetched)
  BY DEF Tailing!YieldFrame, Tailing!store
<1>2. StoreOrdered' /\ Ours' = Ours /\ Tailing!LastId' = Tailing!LastId
  BY <1>1 DEF TailInv, StoreOrdered, Tailing!Numbered, Ours, Tailing!LastId
<1>3. Lists(fetched, Left) /\ Lists(wire, Sent) /\ Tailing!LastId <= after
  BY <1>1 DEF TailInv, StreamFollows
<1>4. Left \in SUBSET Nat /\ Sent \in SUBSET Nat
  BY OursAreNumbers
<1>5. n \in Left /\ (\A s \in Left : n <= s) /\ end \in Left
  BY <1>1, <1>3, <1>4, ListsEnds
<1>6. Lists(Tail(fetched), Left \ {n})
  BY <1>1, <1>3, <1>4, ListsTail
<1>7. Left \ {n} = {s \in Ours : n < s /\ s <= end}
  BY <1>5, OursAreNumbers
<1>8. Lists(wire', {s \in Ours : Tailing!LastId < s /\ s <= n})
  <2>1. \A s \in Sent : s < n
    BY <1>5, OursAreNumbers
  <2>2. Lists(wire', Sent \cup {n})
    BY <1>1, <1>3, <1>4, <1>5, <2>1, ListsAppend
  <2>3. Sent \cup {n} = {s \in Ours : Tailing!LastId < s /\ s <= n}
    BY <1>3, <1>5, OursAreNumbers
  <2> QED
    BY <2>2, <2>3
<1>9. \/ fetched' = <<>>
      \/ Lists(fetched', {s \in Ours : n < s /\ s <= fetched'[Len(fetched')]})
  <2> SUFFICES ASSUME fetched' # <<>> PROVE fetched'[Len(fetched')] = end
    BY <1>1, <1>6, <1>7
  <2>1. fetched \in Seq(Left) /\ fetched # <<>>
    BY <1>1, <1>3 DEF Lists
  <2>2. Len(Tail(fetched)) = Len(fetched) - 1 /\ Len(fetched) \in Nat \ {0}
    BY <2>1
  <2>3. Len(Tail(fetched)) \in Nat \ {0}
    BY <1>1, <2>1, <2>2
  <2> QED
    BY <1>1, <2>1, <2>2, <2>3
<1>10. after' \in {0} \cup rows /\ Tailing!LastId <= after'
  BY <1>1, <1>3, <1>5, OursAreNumbers DEF Ours
<1> QED
  BY <1>1, <1>2, <1>8, <1>9, <1>10 DEF TailInv, StreamFollows

LEMMA IdleKeeps ==
    ASSUME TailInv, Tailing!IdleTimeout PROVE TailInv'
BY DEF Tailing!IdleTimeout, Tailing!store, TailInv, StoreOrdered, StreamFollows,
       Tailing!Numbered, Ours, Tailing!LastId

LEMMA BreakKeeps ==
    ASSUME TailInv, Tailing!Break PROVE TailInv'
BY DEF Tailing!Break, Tailing!store, TailInv, StoreOrdered, StreamFollows,
       Tailing!Numbered, Ours, Tailing!LastId

LEMMA ReceiveKeeps ==
    ASSUME TailInv, Tailing!Receive PROVE TailInv'
<1> DEFINE n == Head(wire)
           Sent == {s \in Ours : Tailing!LastId < s /\ s <= after}
           Had == {s \in Ours : s <= Tailing!LastId}
<1>1. /\ UNCHANGED <<rows, ours, pending, open, after, fetched>>
      /\ wire # <<>> /\ got' = Append(got, n) /\ wire' = Tail(wire)
  BY DEF Tailing!Receive, Tailing!store
<1>2. StoreOrdered' /\ Ours' = Ours
  BY <1>1 DEF TailInv, StoreOrdered, Tailing!Numbered, Ours
<1>3. Lists(wire, Sent) /\ Lists(got, Had)
  BY <1>1 DEF TailInv, StreamFollows
<1>4. Sent \in SUBSET Nat /\ Had \in SUBSET Nat
  BY OursAreNumbers
<1>5. n \in Sent /\ \A s \in Sent : n <= s
  BY <1>1, <1>3, <1>4, ListsEnds
<1>6. Tailing!LastId' = n
  <2>1. got \in Seq(Had)
    BY <1>3 DEF Lists
  <2>2. got' # <<>> /\ got'[Len(got')] = n
    BY <1>1, <2>1
  <2> QED
    BY <2>2 DEF Tailing!LastId, Tailing!Last
<1>7. Lists(got', {s \in Ours : s <= n})
  <2>1. Had \cup {n} = {s \in Ours : s <= n}
    BY <1>5, OursAreNumbers
  <2>2. \A s \in Had : s < n
    BY <1>5, OursAreNumbers
  <2>3. Lists(got', Had \cup {n})
    BY <1>1, <1>3, <1>4, <1>5, <2>2, ListsAppend
  <2> QED
    BY <2>1, <2>3
<1>8. Lists(wire', {s \in Ours : n < s /\ s <= after})
  <2>1. Sent \ {n} = {s \in Ours : n < s /\ s <= after}
    BY <1>5, OursAreNumbers
  <2>2. Lists(wire', Sent \ {n})
    BY <1>1, <1>3, <1>4, ListsTail
  <2> QED
    BY <2>1, <2>2
<1>9. n <= after
  BY <1>5
<1> QED
  BY <1>1, <1>2, <1>6, <1>7, <1>8, <1>9 DEF TailInv, StreamFollows

LEMMA TailStep == TailInv /\ Tailing!Next => TailInv'
BY InsertKeeps, CommitKeepsTail, RollbackKeepsTail, SubscribeKeeps, ReadKeeps, YieldKeeps,
   IdleKeeps, BreakKeeps, ReceiveKeeps DEF Tailing!Next

LEMMA TailStutters == TailInv /\ UNCHANGED tailVars => TailInv'
BY DEF tailVars, TailInv, StoreOrdered, StreamFollows, Tailing!Numbered, Ours, Tailing!LastId

LEMMA TailInvGives == TailInv => TailExact
<1> SUFFICES ASSUME TailInv PROVE Tailing!TailExact
  BY DEF TailExact
<1>1. Lists(got, {s \in Ours : s <= Tailing!LastId})
  BY DEF TailInv, StreamFollows
<1>2. \A i \in DOMAIN got : got[i] \in {s \in Ours : s <= Tailing!LastId}
  BY <1>1 DEF Lists
<1> QED
  BY <1>1, <1>2 DEF Lists, Ours, Tailing!TailExact

(* A subscriber of an event gets its emissions in the order of their         *)
(* numbers, none twice, none skipped and none of a run that rolled back,     *)
(* however often its connection breaks (wsgi.py, _sse_frames): for any       *)
(* number of runs, rows and reconnections.                                   *)
THEOREM TailIsExact == MCSpec => []TailExact
<1>1. MCInit => TailInv
  BY TailInit DEF MCInit
<1>2. TailInv /\ [MCNext]_<<which, vars, connectionVars, tailVars>> => TailInv'
  BY TailStep, TailStutters DEF MCNext, BreakerNext, ConnectionNext, TailNext
<1> QED
  BY <1>1, <1>2, TailInvGives, PTL DEF MCSpec

-----------------------------------------------------------------------------
(* The kept connections.                                                    *)

R0 == Conn!Request0

ConnTypes ==
    /\ connStep \in {"idle", "attempt", "send", "read", "failed"}
    /\ connCall \in 0..MaxCalls /\ connAttempt \in 1..AttemptsPerCall
    /\ connCached \in Sockets \cup {Unconnected, Nothing}
    /\ connUsed \in Sockets \cup {Unconnected, Nothing} /\ connReused \in BOOLEAN
    /\ connHeld \subseteq Sockets /\ connPeer \subseteq Sockets
    /\ connInbox \in [Sockets -> Conn!Request \cup {Nothing}]
    /\ connAnswers \in [Sockets -> Seq(Conn!Request)]
    /\ connResult \in [Conn!Calls -> Conn!Request \cup {Conn!None, Conn!Failed}]
    /\ connExecuted \in [Conn!Calls -> Nat]
    /\ connTrouble \subseteq {c \in Conn!Calls : c <= connCall}

(* Which connection the thread works on, by where it is.                    *)
ConnPlaces ==
    /\ connStep # "idle" => connCall \in Conn!Calls
    /\ connStep \in {"idle", "attempt", "failed"} => connUsed = Nothing /\ ~ connReused
    /\ connStep = "send" =>
         IF connReused THEN connUsed = connCached /\ connCached # Nothing
         ELSE connUsed = Unconnected /\ connCached = Nothing
    /\ connStep = "read" =>
         connUsed \in connHeld /\ connCached \in {Nothing, Unconnected, connUsed}
    /\ connCached \in Sockets => connCached \in connHeld
    /\ connHeld \subseteq {connCached, connUsed}

(* Only the connection that is read from holds an answer, the one to this   *)
(* attempt; a request elsewhere is one that was given up on.                *)
WireIsKnown ==
    \A s \in Sockets :
      /\ connAnswers[s] # <<>> =>
           connStep = "read" /\ s = connUsed /\ connAnswers[s] = <<R0>> /\ connInbox[s] = Nothing
      /\ connInbox[s] # Nothing =>
           \/ connStep = "read" /\ s = connUsed /\ connInbox[s] = R0 /\ s \in connPeer
           \/ s \notin connHeld /\ connInbox[s].call \in connTrouble

(* Calls that are over, and those to come.                                  *)
CallsAreCounted ==
    \A c \in Conn!Calls :
      /\ c > connCall => connExecuted[c] = 0 /\ connResult[c] = Conn!None
      /\ connResult[c] \in Conn!Request => connResult[c].call = c /\ connExecuted[c] >= 1
      /\ c < connCall /\ c \notin connTrouble =>
           connResult[c] \in Conn!Request /\ connExecuted[c] = connResult[c].attempt

(* A call that has met no trouble was executed once per attempt, and its     *)
(* request is on the wire or went to a connection closed while it was idle. *)
CallIsSmooth ==
    /\ connResult[connCall] # Conn!Failed /\ connStep # "failed"
    /\ connStep = "idle" => /\ connResult[connCall] = R0
                            /\ connExecuted[connCall] = connAttempt
    /\ connStep \in {"attempt", "send"} => connExecuted[connCall] = connAttempt - 1
    /\ connStep = "read" =>
         \/ connAnswers[connUsed] = <<R0>> /\ connExecuted[connCall] = connAttempt
         \/ /\ connAnswers[connUsed] = <<>> /\ connExecuted[connCall] = connAttempt - 1
            /\ connInbox[connUsed] = R0 \/ connReused

CurrentCall ==
    connCall \in Conn!Calls =>
      /\ connStep = "read" /\ connAnswers[connUsed] # <<>> => connExecuted[connCall] >= 1
      /\ connCall \notin connTrouble => CallIsSmooth

ConnInv == ConnTypes /\ ConnPlaces /\ WireIsKnown /\ CallsAreCounted /\ CurrentCall

LEMMA ConnFacts ==
    /\ MaxCalls \in Nat /\ AttemptsPerCall \in Nat \ {0} /\ Conn!Calls = 1..MaxCalls
    /\ Unconnected \notin Sockets /\ Nothing \notin Sockets /\ Nothing # Unconnected
    /\ Nothing \notin Conn!Request
    /\ Conn!None \notin Conn!Request /\ Conn!Failed \notin Conn!Request
    /\ Conn!None # Conn!Failed
BY OutboundAssumption DEF Conn!ConnectionAssumption, Conn!Calls, Conn!Request, Conn!None, Conn!Failed

LEMMA R0IsARequest ==
    ASSUME ConnTypes, connCall \in Conn!Calls
    PROVE  R0 \in Conn!Request /\ R0.call = connCall /\ R0.attempt = connAttempt
BY DEF ConnTypes, R0, Conn!Request0, Conn!Request

LEMMA CallKeepsConn ==
    ASSUME ConnInv, Conn!Call PROVE ConnInv'
<1> USE ConnFacts DEF ConnInv, Conn!Call, Conn!wireVars, R0, Conn!Request0
<1>1. ConnTypes'
  <2>1. connCall' \in 0..MaxCalls /\ connAttempt' \in 1..AttemptsPerCall /\ connCall < connCall'
    BY DEF ConnTypes
  <2>2. \A c \in connTrouble : c \in Conn!Calls /\ c <= connCall'
    BY <2>1 DEF ConnTypes
  <2> QED
    BY <2>1, <2>2 DEF ConnTypes
<1>2. ConnPlaces'
  BY DEF ConnTypes, ConnPlaces
<1>3. WireIsKnown'
  BY DEF ConnTypes, ConnPlaces, WireIsKnown, Conn!Forgotten
<1>4. CallsAreCounted'
  <2> SUFFICES ASSUME NEW c \in Conn!Calls
               PROVE  /\ c > connCall' => connExecuted[c] = 0 /\ connResult[c] = Conn!None
                      /\ c < connCall' /\ c \notin connTrouble =>
                           /\ connResult[c] \in Conn!Request
                           /\ connExecuted[c] = connResult[c].attempt
    BY DEF CallsAreCounted
  <2>1. CASE c > connCall
    BY <2>1 DEF ConnTypes, CallsAreCounted
  <2>2. CASE c < connCall
    BY <2>2 DEF ConnTypes, CallsAreCounted
  <2>3. CASE c = connCall
    BY <2>3, R0IsARequest DEF ConnTypes, CurrentCall, CallIsSmooth
  <2> QED
    BY <2>1, <2>2, <2>3 DEF ConnTypes
<1>5. CurrentCall'
  BY DEF ConnTypes, ConnPlaces, WireIsKnown, CallsAreCounted, CurrentCall, CallIsSmooth, Conn!Forgotten
<1> QED
  BY <1>1, <1>2, <1>3, <1>4, <1>5

LEMMA TakeConnectionKeepsConn ==
    ASSUME ConnInv, Conn!TakeConnection PROVE ConnInv'
<1> USE ConnFacts DEF ConnInv, Conn!TakeConnection, Conn!wireVars, R0, Conn!Request0
<1>1. ConnTypes'
  BY R0IsARequest DEF ConnTypes, ConnPlaces
<1>2. ConnPlaces'
  BY DEF ConnTypes, ConnPlaces
<1>3. WireIsKnown'
  BY DEF ConnTypes, ConnPlaces, WireIsKnown, Conn!Forgotten
<1>4. CallsAreCounted'
  BY DEF ConnTypes, ConnPlaces, WireIsKnown, CallsAreCounted, CurrentCall, CallIsSmooth
<1>5. CurrentCall'
  BY DEF ConnTypes, ConnPlaces, WireIsKnown, CallsAreCounted, CurrentCall, CallIsSmooth, Conn!Forgotten
<1> QED
  BY <1>1, <1>2, <1>3, <1>4, <1>5

LEMMA ConnectAndSendKeepsConn ==
    ASSUME ConnInv, Conn!ConnectAndSend PROVE ConnInv'
<1> USE ConnFacts DEF ConnInv, Conn!ConnectAndSend, Conn!wireVars, R0, Conn!Request0
<1>1. ConnTypes'
  <2>1. R0 \in Conn!Request
    BY R0IsARequest DEF ConnPlaces
  <2>2. /\ connInbox' \in [Sockets -> Conn!Request \cup {Nothing}]
        /\ connAnswers' \in [Sockets -> Seq(Conn!Request)]
    BY <2>1 DEF ConnTypes, Conn!Forgotten
  <2> QED
    BY <2>2 DEF ConnTypes, Conn!Forgotten
<1>2. ConnPlaces'
  BY DEF ConnTypes, ConnPlaces
<1>3. WireIsKnown'
  BY DEF ConnTypes, ConnPlaces, WireIsKnown, Conn!Forgotten
<1>4. CallsAreCounted'
  BY DEF ConnTypes, ConnPlaces, WireIsKnown, CallsAreCounted, CurrentCall, CallIsSmooth
<1>5. CurrentCall'
  BY DEF ConnTypes, ConnPlaces, WireIsKnown, CallsAreCounted, CurrentCall, CallIsSmooth, Conn!Forgotten
<1> QED
  BY <1>1, <1>2, <1>3, <1>4, <1>5

LEMMA SendKeepsConn ==
    ASSUME ConnInv, Conn!Send PROVE ConnInv'
<1> USE ConnFacts DEF ConnInv, Conn!Send, Conn!wireVars, R0, Conn!Request0
<1>1. ConnTypes'
  BY R0IsARequest DEF ConnTypes, ConnPlaces
<1>2. ConnPlaces'
  BY DEF ConnTypes, ConnPlaces
<1>3. WireIsKnown'
  BY DEF ConnTypes, ConnPlaces, WireIsKnown, Conn!Forgotten
<1>4. CallsAreCounted'
  BY DEF ConnTypes, ConnPlaces, WireIsKnown, CallsAreCounted, CurrentCall, CallIsSmooth
<1>5. CurrentCall'
  BY DEF ConnTypes, ConnPlaces, WireIsKnown, CallsAreCounted, CurrentCall, CallIsSmooth, Conn!Forgotten
<1> QED
  BY <1>1, <1>2, <1>3, <1>4, <1>5

LEMMA ConnectFailsKeepsConn ==
    ASSUME ConnInv, Conn!ConnectFails PROVE ConnInv'
<1> USE ConnFacts DEF ConnInv, Conn!ConnectFails, Conn!Fails, Conn!Troubled, Conn!wireVars, R0, Conn!Request0
<1>1. ConnTypes'
  <2>1. connCall \in Conn!Calls /\ connCall <= connCall
    BY DEF ConnTypes, ConnPlaces
  <2>2. \A c \in connTrouble' : c \in Conn!Calls /\ c <= connCall
    BY <2>1 DEF ConnTypes
  <2> QED
    BY <2>2 DEF ConnTypes
<1>2. ConnPlaces'
  BY DEF ConnTypes, ConnPlaces
<1>3. WireIsKnown'
  BY DEF ConnTypes, ConnPlaces, WireIsKnown, Conn!Forgotten
<1>4. CallsAreCounted'
  BY DEF ConnTypes, ConnPlaces, WireIsKnown, CallsAreCounted, CurrentCall, CallIsSmooth
<1>5. CurrentCall'
  BY DEF ConnTypes, ConnPlaces, WireIsKnown, CallsAreCounted, CurrentCall, CallIsSmooth, Conn!Forgotten
<1> QED
  BY <1>1, <1>2, <1>3, <1>4, <1>5

LEMMA ReadBreaksKeepsConn ==
    ASSUME ConnInv, Conn!ReadBreaks PROVE ConnInv'
<1> USE ConnFacts DEF ConnInv, Conn!ReadBreaks, Conn!Fails, Conn!wireVars, R0, Conn!Request0
<1>1. ConnTypes'
  BY R0IsARequest DEF ConnTypes, ConnPlaces
<1>2. ConnPlaces'
  BY DEF ConnTypes, ConnPlaces
<1>3. WireIsKnown'
  BY DEF ConnTypes, ConnPlaces, WireIsKnown, Conn!Forgotten
<1>4. CallsAreCounted'
  BY DEF ConnTypes, ConnPlaces, WireIsKnown, CallsAreCounted, CurrentCall, CallIsSmooth
<1>5. CurrentCall'
  <2>1. connInbox[connUsed] # R0
    BY R0IsARequest DEF ConnTypes, ConnPlaces, WireIsKnown
  <2>2. connCall \in Conn!Calls \ connTrouble => connReused
    BY <2>1 DEF CurrentCall, CallIsSmooth
  <2> QED
    BY <2>2 DEF ConnTypes, ConnPlaces, CurrentCall, CallIsSmooth
<1> QED
  BY <1>1, <1>2, <1>3, <1>4, <1>5

LEMMA ReadTimesOutKeepsConn ==
    ASSUME ConnInv, Conn!ReadTimesOut PROVE ConnInv'
<1> USE ConnFacts DEF ConnInv, Conn!ReadTimesOut, Conn!Fails, Conn!Troubled, Conn!wireVars, R0, Conn!Request0
<1>1. ConnTypes'
  <2>1. connCall \in Conn!Calls /\ connCall <= connCall
    BY DEF ConnTypes, ConnPlaces
  <2>2. \A c \in connTrouble' : c \in Conn!Calls /\ c <= connCall
    BY <2>1 DEF ConnTypes
  <2> QED
    BY <2>2 DEF ConnTypes
<1>2. ConnPlaces'
  BY DEF ConnTypes, ConnPlaces
<1>3. WireIsKnown'
  BY DEF ConnTypes, ConnPlaces, WireIsKnown, Conn!Forgotten
<1>4. CallsAreCounted'
  BY DEF ConnTypes, ConnPlaces, WireIsKnown, CallsAreCounted, CurrentCall, CallIsSmooth
<1>5. CurrentCall'
  BY DEF ConnTypes, ConnPlaces, WireIsKnown, CallsAreCounted, CurrentCall, CallIsSmooth, Conn!Forgotten
<1> QED
  BY <1>1, <1>2, <1>3, <1>4, <1>5

LEMMA ReadKeepsConn ==
    ASSUME ConnInv, Conn!Read PROVE ConnInv'
<1> USE ConnFacts DEF ConnInv, Conn!Read, Conn!wireVars, R0, Conn!Request0
<1>1. ConnTypes'
  <2>1. /\ connUsed \in Sockets /\ connAnswers[connUsed] \in Seq(Conn!Request)
        /\ connAnswers[connUsed] # <<>>
    BY DEF ConnTypes, ConnPlaces
  <2>2. /\ Head(connAnswers[connUsed]) \in Conn!Request
        /\ Tail(connAnswers[connUsed]) \in Seq(Conn!Request)
    BY <2>1
  <2>3. /\ connAnswers' \in [Sockets -> Seq(Conn!Request)]
        /\ connResult' \in [Conn!Calls -> Conn!Request \cup {Conn!None, Conn!Failed}]
    BY <2>1, <2>2 DEF ConnTypes
  <2>4. connAttempt' \in 1..AttemptsPerCall
    BY DEF ConnTypes
  <2> QED
    BY <2>1, <2>3, <2>4 DEF ConnTypes
<1>2. ConnPlaces'
  BY DEF ConnTypes, ConnPlaces
<1>3. WireIsKnown'
  <2>1. connUsed \in Sockets /\ connAnswers[connUsed] = <<R0>> /\ connInbox[connUsed] = Nothing
    BY DEF ConnTypes, ConnPlaces, WireIsKnown
  <2>2. \A s \in Sockets : connAnswers'[s] = <<>>
    BY <2>1 DEF ConnTypes, WireIsKnown
  <2>3. \A s \in Sockets : connInbox[s] # Nothing =>
            s # connUsed /\ s \notin connHeld /\ connInbox[s].call \in connTrouble
    BY <2>1 DEF WireIsKnown
  <2> QED
    BY <2>2, <2>3 DEF WireIsKnown
<1>4. CallsAreCounted'
  BY DEF ConnTypes, ConnPlaces, WireIsKnown, CallsAreCounted, CurrentCall, CallIsSmooth
<1>5. CurrentCall'
  BY DEF ConnTypes, ConnPlaces, WireIsKnown, CallsAreCounted, CurrentCall, CallIsSmooth, Conn!Forgotten
<1> QED
  BY <1>1, <1>2, <1>3, <1>4, <1>5

LEMMA RetryKeepsConn ==
    ASSUME ConnInv, Conn!Retry PROVE ConnInv'
<1> USE ConnFacts DEF ConnInv, Conn!Retry, Conn!wireVars, R0, Conn!Request0
<1>1. ConnTypes'
  BY R0IsARequest DEF ConnTypes, ConnPlaces
<1>2. ConnPlaces'
  BY DEF ConnTypes, ConnPlaces
<1>3. WireIsKnown'
  BY DEF ConnTypes, ConnPlaces, WireIsKnown, Conn!Forgotten
<1>4. CallsAreCounted'
  BY DEF ConnTypes, ConnPlaces, WireIsKnown, CallsAreCounted, CurrentCall, CallIsSmooth
<1>5. CurrentCall'
  BY DEF ConnTypes, ConnPlaces, WireIsKnown, CallsAreCounted, CurrentCall, CallIsSmooth, Conn!Forgotten
<1> QED
  BY <1>1, <1>2, <1>3, <1>4, <1>5

LEMMA GiveUpKeepsConn ==
    ASSUME ConnInv, Conn!GiveUp PROVE ConnInv'
<1> USE ConnFacts DEF ConnInv, Conn!GiveUp, Conn!wireVars, R0, Conn!Request0
<1>1. ConnTypes'
  BY R0IsARequest DEF ConnTypes, ConnPlaces
<1>2. ConnPlaces'
  BY DEF ConnTypes, ConnPlaces
<1>3. WireIsKnown'
  BY DEF ConnTypes, ConnPlaces, WireIsKnown, Conn!Forgotten
<1>4. CallsAreCounted'
  BY DEF ConnTypes, ConnPlaces, WireIsKnown, CallsAreCounted, CurrentCall, CallIsSmooth
<1>5. CurrentCall'
  BY DEF ConnTypes, ConnPlaces, WireIsKnown, CallsAreCounted, CurrentCall, CallIsSmooth, Conn!Forgotten
<1> QED
  BY <1>1, <1>2, <1>3, <1>4, <1>5

LEMMA CloseDriverKeepsConn ==
    ASSUME ConnInv, Conn!CloseDriver PROVE ConnInv'
<1> USE ConnFacts DEF ConnInv, Conn!CloseDriver, Conn!wireVars, R0, Conn!Request0
<1>1. ConnTypes'
  BY R0IsARequest DEF ConnTypes, ConnPlaces
<1>2. ConnPlaces'
  BY DEF ConnTypes, ConnPlaces
<1>3. WireIsKnown'
  BY DEF ConnTypes, ConnPlaces, WireIsKnown, Conn!Forgotten
<1>4. CallsAreCounted'
  BY DEF ConnTypes, ConnPlaces, WireIsKnown, CallsAreCounted, CurrentCall, CallIsSmooth
<1>5. CurrentCall'
  BY DEF ConnTypes, ConnPlaces, WireIsKnown, CallsAreCounted, CurrentCall, CallIsSmooth, Conn!Forgotten
<1> QED
  BY <1>1, <1>2, <1>3, <1>4, <1>5

LEMMA DropKeepsConn ==
    ASSUME ConnInv, NEW s \in Sockets, Conn!Drop(s) PROVE ConnInv'
<1> USE ConnFacts DEF ConnInv, Conn!Drop, Conn!wireVars, R0, Conn!Request0
<1>1. ConnTypes'
  <2>1. connInbox[s].call \in Conn!Calls
    BY DEF ConnTypes, Conn!Request
  <2>2. connInbox[s].call <= connCall
    <3>1. CASE connInbox[s] = Conn!Request0 /\ connStep = "read"
      BY <3>1 DEF ConnTypes, ConnPlaces
    <3>2. CASE connInbox[s].call \in connTrouble
      BY <3>2 DEF ConnTypes
    <3> QED
      BY <3>1, <3>2 DEF WireIsKnown
  <2> QED
    BY <2>1, <2>2 DEF ConnTypes
<1>2. ConnPlaces'
  BY DEF ConnTypes, ConnPlaces
<1>3. WireIsKnown'
  BY DEF ConnTypes, ConnPlaces, WireIsKnown, Conn!Forgotten
<1>4. CallsAreCounted'
  BY DEF ConnTypes, ConnPlaces, WireIsKnown, CallsAreCounted, CurrentCall, CallIsSmooth
<1>5. CurrentCall'
  BY DEF ConnTypes, ConnPlaces, WireIsKnown, CallsAreCounted, CurrentCall, CallIsSmooth, Conn!Forgotten
<1> QED
  BY <1>1, <1>2, <1>3, <1>4, <1>5

LEMMA CloseIdleKeepsConn ==
    ASSUME ConnInv, NEW s \in Sockets, Conn!CloseIdle(s) PROVE ConnInv'
<1> USE ConnFacts DEF ConnInv, Conn!CloseIdle, Conn!wireVars, R0, Conn!Request0
<1>1. ConnTypes'
  BY R0IsARequest DEF ConnTypes, ConnPlaces
<1>2. ConnPlaces'
  BY DEF ConnTypes, ConnPlaces
<1>3. WireIsKnown'
  BY DEF ConnTypes, ConnPlaces, WireIsKnown, Conn!Forgotten
<1>4. CallsAreCounted'
  BY DEF ConnTypes, ConnPlaces, WireIsKnown, CallsAreCounted, CurrentCall, CallIsSmooth
<1>5. CurrentCall'
  BY DEF ConnTypes, ConnPlaces, WireIsKnown, CallsAreCounted, CurrentCall, CallIsSmooth, Conn!Forgotten
<1> QED
  BY <1>1, <1>2, <1>3, <1>4, <1>5

(* A request is executed: the call in progress has its answer, or its       *)
(* connection drops and it is troubled; a request that was given up on      *)
(* belongs to a troubled call.                                              *)
LEMMA ExecuteKeepsConn ==
    ASSUME ConnInv, NEW s \in Sockets, Conn!Execute(s) PROVE ConnInv'
<1> DEFINE r == connInbox[s]
<1> USE ConnFacts DEF ConnInv
<1>1. /\ r # Nothing /\ r \in Conn!Request /\ r.call \in Conn!Calls
      /\ connAnswers[s] = <<>>
  BY DEF Conn!Execute, ConnTypes, WireIsKnown, Conn!Request
<1>2. /\ connInbox' = [connInbox EXCEPT ![s] = Nothing]
      /\ connExecuted' = [connExecuted EXCEPT ![r.call] = @ + 1]
      /\ UNCHANGED <<connStep, connCall, connAttempt, connCached, connUsed, connReused, connHeld,
                     connResult, R0>>
  BY DEF Conn!Execute, R0, Conn!Request0
<1>3. r.call <= connCall
  <2>1. CASE r = R0 /\ connStep = "read"
    BY <2>1, R0IsARequest DEF ConnTypes, ConnPlaces
  <2>2. CASE r.call \in connTrouble
    BY <2>2 DEF ConnTypes
  <2> QED
    BY <1>1, <2>1, <2>2 DEF WireIsKnown
<1>4. connExecuted' \in [Conn!Calls -> Nat] /\ connExecuted'[r.call] = connExecuted[r.call] + 1
  <2>1. connExecuted \in [Conn!Calls -> Nat] /\ connExecuted[r.call] \in Nat
    BY <1>1 DEF ConnTypes
  <2>2. connExecuted[r.call] + 1 \in Nat
    BY <2>1
  <2> HIDE DEF r
  <2> QED
    BY <1>1, <1>2, <2>1, <2>2
<1>5. \A c \in Conn!Calls : c # r.call => connExecuted'[c] = connExecuted[c]
  BY <1>2 DEF ConnTypes
<1>6. ConnPlaces'
  BY <1>2 DEF ConnPlaces
<1>7. CASE /\ s \in connHeld
           /\ connAnswers' = [connAnswers EXCEPT ![s] = Append(@, r)]
           /\ UNCHANGED <<connPeer, connTrouble>>
  <2>1. connStep = "read" /\ s = connUsed /\ r = R0 /\ s \in connPeer
    BY <1>1, <1>7 DEF WireIsKnown
  <2>2. connAnswers' = [connAnswers EXCEPT ![s] = <<R0>>]
    BY <1>1, <1>7, <2>1 DEF ConnTypes
  <2>3. ConnTypes'
    <3>1. connAnswers' \in [Sockets -> Seq(Conn!Request)]
      BY <1>1, <2>1, <2>2 DEF ConnTypes
    <3> QED
      BY <1>2, <1>4, <1>7, <3>1 DEF ConnTypes
  <2>4. WireIsKnown'
    BY <1>1, <1>2, <1>7, <2>1, <2>2 DEF ConnTypes, WireIsKnown
  <2>5. connCall \in Conn!Calls /\ r.call = connCall
    BY <2>1, R0IsARequest DEF ConnPlaces
  <2>6. CallsAreCounted'
    BY <1>2, <1>4, <1>5, <1>7, <2>5 DEF ConnTypes, CallsAreCounted
  <2>7. CurrentCall'
    BY <1>1, <1>2, <1>4, <1>5, <1>7, <2>1, <2>2, <2>5 DEF ConnTypes, CurrentCall, CallIsSmooth
  <2> QED
    BY <1>6, <2>3, <2>4, <2>6, <2>7
<1>8. CASE /\ connPeer' = connPeer \ {s}
           /\ connTrouble' = connTrouble \cup {r.call}
           /\ UNCHANGED connAnswers
  <2>1. ConnTypes'
    BY <1>1, <1>2, <1>3, <1>4, <1>8 DEF ConnTypes
  <2>2. WireIsKnown'
    BY <1>2, <1>8 DEF ConnTypes, WireIsKnown
  <2>3. CallsAreCounted'
    <3> SUFFICES ASSUME NEW c \in Conn!Calls
                 PROVE  /\ c > connCall => connExecuted'[c] = 0 /\ connResult[c] = Conn!None
                        /\ connResult[c] \in Conn!Request =>
                             connResult[c].call = c /\ connExecuted'[c] >= 1
                        /\ c < connCall /\ c \notin connTrouble' =>
                             /\ connResult[c] \in Conn!Request
                             /\ connExecuted'[c] = connResult[c].attempt
      BY <1>2 DEF CallsAreCounted
    <3>1. CASE c = r.call
      <4>1. connExecuted[c] \in Nat /\ connExecuted'[c] = connExecuted[c] + 1
        BY <1>1, <1>4, <3>1 DEF ConnTypes
      <4>2. c \in connTrouble' /\ ~ (c > connCall)
        BY <1>1, <1>3, <1>8, <3>1 DEF ConnTypes
      <4>3. connResult[c] \in Conn!Request => connResult[c].call = c
        BY DEF CallsAreCounted
      <4> HIDE DEF r
      <4> QED
        BY <4>1, <4>2, <4>3
    <3>2. CASE c # r.call
      BY <1>5, <1>8, <3>2 DEF CallsAreCounted
    <3> QED
      BY <3>1, <3>2
  <2>4. CurrentCall'
    <3>1. CASE connCall = r.call
      <4>1. connExecuted[connCall] \in Nat /\ connExecuted'[connCall] = connExecuted[connCall] + 1
        BY <1>1, <1>4, <3>1 DEF ConnTypes
      <4>2. connCall' \in connTrouble' /\ connExecuted'[connCall'] >= 1
        BY <1>2, <1>8, <3>1, <4>1
      <4> QED
        BY <4>2 DEF CurrentCall
    <3>2. CASE connCall # r.call
      <4>1. connCall \in Conn!Calls => connExecuted'[connCall] = connExecuted[connCall]
        BY <1>5, <3>2
      <4>2. connCall \in connTrouble' <=> connCall \in connTrouble
        BY <1>8, <3>2
      <4>3. r # R0
        BY <3>2 DEF R0, Conn!Request0
      <4>4. connUsed = s => connInbox[connUsed] # R0
        BY <4>3
      <4>5. connUsed # s => connInbox'[connUsed] = connInbox[connUsed] \/ connStep # "read"
        BY <1>2 DEF ConnTypes, ConnPlaces
      <4> HIDE DEF r
      <4> QED
        BY <1>2, <1>8, <4>1, <4>2, <4>4, <4>5 DEF CurrentCall, CallIsSmooth
    <3> QED
      BY <3>1, <3>2
  <2> QED
    BY <1>6, <2>1, <2>2, <2>3, <2>4
<1> QED
  BY <1>7, <1>8 DEF Conn!Execute

LEMMA ConnInit == Conn!Init => ConnInv
<1> SUFFICES ASSUME Conn!Init PROVE ConnInv
  OBVIOUS
<1> USE ConnFacts
<1>1. ConnTypes
  <2>1. connCall \in 0..MaxCalls /\ connAttempt \in 1..AttemptsPerCall
    BY DEF Conn!Init
  <2>2. connAnswers \in [Sockets -> Seq(Conn!Request)]
    BY DEF Conn!Init
  <2>3. connExecuted \in [Conn!Calls -> Nat]
    BY DEF Conn!Init
  <2> QED
    BY <2>1, <2>2, <2>3 DEF Conn!Init, ConnTypes
<1>2. ConnPlaces /\ WireIsKnown
  BY DEF Conn!Init, ConnPlaces, WireIsKnown
<1>3. CallsAreCounted /\ CurrentCall
  BY DEF Conn!Init, CallsAreCounted, CurrentCall
<1> QED
  BY <1>1, <1>2, <1>3 DEF ConnInv

LEMMA ConnStutters == ConnInv /\ UNCHANGED connectionVars => ConnInv'
BY DEF connectionVars, ConnInv, ConnTypes, ConnPlaces, WireIsKnown, CallsAreCounted, CurrentCall,
       CallIsSmooth, R0, Conn!Request0

LEMMA ConnStep == ConnInv /\ Conn!Next => ConnInv'
<1> SUFFICES ASSUME ConnInv, Conn!Next PROVE ConnInv'
  OBVIOUS
<1>1. CASE Conn!Done
  BY <1>1, ConnStutters DEF Conn!Done, Conn!connVars, connectionVars
<1>2. ASSUME NEW s \in Sockets, Conn!Execute(s) \/ Conn!Drop(s) \/ Conn!CloseIdle(s)
      PROVE  ConnInv'
  BY <1>2, ExecuteKeepsConn, DropKeepsConn, CloseIdleKeepsConn
<1> QED
  BY <1>1, <1>2, CallKeepsConn, TakeConnectionKeepsConn, ConnectAndSendKeepsConn, SendKeepsConn,
     ConnectFailsKeepsConn, ReadBreaksKeepsConn, ReadTimesOutKeepsConn, ReadKeepsConn,
     RetryKeepsConn, GiveUpKeepsConn, CloseDriverKeepsConn DEF Conn!Next

LEMMA ConnInvGives == ConnInv => ConnectionsAreHonest
<1> SUFFICES ASSUME ConnInv PROVE ConnectionsAreHonest
  OBVIOUS
<1> USE ConnFacts DEF ConnInv
<1>1. Conn!AnswerIsForTheCall
  BY DEF ConnTypes, CallsAreCounted, Conn!AnswerIsForTheCall
<1>2. Conn!StaleIsInvisible
  <2> SUFFICES ASSUME NEW c \in Conn!Calls, c \notin connTrouble
               PROVE  /\ connResult[c] # Conn!Failed
                      /\ c < connCall \/ (c = connCall /\ connStep = "idle") =>
                           connExecuted[c] = connResult[c].attempt
    BY DEF Conn!StaleIsInvisible
  <2>1. CASE c < connCall
    BY <2>1 DEF CallsAreCounted, ConnTypes
  <2>2. CASE c = connCall
    BY <2>2, R0IsARequest DEF CurrentCall, CallIsSmooth
  <2>3. CASE c > connCall
    BY <2>3 DEF CallsAreCounted, ConnTypes
  <2> QED
    BY <2>1, <2>2, <2>3 DEF ConnTypes
<1>3. Conn!NoConnectionLeaks
  BY DEF ConnPlaces, Conn!NoConnectionLeaks
<1> QED
  BY <1>1, <1>2, <1>3 DEF ConnectionsAreHonest, Conn!ConnectionsAreHonest

(* The answer a call returns is its own, also when an earlier attempt gave   *)
(* up on a connection whose answer came later; a connection that the target  *)
(* closed while it was idle is never the reason a call fails or is executed  *)
(* again; and a thread holds one connection, whatever failed (drivers.py,    *)
(* HttpNetworkDriver._one_http_attempt): for any number of sockets, calls    *)
(* and attempts.                                                             *)
THEOREM ConnectionsHonest == MCSpec => []ConnectionsAreHonest
<1>1. MCInit => ConnInv
  BY ConnInit DEF MCInit
<1>2. ConnInv /\ [MCNext]_<<which, vars, connectionVars, tailVars>> => ConnInv'
  BY ConnStep, ConnStutters DEF MCNext, BreakerNext, ConnectionNext, TailNext
<1> QED
  BY <1>1, <1>2, ConnInvGives, PTL DEF MCSpec
=============================================================================
