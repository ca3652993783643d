-------------------------- MODULE ExecutionProofs ---------------------------
(***************************************************************************)
(* Theorems about the interpreter at work (MCExecution), in five parts: a  *)
(* parallel block, for any number of steps, any pool size, retry budget and *)
(* deadline; the step loop of a run, for any program; the runs that share a *)
(* read-through cache, for any number of them; the guards and assignments  *)
(* of any document, for every text the grammar has; the runs that share a  *)
(* store, for any number of them.                                          *)
(***************************************************************************)
EXTENDS MCExecution, Sequences, FiniteSetTheorems, TLAPS

-----------------------------------------------------------------------------
(* Induction and recursion over the naturals.                               *)

(* A set of naturals has a least one.                                       *)
LEMMA LeastExists ==
    ASSUME NEW S, S \subseteq Nat, S # {}
    PROVE  \E i \in S : \A j \in S : i <= j
<1>1. PICK m \in S : \A k \in S : ~(<<k, m>> \in OpToRel(<, Nat))
  BY WFMin, NatLessThanWellFounded, Zenon
<1>2. ASSUME NEW k \in S, k < m PROVE FALSE
  BY <1>1, <1>2 DEF OpToRel
<1> QED
  BY <1>2

(* What holds of 0 and goes from each number to the next holds of all.      *)
LEMMA Induction ==
  ASSUME NEW S, 0 \in S, \A n \in Nat : n \in S => n + 1 \in S
  PROVE  Nat \subseteq S
<1> DEFINE Others == Nat \ S
<1> SUFFICES ASSUME Others # {} PROVE FALSE
  OBVIOUS
<1>1. PICK m \in Others : \A k \in Others : m <= k
  BY LeastExists
<1>2. m - 1 \in Others
  BY m - 1 \in Nat \/ m = 0
<1> HIDE DEF Others
<1> QED
  BY <1>1, <1>2 DEF Others

(* The function that starts at `a` and goes on by `G`.                       *)
Unfolds(f, a, G) == f[0] = a /\ \A n \in Nat : f[n + 1] = G[<<n, f[n]>>]

LEMMA Recursion ==
  ASSUME NEW V, NEW a \in V, NEW G, \A n \in Nat : \A v \in V : G[<<n, v>>] \in V
  PROVE  \E f : f \in [Nat -> V] /\ Unfolds(f, a, G)
<1> DEFINE Starts(n, g) == /\ g \in [0..n -> V] /\ g[0] = a
                           /\ \A i \in 0..(n - 1) : g[i + 1] = G[<<i, g[i]>>]
           Some == {n \in Nat : \E g : Starts(n, g)}
           Same == {n \in Nat : \A m, k \in Nat : \A g, h :
                       Starts(m, g) /\ Starts(k, h) /\ n <= m /\ n <= k => g[n] = h[n]}
           f == [n \in Nat |-> (CHOOSE g : Starts(n, g))[n]]
<1>1. Nat \subseteq Some
  <2>1. 0 \in Some
    <3>1. Starts(0, [i \in 0..0 |-> a])
      OBVIOUS
    <3> QED BY <3>1
  <2>2. ASSUME NEW n \in Nat, n \in Some PROVE n + 1 \in Some
    <3>1. PICK g : Starts(n, g)
      BY <2>2
    <3>2. G[<<n, g[n]>>] \in V
      BY <3>1, n \in 0..n
    <3> DEFINE next == [i \in 0..(n + 1) |-> IF i = n + 1 THEN G[<<n, g[n]>>] ELSE g[i]]
    <3>3. next \in [0..(n + 1) -> V] /\ next[0] = a
      BY <3>1, <3>2
    <3>4. \A i \in 0..((n + 1) - 1) : next[i + 1] = G[<<i, next[i]>>]
      <4> SUFFICES ASSUME NEW i \in 0..((n + 1) - 1) PROVE next[i + 1] = G[<<i, next[i]>>]
        OBVIOUS
      <4>1. CASE i = n
        <5>1. next[n + 1] = G[<<n, g[n]>>] /\ next[n] = g[n]
          BY n # n + 1
        <5> HIDE DEF next
        <5> QED BY <4>1, <5>1
      <4>2. CASE i # n
        <5>1. i \in 0..(n - 1) /\ i + 1 # n + 1 /\ i # n + 1
          BY <4>2
        <5>2. next[i + 1] = g[i + 1] /\ next[i] = g[i]
          BY <5>1
        <5> HIDE DEF next
        <5> QED BY <3>1, <5>1, <5>2
      <4> QED BY <4>1, <4>2
    <3> HIDE DEF next
    <3>5. Starts(n + 1, next)
      BY <3>3, <3>4
    <3> QED BY <3>5
  <2> HIDE DEF Some
  <2> QED BY <2>1, <2>2, Induction
<1>2. Nat \subseteq Same
  <2>1. 0 \in Same
    OBVIOUS
  <2>2. ASSUME NEW n \in Nat, n \in Same PROVE n + 1 \in Same
    <3> SUFFICES ASSUME NEW m \in Nat, NEW k \in Nat, NEW g, NEW h, Starts(m, g), Starts(k, h),
                        n + 1 <= m, n + 1 <= k
                 PROVE  g[n + 1] = h[n + 1]
      OBVIOUS
    <3>1. g[n] = h[n]
      BY <2>2
    <3>2. n \in 0..(m - 1) /\ n \in 0..(k - 1)
      OBVIOUS
    <3> QED BY <3>1, <3>2
  <2> HIDE DEF Same
  <2> QED BY <2>1, <2>2, Induction
<1> HIDE DEF Starts
<1>6. \A n \in Nat : \A g, h : Starts(n, g) /\ Starts(n + 1, h) => g[n] = h[n]
  BY <1>2
<1>3. \A n \in Nat : Starts(n, CHOOSE g : Starts(n, g))
  BY <1>1
<1>4. f \in [Nat -> V] /\ f[0] = a
  <2>1. ASSUME NEW n \in Nat PROVE f[n] \in V
    <3>1. (CHOOSE g : Starts(n, g)) \in [0..n -> V]
      BY <1>3 DEF Starts
    <3> QED BY <3>1
  <2> QED BY <2>1, <1>3 DEF Starts
<1>5. ASSUME NEW n \in Nat PROVE f[n + 1] = G[<<n, f[n]>>]
  <2> DEFINE g == CHOOSE x : Starts(n, x)
             h == CHOOSE x : Starts(n + 1, x)
  <2>1. Starts(n, g) /\ Starts(n + 1, h)
    BY <1>3
  <2>2. f[n] = g[n] /\ f[n + 1] = h[n + 1]
    OBVIOUS
  <2> HIDE DEF g, h
  <2>3. h[n] = g[n]
    BY <1>6, <2>1
  <2>4. h[n + 1] = G[<<n, h[n]>>]
    BY <2>1, n \in 0..((n + 1) - 1) DEF Starts
  <2> QED BY <2>2, <2>3, <2>4
<1> QED
  BY <1>4, <1>5 DEF Unfolds

-----------------------------------------------------------------------------
(* The threads of a parallel block.                                         *)

Shape ==
    /\ main \in {"submit", "wait", "cancel", "done"}
    /\ future \in [Steps -> {"pending", "running", "finished", "raised",
                             "cancelled"}]
    /\ cancelEvent \in BOOLEAN
    /\ pc \in [Steps -> {"idle", "span", "attempt", "run", "call", "failed",
                         "backoff", "report", "left"}]
    /\ error \in [Steps -> {"none", "failure", "deadline"}]
    /\ outcomes \subseteq Steps

(* A thread is in the worker exactly while its future runs.                 *)
ThreadsRun == \A s \in Steps : future[s] = "running" <=> pc[s] \notin {"idle", "left"}

(* The cancel loop has still to visit every future that waits in the queue; *)
(* it runs because a branch has raised, and nothing else cancels.           *)
QueueIsVisited ==
    /\ cancelEvent => /\ \E s \in Steps : future[s] = "raised"
                      /\ \A s \in Steps : future[s] = "pending" => s \in toCancel
    /\ toCancel # {} => cancelEvent
    /\ \A s \in Steps : future[s] = "cancelled" => cancelEvent

(* A future says how the worker that reported left.                         *)
FuturesTell ==
    \A s \in Steps :
      /\ future[s] = "finished" => s \in outcomes /\ error[s] = "none"
      /\ s \in outcomes => \/ future[s] = "finished"
                           \/ future[s] = "raised" /\ error[s] # "none"

Returned ==
    /\ main = "done" => \A s \in Steps : Settled(s)
    /\ result.status = "completed" =>
         /\ main = "done"
         /\ Escaped \/ \A s \in Steps : future[s] = "finished"

BlockInv == Shape /\ ThreadsRun /\ QueueIsVisited /\ FuturesTell /\ Returned

-----------------------------------------------------------------------------
(* A step of a worker that does not leave changes no future.                *)

LEMMA StaysKeeps ==
    ASSUME BlockInv, NEW s \in Steps,
           future[s] = "running",
           NEW label \in {"attempt", "run", "call", "failed", "backoff", "report"},
           Goes(s, label),
           error' \in [Steps -> {"none", "failure", "deadline"}],
           \A t \in Steps \ {s} : error'[t] = error[t],
           UNCHANGED <<caller, future, outcomes>>
    PROVE  BlockInv'
<1>1. Shape'
  BY DEF BlockInv, Shape, Goes, caller
<1>2. ThreadsRun'
  BY DEF BlockInv, Shape, ThreadsRun, Goes
<1>3. QueueIsVisited'
  BY DEF BlockInv, QueueIsVisited, caller
<1>4. FuturesTell'
  BY DEF BlockInv, FuturesTell
<1>5. Returned'
  BY DEF BlockInv, Returned, Settled, Escaped, caller
<1> QED
  BY <1>1, <1>2, <1>3, <1>4, <1>5 DEF BlockInv

(* One that leaves settles its own future.                                  *)
LEMMA LeavesKeeps ==
    ASSUME BlockInv, NEW s \in Steps, NEW raised \in BOOLEAN,
           future[s] = "running",
           Leaves(s, raised),
           UNCHANGED <<caller, error>>,
           \/ outcomes' = outcomes \cup {s} /\ (raised <=> error[s] # "none")
           \/ outcomes' = outcomes /\ raised
    PROVE  BlockInv'
<1>0. /\ pc' = [pc EXCEPT ![s] = "left"]
      /\ future' = [future EXCEPT ![s] = IF raised THEN "raised" ELSE "finished"]
      /\ s \notin outcomes
  BY DEF Leaves, Goes, BlockInv, FuturesTell
<1>1. Shape'
  BY <1>0 DEF BlockInv, Shape, caller
<1>2. ThreadsRun'
  BY <1>0 DEF BlockInv, Shape, ThreadsRun
<1>3. QueueIsVisited'
  BY <1>0 DEF BlockInv, Shape, QueueIsVisited, caller
<1>4. FuturesTell'
  BY <1>0 DEF BlockInv, Shape, FuturesTell
<1>5. Returned'
  BY <1>0 DEF BlockInv, Shape, Returned, Settled, caller
<1> QED
  BY <1>1, <1>2, <1>3, <1>4, <1>5 DEF BlockInv

(* A future leaves the queue for a thread.                                  *)
LEMMA StartKeeps ==
    ASSUME BlockInv, NEW s \in Steps, Start(s)
    PROVE  BlockInv'
<1>0. /\ future[s] = "pending"
      /\ future' = [future EXCEPT ![s] = "running"]
      /\ pc' = [pc EXCEPT ![s] = "span"]
      /\ UNCHANGED <<caller, error, outcomes>>
  BY DEF Start, Goes
<1>1. Shape'
  BY <1>0 DEF BlockInv, Shape, caller
<1>2. ThreadsRun'
  BY <1>0 DEF BlockInv, Shape, ThreadsRun
<1>3. QueueIsVisited'
  BY <1>0 DEF BlockInv, Shape, QueueIsVisited, caller
<1>4. FuturesTell'
  BY <1>0 DEF BlockInv, Shape, FuturesTell
<1>5. Returned'
  BY <1>0 DEF BlockInv, Shape, Returned, Settled, caller
<1> QED
  BY <1>1, <1>2, <1>3, <1>4, <1>5 DEF BlockInv

LEMMA WorkerKeeps ==
    ASSUME BlockInv, NEW s \in Steps, WorkerStep(s)
    PROVE  BlockInv'
<1>0. /\ error \in [Steps -> {"none", "failure", "deadline"}]
      /\ pc[s] \notin {"idle", "left"} => future[s] = "running"
  BY DEF BlockInv, Shape, ThreadsRun
<1>1. CASE Start(s)
  BY <1>1, StartKeeps
<1>2. CASE OpensSpan(s)
  BY <1>0, <1>2, StaysKeeps DEF OpensSpan
<1>3. CASE Attempt(s)
  <2>1. Goes(s, "report") \/ Goes(s, "run")
    BY <1>3 DEF Attempt, Goes
  <2> QED
    BY <1>0, <1>3, <2>1, StaysKeeps DEF Attempt
<1>4. CASE RunStep(s)
  <2>1. /\ error' \in [Steps -> {"none", "failure", "deadline"}]
        /\ \A t \in Steps \ {s} : error'[t] = error[t]
        /\ Goes(s, "failed") \/ Goes(s, "call") \/ Goes(s, "report")
    BY <1>0, <1>4 DEF RunStep, Raises, Succeeds
  <2> QED
    BY <1>0, <1>4, <2>1, StaysKeeps DEF RunStep
<1>5. CASE CallReturns(s)
  <2>1. /\ error' \in [Steps -> {"none", "failure", "deadline"}]
        /\ \A t \in Steps \ {s} : error'[t] = error[t]
        /\ Goes(s, "failed") \/ Goes(s, "report")
    BY <1>0, <1>5 DEF CallReturns, Raises, Succeeds
  <2> QED
    BY <1>0, <1>5, <2>1, StaysKeeps DEF CallReturns
<1>6. CASE Decides(s)
  <2>1. Goes(s, "backoff") \/ Goes(s, "report")
    BY <1>6 DEF Decides, Goes
  <2> QED
    BY <1>0, <1>6, <2>1, StaysKeeps DEF Decides
<1>7. CASE BacksOff(s)
  BY <1>0, <1>7, StaysKeeps DEF BacksOff
<1>8. CASE Reports(s)
  BY <1>0, <1>8, LeavesKeeps DEF Reports
<1>9. CASE Escapes(s)
  BY <1>0, <1>9, LeavesKeeps DEF Escapes
<1> QED
  BY <1>1, <1>2, <1>3, <1>4, <1>5, <1>6, <1>7, <1>8, <1>9 DEF WorkerStep

-----------------------------------------------------------------------------
(* The calling thread.                                                      *)

LEMMA SubmitKeeps ==
    ASSUME BlockInv, Submit PROVE BlockInv'
<1>0. /\ main = "submit" /\ main' \in {"wait", "submit"}
      /\ UNCHANGED <<toCancel, cancelEvent, result, pc, error, future, outcomes>>
  BY DEF Submit, worker
<1> QED
  BY <1>0 DEF BlockInv, Shape, ThreadsRun, QueueIsVisited, FuturesTell, Returned,
              Settled, Escaped

LEMMA WaitReturnsKeeps ==
    ASSUME BlockInv, WaitReturns PROVE BlockInv'
<1>0. /\ main = "wait" /\ main' = "cancel"
      /\ cancelEvent' = \E s \in Steps : future[s] = "raised"
      /\ toCancel' = IF cancelEvent' THEN Pending ELSE {}
      /\ UNCHANGED <<result, pc, error, future, outcomes>>
  BY DEF WaitReturns, worker
<1>1. Shape' /\ ThreadsRun' /\ FuturesTell'
  BY <1>0 DEF BlockInv, Shape, ThreadsRun, FuturesTell
<1>2. QueueIsVisited'
  <2>1. cancelEvent => cancelEvent'
    BY <1>0 DEF BlockInv, QueueIsVisited
  <2>2. \A s \in Steps : future[s] = "pending" => s \in Pending
    BY DEF Pending, Settled
  <2> QED
    BY <1>0, <2>1, <2>2 DEF BlockInv, QueueIsVisited
<1>3. Returned'
  BY <1>0 DEF BlockInv, Returned
<1> QED
  BY <1>1, <1>2, <1>3 DEF BlockInv

LEMMA CancelKeeps ==
    ASSUME BlockInv, NEW s \in Steps, Cancel(s) PROVE BlockInv'
<1>0. /\ s \in toCancel /\ toCancel' = toCancel \ {s} /\ main = "cancel"
      /\ future' = IF future[s] = "pending"
                   THEN [future EXCEPT ![s] = "cancelled"] ELSE future
      /\ UNCHANGED <<main, cancelEvent, result, pc, error, outcomes>>
  BY DEF Cancel, worker
<1>1. cancelEvent
  BY <1>0 DEF BlockInv, QueueIsVisited
<1>2. Shape'
  BY <1>0 DEF BlockInv, Shape
<1>3. ThreadsRun' /\ FuturesTell'
  BY <1>0 DEF BlockInv, Shape, ThreadsRun, FuturesTell
<1>4. QueueIsVisited'
  BY <1>0, <1>1 DEF BlockInv, Shape, QueueIsVisited
<1>5. Returned'
  BY <1>0 DEF BlockInv, Returned
<1> QED
  BY <1>2, <1>3, <1>4, <1>5 DEF BlockInv

(* The pool's exit has waited for every branch; without a failed outcome   *)
(* none has raised, unless an exception escaped, and so none is cancelled.  *)
LEMMA ReturnKeeps ==
    ASSUME BlockInv, Return PROVE BlockInv'
<1>0. /\ \A s \in Steps : Settled(s)
      /\ main' = "done" /\ result' = Verdict
      /\ UNCHANGED <<toCancel, cancelEvent, pc, error, future, outcomes>>
  BY DEF Return, Over, worker
<1>1. Shape' /\ ThreadsRun' /\ FuturesTell' /\ QueueIsVisited'
  BY <1>0 DEF BlockInv, Shape, ThreadsRun, FuturesTell, QueueIsVisited
<1>2. ASSUME Verdict.status = "completed", ~ Escaped
      PROVE  \A s \in Steps : future[s] = "finished"
  <2>1. Failed = {}
    BY <1>2 DEF Verdict
  <2>2. \A s \in Steps : future[s] # "raised"
    BY <1>2, <2>1 DEF Failed, Escaped, BlockInv, FuturesTell
  <2>3. \A s \in Steps : future[s] # "cancelled"
    BY <2>2 DEF BlockInv, QueueIsVisited
  <2> QED
    BY <1>0, <2>2, <2>3 DEF Settled
<1>3. Returned'
  BY <1>0, <1>2 DEF Returned, Settled, Escaped
<1> QED
  BY <1>1, <1>3 DEF BlockInv

-----------------------------------------------------------------------------

LEMMA InitBlockInv ==
    ASSUME Init PROVE BlockInv
BY DEF Init, BlockInv, Shape, ThreadsRun, QueueIsVisited, FuturesTell, Returned

LEMMA NextBlockInv ==
    ASSUME BlockInv, [Next]_vars PROVE BlockInv'
<1>1. CASE MainStep
  BY <1>1, SubmitKeeps, WaitReturnsKeeps, ReturnKeeps, CancelKeeps DEF MainStep
<1>2. ASSUME NEW s \in Steps, WorkerStep(s) PROVE BlockInv'
  BY <1>2, WorkerKeeps
<1>3. CASE UNCHANGED vars
  BY <1>3 DEF vars, caller, worker, BlockInv, Shape, ThreadsRun, QueueIsVisited,
              FuturesTell, Returned, Settled, Escaped
<1> QED
  BY <1>1, <1>2, <1>3 DEF Next, Done

THEOREM BlockInvariant == Spec => []BlockInv
BY InitBlockInv, NextBlockInv, PTL DEF Spec

(* Structured concurrency and fail-fast (_run_parallel_block), for any     *)
(* number of branches and threads: nothing of a block that has returned    *)
(* runs, and nothing of a failing block is left in the queue.               *)
THEOREM NothingIsLeft == Spec => []NothingLeft
<1>1. BlockInv => NothingLeft
  BY DEF BlockInv, QueueIsVisited, Returned, NothingLeft, NoOrphans,
         NothingLeftQueued
<1> QED
  BY <1>1, BlockInvariant, PTL

(* A block that reports completed has run every step to success, as far as *)
(* its branches raise nothing but RunErrors (the `except RunError` of       *)
(* _execute_step_with_retry).                                               *)
THEOREM CompletedMeansAll == Spec => []CompletedRanAll
<1>1. BlockInv => CompletedRanAll
  BY DEF BlockInv, FuturesTell, Returned, CompletedRanAll
<1> QED
  BY <1>1, BlockInvariant, PTL

-----------------------------------------------------------------------------
(* What a block costs.                                                      *)

(* The backoffs of a step exist as numbers, and each adds its own.           *)
LEMMA BlockBackoffs == \A n \in Nat \ {0} : Backoff(n) \in Nat
<1> SUFFICES ASSUME NEW n \in Nat \ {0} PROVE Backoff(n) \in Nat
  OBVIOUS
<1>1. 2^0 = 1 /\ 2^1 = 2 /\ 2^2 = 4 /\ 2^3 = 8
  OBVIOUS
<1>2. CASE n = 1
  BY <1>1, <1>2 DEF Backoff
<1>3. CASE n = 2
  BY <1>1, <1>3 DEF Backoff
<1>4. CASE n = 3
  BY <1>1, <1>4 DEF Backoff
<1>5. CASE n = 4
  BY <1>1, <1>5 DEF Backoff
<1>6. CASE n > 4
  BY <1>6 DEF Backoff
<1> QED
  BY <1>2, <1>3, <1>4, <1>5, <1>6

LEMMA WaitedAdds ==
    /\ Waited[0] = 0 /\ Waited[1] = 0
    /\ \A n \in Nat : Waited[n] \in Nat
    /\ \A n \in Nat \ {0} : Waited[n + 1] = Waited[n] + Backoff(n)
<1> DEFINE G == [x \in Nat \X Nat |-> IF x[1] = 0 THEN 0 ELSE x[2] + Backoff(x[1])]
           Adds(h) == h = [n \in Nat |-> IF n <= 1 THEN 0 ELSE h[n - 1] + Backoff(n - 1)]
<1>1. \A n \in Nat : \A v \in Nat : G[<<n, v>>] \in Nat
  BY BlockBackoffs
<1>2. PICK f : f \in [Nat -> Nat] /\ Unfolds(f, 0, G)
  <2> HIDE DEF G
  <2> QED BY <1>1, Recursion
<1>3. ASSUME NEW n \in Nat
      PROVE f[n] = IF n <= 1 THEN 0 ELSE f[n - 1] + Backoff(n - 1)
  <2>1. CASE n = 0
    BY <1>2, <2>1 DEF Unfolds
  <2>2. CASE n # 0
    <3>1. n - 1 \in Nat /\ (n - 1) + 1 = n
      BY <2>2
    <3>2. f[n] = G[<<n - 1, f[n - 1]>>] /\ f[n - 1] \in Nat
      BY <1>2, <3>1 DEF Unfolds
    <3> QED BY <3>1, <3>2, <2>2
  <2> QED BY <2>1, <2>2
<1>4. Adds(f)
  <2>1. f = [n \in Nat |-> f[n]]
    BY <1>2
  <2> QED BY <1>3, <2>1
<1>5. Adds(Waited)
  <2>1. Waited = CHOOSE h : Adds(h)
    BY DEF Waited
  <2> HIDE DEF Adds
  <2> QED BY <1>4, <2>1
<1>6. Waited[0] = 0 /\ Waited[1] = 0
  BY <1>5
<1>7. ASSUME NEW n \in Nat \ {0} PROVE Waited[n + 1] = Waited[n] + Backoff(n)
  BY <1>5, n + 1 \in Nat, ~(n + 1 <= 1), (n + 1) - 1 = n
<1>8. \A n \in Nat : Waited[n] \in Nat
  <2> DEFINE S == {n \in Nat : Waited[n] \in Nat}
  <2>1. 0 \in S
    BY <1>6
  <2>2. ASSUME NEW n \in Nat, n \in S PROVE n + 1 \in S
    BY <1>6, <1>7, <2>2, BlockBackoffs
  <2> HIDE DEF S
  <2>3. Nat \subseteq S
    BY <2>1, <2>2, Induction
  <2> QED BY <2>3 DEF S
<1> QED
  BY <1>6, <1>7, <1>8

(* A sum over the steps by its partial sums.                                 *)
SumsUp(f, upTo) ==
    /\ upTo \in [0..N -> Nat] /\ upTo[0] = 0
    /\ \A n \in Steps : upTo[n] = upTo[n - 1] + f[n]
    /\ SumOverSteps(f) = upTo[N]

LEMMA BlockFacts ==
    /\ N \in Nat \ {0} /\ Steps = 1..N /\ \A n \in Steps : n - 1 \in 0..N /\ n \in Nat
    /\ Deadline \in Nat \cup {NoDeadline} /\ NoDeadline \notin Nat
BY ParallelAssumption DEF Steps

LEMMA PartialSums ==
    ASSUME NEW f \in [Steps -> Nat] PROVE \E upTo : SumsUp(f, upTo)
<1> DEFINE G == [x \in Nat \X Nat |-> IF x[1] + 1 \in Steps THEN x[2] + f[x[1] + 1] ELSE x[2]]
           Adds(h) == h = [n \in 0..N |-> IF n = 0 THEN 0 ELSE h[n - 1] + f[n]]
<1>1. \A n \in Nat : \A v \in Nat : G[<<n, v>>] \in Nat
  OBVIOUS
<1>2. PICK g : g \in [Nat -> Nat] /\ Unfolds(g, 0, G)
  <2> HIDE DEF G
  <2> QED BY <1>1, Recursion
<1> DEFINE h == [n \in 0..N |-> g[n]]
<1>3. ASSUME NEW n \in 0..N, n # 0 PROVE g[n] = g[n - 1] + f[n]
  <2>1. n - 1 \in Nat /\ (n - 1) + 1 = n /\ n \in Steps
    BY <1>3, BlockFacts
  <2>2. g[n] = G[<<n - 1, g[n - 1]>>] /\ g[n - 1] \in Nat
    BY <1>2, <2>1 DEF Unfolds
  <2> QED BY <2>1, <2>2
<1>4. g[0] = 0
  BY <1>2 DEF Unfolds
<1>5. Adds(h)
  <2>1. ASSUME NEW n \in 0..N PROVE h[n] = IF n = 0 THEN 0 ELSE h[n - 1] + f[n]
    <3>1. CASE n = 0
      BY <1>4, <3>1
    <3>2. CASE n # 0
      BY <1>3, <3>2, BlockFacts, n - 1 \in 0..N
    <3> QED BY <3>1, <3>2
  <2>2. h = [n \in 0..N |-> h[n]]
    OBVIOUS
  <2> HIDE DEF h
  <2> QED BY <2>1, <2>2
<1> DEFINE upTo == CHOOSE k : Adds(k)
<1> HIDE DEF h
<1>6. Adds(upTo)
  BY <1>5
<1>7. SumOverSteps(f) = upTo[N]
  BY DEF SumOverSteps
<1> HIDE DEF upTo
<1>8. upTo[0] = 0 /\ \A n \in Steps : upTo[n] = upTo[n - 1] + f[n]
  BY <1>6, BlockFacts
<1>9. ASSUME NEW n \in 0..N PROVE upTo[n] \in Nat
  <2> DEFINE S == {k \in Nat : k <= N => upTo[k] \in Nat}
  <2>1. 0 \in S
    BY <1>8
  <2>2. ASSUME NEW k \in Nat, k \in S PROVE k + 1 \in S
    <3> SUFFICES ASSUME k + 1 <= N PROVE upTo[k + 1] \in Nat
      OBVIOUS
    <3>1. k + 1 \in Steps /\ upTo[k] \in Nat /\ (k + 1) - 1 = k
      BY <2>2, BlockFacts
    <3> QED BY <1>8, <3>1
  <2> HIDE DEF S
  <2>3. Nat \subseteq S
    BY <2>1, <2>2, Induction
  <2>4. n \in Nat /\ n <= N
    BY BlockFacts
  <2> QED BY <2>3, <2>4 DEF S
<1>10. upTo = [n \in 0..N |-> upTo[n]]
  BY <1>6
<1>11. upTo \in [0..N -> Nat]
  BY <1>9, <1>10
<1> QED
  BY <1>7, <1>8, <1>11 DEF SumsUp

(* A term that grows makes the sum grow by as much, and larger terms make no *)
(* smaller sum: the order of the branches does not matter.                   *)
LEMMA SumGrows ==
    ASSUME NEW f \in [Steps -> Nat], NEW g \in [Steps -> Nat], NEW s \in Steps, NEW c \in Nat,
           \A t \in Steps : g[t] >= f[t], g[s] >= f[s] + c
    PROVE  SumOverSteps(g) >= SumOverSteps(f) + c
<1>1. PICK F : SumsUp(f, F)
  BY PartialSums
<1>2. PICK G : SumsUp(g, G)
  BY PartialSums
<1> DEFINE S == {k \in Nat : k <= N => G[k] >= F[k] + IF s <= k THEN c ELSE 0}
<1>3. 0 \in S
  BY <1>1, <1>2, BlockFacts DEF SumsUp
<1>4. ASSUME NEW k \in Nat, k \in S PROVE k + 1 \in S
  <2> SUFFICES ASSUME k + 1 <= N
               PROVE  G[k + 1] >= F[k + 1] + IF s <= k + 1 THEN c ELSE 0
    OBVIOUS
  <2>1. /\ k + 1 \in Steps /\ (k + 1) - 1 = k /\ k \in 0..N /\ s \in Nat
        /\ G[k] >= F[k] + IF s <= k THEN c ELSE 0
    BY <1>4, BlockFacts
  <2>2. /\ F[k + 1] = F[k] + f[k + 1] /\ G[k + 1] = G[k] + g[k + 1]
        /\ F[k] \in Nat /\ G[k] \in Nat /\ f[k + 1] \in Nat /\ g[k + 1] \in Nat
    BY <1>1, <1>2, <2>1 DEF SumsUp
  <2>3. g[k + 1] >= f[k + 1] /\ (s = k + 1 => g[k + 1] >= f[k + 1] + c)
    BY <2>1
  <2> QED BY <2>1, <2>2, <2>3
<1> HIDE DEF S
<1>5. N \in S
  BY <1>3, <1>4, Induction, BlockFacts
<1>6. G[N] >= F[N] + c
  BY <1>5, BlockFacts DEF S
<1> QED
  BY <1>1, <1>2, <1>6 DEF SumsUp

LEMMA SumIsANumber == ASSUME NEW f \in [Steps -> Nat] PROVE SumOverSteps(f) \in Nat
<1>1. PICK F : SumsUp(f, F)
  BY PartialSums
<1> QED BY <1>1, BlockFacts DEF SumsUp

LEMMA SumAdds ==
    ASSUME NEW f \in [Steps -> Nat], NEW s \in Steps, NEW c \in Nat
    PROVE  SumOverSteps([f EXCEPT ![s] = @ + c]) = SumOverSteps(f) + c
<1> DEFINE g == [f EXCEPT ![s] = @ + c]
<1>1. g \in [Steps -> Nat] /\ g[s] = f[s] + c /\ \A t \in Steps : t # s => g[t] = f[t]
  OBVIOUS
<1> HIDE DEF g
<1>2. PICK F : SumsUp(f, F)
  BY PartialSums
<1>3. PICK G : SumsUp(g, G)
  BY <1>1, PartialSums
<1> DEFINE S == {k \in Nat : k <= N => G[k] = F[k] + IF s <= k THEN c ELSE 0}
<1>4. 0 \in S
  BY <1>2, <1>3, BlockFacts DEF SumsUp
<1>5. ASSUME NEW k \in Nat, k \in S PROVE k + 1 \in S
  <2> SUFFICES ASSUME k + 1 <= N
               PROVE  G[k + 1] = F[k + 1] + IF s <= k + 1 THEN c ELSE 0
    OBVIOUS
  <2>1. /\ k + 1 \in Steps /\ (k + 1) - 1 = k /\ k \in 0..N /\ s \in Nat
        /\ G[k] = F[k] + IF s <= k THEN c ELSE 0
    BY <1>5, BlockFacts
  <2>2. /\ F[k + 1] = F[k] + f[k + 1] /\ G[k + 1] = G[k] + g[k + 1]
        /\ F[k] \in Nat /\ G[k] \in Nat /\ f[k + 1] \in Nat /\ g[k + 1] \in Nat
    BY <1>1, <1>2, <1>3, <2>1 DEF SumsUp
  <2>3. g[k + 1] = f[k + 1] + IF s = k + 1 THEN c ELSE 0
    BY <1>1, <2>1
  <2> QED BY <2>1, <2>2, <2>3
<1> HIDE DEF S
<1>6. N \in S
  BY <1>4, <1>5, Induction, BlockFacts
<1>7. G[N] = F[N] + c
  BY <1>6, BlockFacts DEF S
<1> QED
  BY <1>2, <1>3, <1>7 DEF SumsUp, g

(* What a step has added to the clock: its cost once it has succeeded, and   *)
(* the backoffs before the attempt it is at.                                 *)
Spent(s) ==
    (IF error[s] = "none" /\ (pc[s] = "report" \/ s \in outcomes) THEN StepCost ELSE 0)
      + Waited[IF pc[s] = "attempt" THEN attempts[s] + 1 ELSE attempts[s]]

Account == [s \in Steps |-> Spent(s)]

ClockAddsUp == clock = SumOverSteps(Account)

(* A step that is tried again has failed, and one that met the deadline met  *)
(* it on the clock.                                                          *)
AttemptsTell ==
    /\ attempts \in [Steps -> Nat] /\ clock \in Nat
    /\ \A s \in Steps :
         /\ pc[s] \in {"idle", "span"} => attempts[s] = 0
         /\ pc[s] \in {"run", "call", "failed", "backoff", "report"} => attempts[s] > 0
         /\ pc[s] = "backoff" => error[s] = "failure"
         /\ pc[s] = "attempt" /\ attempts[s] > 0 => error[s] = "failure"
         /\ pc[s] # "left" => s \notin outcomes
         /\ pc[s] = "left" => future[s] # "pending"
         /\ pc[s] = "failed" => error[s] # "none"
         /\ error[s] = "deadline" => Late

VerdictStands ==
    main = "done" =>
      (result.status = "failed" <=>
         \/ Failed # {}
         \/ Deadline # NoDeadline /\ outcomes # {} /\ clock > Deadline)

CostInv == ClockAddsUp /\ AttemptsTell /\ VerdictStands

LEMMA SpentIsANumber ==
    ASSUME AttemptsTell, NEW s \in Steps PROVE Spent(s) \in Nat
<1>1. Waited[IF pc[s] = "attempt" THEN attempts[s] + 1 ELSE attempts[s]] \in Nat
  BY WaitedAdds DEF AttemptsTell
<1> QED
  BY <1>1 DEF Spent, StepCost

(* A step of one worker adds to the clock what it adds to its own account.   *)
LEMMA ClockMoves ==
    ASSUME CostInv, NEW s \in Steps, NEW c \in Nat, clock' = clock + c,
           Spent(s)' = Spent(s) + c,
           \A t \in Steps \ {s} : Spent(t)' = Spent(t)
    PROVE  ClockAddsUp'
<1>1. Account \in [Steps -> Nat]
  BY SpentIsANumber DEF CostInv, Account
<1>2. Account' = [Account EXCEPT ![s] = @ + c]
  BY DEF Account
<1>3. SumOverSteps([Account EXCEPT ![s] = @ + c]) = SumOverSteps(Account) + c
  BY <1>1, SumAdds
<1> QED
  BY <1>2, <1>3 DEF CostInv, ClockAddsUp

(* A block that is over has no worker left to take a step.                   *)
LEMMA QuietWhenDone ==
    ASSUME BlockInv, NEW s \in Steps, WorkerStep(s) PROVE main # "done"
<1> SUFFICES ASSUME main = "done" PROVE FALSE
  OBVIOUS
<1>1. Settled(s) /\ future[s] \notin {"pending", "running"}
  BY DEF BlockInv, Returned, Settled
<1>2. pc[s] \in {"idle", "left"}
  BY <1>1 DEF BlockInv, Shape, ThreadsRun
<1> QED
  BY <1>1, <1>2 DEF WorkerStep, Start, OpensSpan, Attempt, RunStep, CallReturns, Decides,
                    BacksOff, Reports, Escapes

LEMMA WorkerSpends ==
    ASSUME BlockInv, CostInv, NEW s \in Steps, WorkerStep(s)
    PROVE  CostInv'
<1>0. /\ pc \in [Steps -> {"idle", "span", "attempt", "run", "call", "failed",
                         "backoff", "report", "left"}]
      /\ error \in [Steps -> {"none", "failure", "deadline"}]
      /\ attempts \in [Steps -> Nat] /\ clock \in Nat
      /\ pc[s] # "left" => s \notin outcomes
  BY DEF BlockInv, Shape, CostInv, AttemptsTell
<1>1. main # "done" /\ main' = main
  BY QuietWhenDone DEF WorkerStep, Start, OpensSpan, Attempt, RunStep, CallReturns, Decides,
                    BacksOff, Reports, Escapes, caller
<1>2. VerdictStands'
  BY <1>1 DEF VerdictStands
<1>3. \A n \in Nat : Waited[n] \in Nat
  BY WaitedAdds
<1>4. /\ pc[s] \in {"idle", "span"} => attempts[s] = 0
      /\ pc[s] \in {"run", "call", "failed", "backoff", "report"} => attempts[s] > 0
      /\ pc[s] = "backoff" => error[s] = "failure"
      /\ pc[s] = "attempt" /\ attempts[s] > 0 => error[s] = "failure"
      /\ pc[s] = "failed" => error[s] # "none"
      /\ error[s] = "deadline" => Late
      /\ attempts[s] \in Nat
      /\ future \in [Steps -> {"pending", "running", "finished", "raised", "cancelled"}]
  BY <1>0 DEF CostInv, AttemptsTell, BlockInv, Shape
<1> DEFINE OthersWait ==
             \A t \in Steps \ {s} : /\ pc'[t] = pc[t] /\ error'[t] = error[t]
                                    /\ attempts'[t] = attempts[t]
                                    /\ t \in outcomes' <=> t \in outcomes
                                    /\ future'[t] = future[t]
           OwnTells ==
             /\ pc'[s] \in {"idle", "span"} => attempts'[s] = 0
             /\ pc'[s] \in {"run", "call", "failed", "backoff", "report"} => attempts'[s] > 0
             /\ pc'[s] = "backoff" => error'[s] = "failure"
             /\ pc'[s] = "attempt" /\ attempts'[s] > 0 => error'[s] = "failure"
             /\ pc'[s] # "left" => s \notin outcomes'
             /\ pc'[s] = "left" => future'[s] # "pending"
             /\ pc'[s] = "failed" => error'[s] # "none"
             /\ error'[s] = "deadline" => Late
<1>5. ASSUME OthersWait, OwnTells, attempts' \in [Steps -> Nat], NEW c \in Nat,
             clock' = clock + c, Spent(s)' = Spent(s) + c
      PROVE  CostInv'
  <2>1. clock' \in Nat /\ clock' >= clock
    BY <1>0, <1>5
  <2>2. Late => Late'
    BY <1>0, <2>1, BlockFacts DEF Late
  <2>3. AttemptsTell'
    BY <1>5, <2>1, <2>2 DEF AttemptsTell, CostInv
  <2>4. \A t \in Steps \ {s} : Spent(t)' = Spent(t)
    BY <1>5 DEF Spent
  <2>5. ClockAddsUp'
    BY <1>5, <2>4, ClockMoves
  <2> QED BY <1>2, <2>3, <2>5 DEF CostInv
<1>6. ASSUME OthersWait, OwnTells, attempts' \in [Steps -> Nat], clock' = clock,
             Spent(s)' = Spent(s)
      PROVE  CostInv'
  <2>1. clock' = clock + 0 /\ Spent(s)' = Spent(s) + 0
    BY <1>0, <1>6, SpentIsANumber DEF CostInv
  <2> QED BY <1>5, <1>6, <2>1
<1> HIDE DEF OthersWait, OwnTells
<1>10. CASE Start(s)
  <2>1. /\ future[s] = "pending" /\ pc' = [pc EXCEPT ![s] = "span"]
        /\ future' = [future EXCEPT ![s] = "running"]
        /\ UNCHANGED <<attempts, error, outcomes, clock>>
    BY <1>10 DEF Start, Goes
  <2>2. pc[s] = "idle"
    BY <1>0, <2>1 DEF BlockInv, Shape, ThreadsRun, CostInv, AttemptsTell
  <2>3. OthersWait /\ OwnTells
    BY <1>0, <1>4, <2>1, <2>2 DEF OthersWait, OwnTells
  <2>4. Spent(s)' = Spent(s)
    BY <1>0, <2>1, <2>2 DEF Spent
  <2> QED BY <1>0, <1>6, <2>1, <2>3, <2>4
<1>11. CASE OpensSpan(s)
  <2>1. /\ pc[s] = "span" /\ pc' = [pc EXCEPT ![s] = "attempt"]
        /\ UNCHANGED <<attempts, error, outcomes, clock, future>>
    BY <1>11 DEF OpensSpan, Goes
  <2>2. OthersWait /\ OwnTells
    BY <1>0, <1>4, <2>1 DEF OthersWait, OwnTells
  <2>3. Spent(s)' = Spent(s)
    BY <1>0, <1>4, <2>1, WaitedAdds DEF Spent
  <2> QED BY <1>0, <1>6, <2>1, <2>2, <2>3
<1>12. CASE Attempt(s)
  <2>1. /\ pc[s] = "attempt" /\ attempts' = [attempts EXCEPT ![s] = @ + 1]
        /\ pc' = [pc EXCEPT ![s] = IF attempts[s] > 0 /\ cancelEvent THEN "report" ELSE "run"]
        /\ UNCHANGED <<error, outcomes, clock, future>>
    BY <1>12 DEF Attempt, Goes
  <2>2. OthersWait /\ OwnTells
    BY <1>0, <1>4, <2>1 DEF OthersWait, OwnTells
  <2>3. Spent(s)' = Spent(s)
    BY <1>0, <1>4, <2>1 DEF Spent
  <2>4. attempts' \in [Steps -> Nat]
    BY <1>0, <2>1
  <2> QED BY <1>6, <2>1, <2>2, <2>3, <2>4
<1>13. ASSUME pc[s] \in {"run", "call"}, NEW what \in {"failure", "deadline"}, Raises(s, what),
              what = "deadline" => Late, UNCHANGED <<attempts, outcomes, future>>
       PROVE  CostInv'
  <2>1. /\ pc' = [pc EXCEPT ![s] = "failed"] /\ error' = [error EXCEPT ![s] = what]
        /\ clock' = clock
    BY <1>13 DEF Raises, Goes
  <2>2. OthersWait /\ OwnTells
    BY <1>0, <1>4, <1>13, <2>1 DEF OthersWait, OwnTells
  <2>3. Spent(s)' = Spent(s)
    BY <1>0, <1>13, <2>1 DEF Spent
  <2> QED BY <1>0, <1>6, <1>13, <2>1, <2>2, <2>3
<1>14. ASSUME pc[s] \in {"run", "call"}, Succeeds(s), UNCHANGED <<attempts, outcomes, future>>
       PROVE  CostInv'
  <2>1. /\ pc' = [pc EXCEPT ![s] = "report"] /\ error' = [error EXCEPT ![s] = "none"]
        /\ clock' = clock + StepCost
    BY <1>14 DEF Succeeds, Goes
  <2>2. OthersWait /\ OwnTells
    BY <1>0, <1>4, <1>14, <2>1 DEF OthersWait, OwnTells
  <2>3. Spent(s)' = Spent(s) + StepCost
    BY <1>0, <1>3, <1>4, <1>14, <2>1 DEF Spent, StepCost
  <2>4. StepCost \in Nat
    BY DEF StepCost
  <2> QED BY <1>0, <1>5, <1>14, <2>1, <2>2, <2>3, <2>4
<1>15. CASE RunStep(s)
  <2>1. CASE Goes(s, "call") /\ UNCHANGED <<error, clock, attempts, outcomes, future>> /\ pc[s] = "run"
    <3>1. pc' = [pc EXCEPT ![s] = "call"]
      BY <2>1 DEF Goes
    <3>2. OthersWait /\ OwnTells
      BY <1>0, <1>4, <2>1, <3>1 DEF OthersWait, OwnTells
    <3>3. Spent(s)' = Spent(s)
      BY <1>0, <2>1, <3>1 DEF Spent
    <3> QED BY <1>0, <1>6, <2>1, <3>2, <3>3
  <2> QED BY <1>13, <1>14, <1>15, <2>1 DEF RunStep
<1>16. CASE CallReturns(s)
  BY <1>13, <1>14, <1>16 DEF CallReturns
<1>17. CASE Decides(s)
  <2>1. /\ pc[s] = "failed" /\ pc' = [pc EXCEPT ![s] = IF Retryable(s) THEN "backoff" ELSE "report"]
        /\ UNCHANGED <<attempts, error, outcomes, clock, future>>
    BY <1>17 DEF Decides, Goes
  <2>2. Retryable(s) => error[s] = "failure"
    <3>1. Backoff(attempts[s]) \in Nat
      BY <1>4, <2>1, BlockBackoffs
    <3>2. Retryable(s) => ~Late
      BY <1>0, <3>1, BlockFacts DEF Retryable, Late
    <3> QED BY <1>0, <1>4, <2>1, <3>2
  <2>3. OthersWait /\ OwnTells
    BY <1>0, <1>4, <2>1, <2>2 DEF OthersWait, OwnTells
  <2>4. Spent(s)' = Spent(s)
    BY <1>0, <1>4, <2>1 DEF Spent
  <2> QED BY <1>0, <1>6, <2>1, <2>3, <2>4
<1>18. CASE BacksOff(s)
  <2>1. /\ pc[s] = "backoff" /\ pc' = [pc EXCEPT ![s] = "attempt"]
        /\ clock' = clock + Backoff(attempts[s]) /\ UNCHANGED <<attempts, error, outcomes, future>>
    BY <1>18 DEF BacksOff, Goes
  <2>2. OthersWait /\ OwnTells
    BY <1>0, <1>4, <2>1 DEF OthersWait, OwnTells
  <2>3. Backoff(attempts[s]) \in Nat /\ Waited[attempts[s] + 1] = Waited[attempts[s]] + Backoff(attempts[s])
    BY <1>4, <2>1, WaitedAdds, BlockBackoffs
  <2>4. Spent(s)' = Spent(s) + Backoff(attempts[s])
    BY <1>0, <1>3, <1>4, <2>1, <2>3 DEF Spent
  <2> QED BY <1>0, <1>5, <2>1, <2>2, <2>3, <2>4
<1>19. CASE Reports(s)
  <2>1. /\ pc[s] = "report" /\ pc' = [pc EXCEPT ![s] = "left"] /\ outcomes' = outcomes \cup {s}
        /\ future' = [future EXCEPT ![s] = IF error[s] # "none" THEN "raised" ELSE "finished"]
        /\ UNCHANGED <<attempts, error, clock>>
    BY <1>19 DEF Reports, Leaves, Goes
  <2>2. OthersWait /\ OwnTells
    BY <1>0, <1>4, <2>1 DEF OthersWait, OwnTells
  <2>3. Spent(s)' = Spent(s)
    BY <1>0, <2>1 DEF Spent
  <2> QED BY <1>0, <1>6, <2>1, <2>2, <2>3
<1>20. CASE Escapes(s)
  <2>1. /\ pc[s] \in {"run", "call"} /\ pc' = [pc EXCEPT ![s] = "left"]
        /\ future' = [future EXCEPT ![s] = "raised"]
        /\ UNCHANGED <<attempts, error, outcomes, clock>>
    BY <1>20 DEF Escapes, Leaves, Goes
  <2>2. OthersWait /\ OwnTells
    BY <1>0, <1>4, <2>1 DEF OthersWait, OwnTells
  <2>3. Spent(s)' = Spent(s)
    BY <1>0, <2>1 DEF Spent
  <2> QED BY <1>0, <1>6, <2>1, <2>2, <2>3
<1> QED
  BY <1>10, <1>11, <1>12, <1>15, <1>16, <1>17, <1>18, <1>19, <1>20 DEF WorkerStep

LEMMA MainSpends ==
    ASSUME BlockInv, CostInv, MainStep PROVE CostInv'
<1>1. UNCHANGED <<pc, attempts, error, outcomes, clock>>
  BY DEF MainStep, Submit, WaitReturns, Return, Cancel, worker
<1>2. ClockAddsUp'
  BY <1>1 DEF CostInv, ClockAddsUp, Account, Spent
<1>3. \A s \in Steps : future[s] # "pending" => future'[s] # "pending"
  BY DEF MainStep, Submit, WaitReturns, Return, Cancel, BlockInv, Shape
<1>4. AttemptsTell'
  BY <1>1, <1>3 DEF CostInv, AttemptsTell, Late
<1>5. ASSUME Return PROVE VerdictStands'
  <2>1. result' = Verdict /\ Failed' = Failed
    BY <1>1, <1>5 DEF Return, Failed
  <2>2. Verdict.status = "failed" <=>
          \/ Failed # {}
          \/ Deadline # NoDeadline /\ outcomes # {} /\ clock > Deadline
    BY DEF Verdict
  <2> QED BY <1>1, <2>1, <2>2 DEF VerdictStands
<1>6. ASSUME ~Return PROVE VerdictStands'
  <2>1. main' # "done" /\ main # "done"
    BY <1>6 DEF MainStep, Submit, WaitReturns, Cancel
  <2> QED BY <2>1 DEF VerdictStands
<1> QED
  BY <1>2, <1>4, <1>5, <1>6 DEF CostInv

LEMMA CostInit == Init => CostInv
<1> SUFFICES ASSUME Init PROVE CostInv
  OBVIOUS
<1>1. Account = [s \in Steps |-> 0] /\ AttemptsTell /\ VerdictStands
  BY WaitedAdds DEF Init, Account, Spent, AttemptsTell, VerdictStands
<1>2. PICK upTo : SumsUp(Account, upTo)
  BY <1>1, PartialSums
<1> DEFINE S == {n \in Nat : n <= N => upTo[n] = 0}
<1>3. 0 \in S
  BY <1>2 DEF SumsUp
<1>4. ASSUME NEW n \in Nat, n \in S PROVE n + 1 \in S
  <2> SUFFICES ASSUME n + 1 <= N PROVE upTo[n + 1] = 0
    OBVIOUS
  <2>1. n + 1 \in Steps /\ upTo[n] = 0 /\ (n + 1) - 1 = n
    BY <1>4, BlockFacts
  <2> QED BY <1>1, <1>2, <2>1 DEF SumsUp
<1> HIDE DEF S
<1>5. N \in S
  BY <1>3, <1>4, Induction, BlockFacts
<1>6. SumOverSteps(Account) = 0
  BY <1>2, <1>5, BlockFacts DEF S, SumsUp
<1> QED
  BY <1>1, <1>6 DEF CostInv, ClockAddsUp, Init

LEMMA CostNext == ASSUME BlockInv, CostInv, [Next]_vars PROVE CostInv'
<1>1. CASE UNCHANGED vars
  BY <1>1 DEF vars, caller, worker, CostInv, ClockAddsUp, Account, Spent, AttemptsTell, Late,
              VerdictStands, Failed
<1> QED
  BY <1>1, MainSpends, WorkerSpends DEF Next, Done

(* The verdict of a block whose steps all succeed, or meet the deadline, is  *)
(* that of their cost ("the SUM is order-independent").                      *)
LEMMA DeadlineByCost == BlockInv /\ CostInv => DeadlineVerdict
<1> SUFFICES ASSUME BlockInv, CostInv, main = "done", Deadline # NoDeadline, ~Escaped,
                    \A s \in Steps : error[s] # "failure"
             PROVE  result.status = "failed" <=> TotalCost > Deadline
  BY DEF DeadlineVerdict
<1> DEFINE cost == [s \in Steps |-> StepCost + Waited[attempts[s]]]
<1>1. /\ Account \in [Steps -> Nat] /\ cost \in [Steps -> Nat] /\ clock \in Nat
      /\ Deadline \in Nat /\ clock = SumOverSteps(Account) /\ TotalCost = SumOverSteps(cost)
  <2>1. Account \in [Steps -> Nat]
    BY SpentIsANumber DEF CostInv, Account
  <2>2. cost \in [Steps -> Nat]
    BY WaitedAdds DEF CostInv, AttemptsTell, StepCost
  <2>3. TotalCost = SumOverSteps(cost)
    BY DEF TotalCost
  <2> HIDE DEF cost
  <2> QED BY <2>1, <2>2, <2>3, BlockFacts DEF CostInv, ClockAddsUp, AttemptsTell
<1>2. \A s \in Steps : Settled(s) /\ pc[s] \in {"idle", "left"}
  BY DEF BlockInv, Returned, ThreadsRun, Shape, Settled
<1>3. \A s \in Steps :
        Account[s] = (IF error[s] = "none" /\ s \in outcomes THEN StepCost ELSE 0)
                     + Waited[attempts[s]]
  BY <1>2 DEF Account, Spent
<1>4. CASE Failed = {}
  <2>1. \A s \in Steps : s \in outcomes /\ error[s] = "none"
    <3>1. \A s \in Steps : future[s] # "raised"
      BY <1>4 DEF Failed, Escaped, BlockInv, FuturesTell
    <3>2. \A s \in Steps : future[s] # "cancelled"
      BY <3>1 DEF BlockInv, QueueIsVisited
    <3> QED BY <1>2, <3>1, <3>2 DEF Settled, BlockInv, FuturesTell
  <2>2. Account = cost
    <3>1. \A s \in Steps : Account[s] = cost[s]
      BY <1>3, <2>1
    <3> HIDE DEF cost
    <3> QED BY <1>1, <3>1
  <2>3. outcomes # {}
    BY <2>1, BlockFacts, 1 \in Steps
  <2> QED BY <1>1, <1>4, <2>2, <2>3 DEF CostInv, VerdictStands
<1>5. CASE Failed # {}
  <2>1. PICK s \in Steps : s \in outcomes /\ error[s] = "deadline"
    BY <1>5 DEF Failed, BlockInv, Shape
  <2>2. clock >= Deadline
    BY <2>1 DEF CostInv, AttemptsTell, Late
  <2>3. /\ \A t \in Steps : cost[t] >= Account[t]
        /\ cost[s] >= Account[s] + StepCost
    BY <1>3, <2>1, WaitedAdds DEF StepCost, CostInv, AttemptsTell
  <2> HIDE DEF cost
  <2>4. SumOverSteps(cost) >= SumOverSteps(Account) + StepCost
    BY <1>1, <2>3, SumGrows DEF StepCost
  <2>5. TotalCost > Deadline
    BY <1>1, <2>2, <2>4, SumIsANumber DEF StepCost
  <2> QED BY <1>5, <2>5 DEF CostInv, VerdictStands
<1> QED
  BY <1>4, <1>5

-----------------------------------------------------------------------------
(* One run: its step loop.                                                  *)

LoopTypes ==
    /\ at \in 1..(Len(Program) + 1) /\ runAttempts \in Nat /\ runClock \in Nat
    /\ bound \in Nat \cup {Loop!NoRow} /\ tx \in Nat \cup {Loop!NoRow}
    /\ stored \in Nat \cup {Loop!NoRow} /\ found \in Nat \cup {Loop!NoRow}
    /\ made \in [Loop!Steps -> Nat]
    /\ status \in {"running", "failing", "completed", "failed", "escaped"}
    /\ ran \subseteq {s \in Loop!Steps : s < at} /\ again \in BOOLEAN

(* What is not retried is made at most once, and not before its turn.       *)
MadeInTurn ==
    \A s \in Loop!Steps : made[s] <= 1 /\ (status = "running" /\ at <= s => made[s] = 0)

(* The transaction has the sum of the sets that have run, and the bound     *)
(* object is the row, unless a set was retried that had changed the object. *)
TransactionIsOnCourse ==
    status \in {"running", "completed"} /\ ~ again =>
      /\ tx = Loop!Base + Loop!Sets
      /\ bound # Loop!NoRow => bound = tx

StoreWaits == IF status = "completed" THEN stored = tx ELSE stored = found

GoesOnInTime ==
    status \in {"running", "completed"} /\ RunDeadline # NoDeadline => runClock <= RunDeadline

LoopInv ==
    LoopTypes /\ MadeInTurn /\ TransactionIsOnCourse /\ StoreWaits /\ GoesOnInTime

LEMMA LoopFacts ==
    /\ Program \in Seq(Loop!Kinds) /\ Loop!Steps = 1..Len(Program) /\ Len(Program) \in Nat
    /\ \A s \in Loop!Steps : Program[s] \in Loop!Kinds
    /\ RunDeadline \in Nat \cup {NoDeadline} /\ NoDeadline \notin Nat
    /\ Loop!NoRow = -1 /\ Loop!StepCost = 6
BY ExecutionAssumption DEF Loop!RunAssumption, Loop!Steps, Loop!NoRow, Loop!StepCost

LEMMA BackoffIsANumber == \A n \in Nat \ {0} : Loop!Backoff(n) \in Nat
<1> SUFFICES ASSUME NEW n \in Nat \ {0} PROVE Loop!Backoff(n) \in Nat
  OBVIOUS
<1>1. 2^0 = 1 /\ 2^1 = 2 /\ 2^2 = 4 /\ 2^3 = 8
  OBVIOUS
<1>2. CASE n = 1
  BY <1>1, <1>2 DEF Loop!Backoff
<1>3. CASE n = 2
  BY <1>1, <1>3 DEF Loop!Backoff
<1>4. CASE n = 3
  BY <1>1, <1>4 DEF Loop!Backoff
<1>5. CASE n = 4
  BY <1>1, <1>5 DEF Loop!Backoff
<1>6. CASE n > 4
  BY <1>6 DEF Loop!Backoff
<1> QED
  BY <1>2, <1>3, <1>4, <1>5, <1>6

LEMMA SameCardinalityLoop == ASSUME NEW S PROVE Loop!Cardinality(S) = Cardinality(S)
BY DEF Loop!Cardinality, Cardinality

LEMMA SetsAreFinite ==
    ASSUME LoopTypes
    PROVE  /\ IsFiniteSet({s \in ran : Program[s] = "set"})
           /\ Loop!Sets = Cardinality({s \in ran : Program[s] = "set"}) /\ Loop!Sets \in Nat
<1>1. IsFiniteSet(Loop!Steps)
  <2>1. 1 \in Int /\ Len(Program) \in Int
    BY LoopFacts
  <2>2. IsFiniteSet(1..Len(Program))
    BY <2>1, FS_Interval
  <2> QED
    BY <2>2, LoopFacts
<1>2. {s \in ran : Program[s] = "set"} \subseteq Loop!Steps
  BY DEF LoopTypes
<1>3. IsFiniteSet({s \in ran : Program[s] = "set"})
  BY <1>1, <1>2, FS_Subset
<1>4. Loop!Sets = Cardinality({s \in ran : Program[s] = "set"})
  BY SameCardinalityLoop DEF Loop!Sets
<1> QED
  BY <1>3, <1>4, FS_CardinalityType

(* A step that completes is counted once.                                   *)
LEMMA SetsCount ==
    ASSUME LoopTypes, at \in Loop!Steps, ran' = ran \cup {at}
    PROVE  /\ Loop!Sets \in Nat
           /\ Loop!Sets' = Loop!Sets + IF Program[at] = "set" THEN 1 ELSE 0
<1> DEFINE Counted(R) == {s \in R : Program[s] = "set"}
<1>1. IsFiniteSet(Counted(ran))
  BY SetsAreFinite
<1>2. Loop!Sets = Cardinality(Counted(ran)) /\ Loop!Sets' = Cardinality(Counted(ran'))
  BY SameCardinalityLoop DEF Loop!Sets
<1>3. at \notin Counted(ran)
  BY LoopFacts DEF LoopTypes
<1>4. CASE Program[at] = "set"
  <2>1. Counted(ran') = Counted(ran) \cup {at}
    BY <1>4
  <2> HIDE DEF Counted
  <2> QED
    BY <1>1, <1>2, <1>3, <1>4, <2>1, FS_AddElement, FS_CardinalityType
<1>5. CASE Program[at] # "set"
  <2>1. Counted(ran') = Counted(ran)
    BY <1>5
  <2> HIDE DEF Counted
  <2> QED
    BY <1>1, <1>2, <1>5, <2>1, FS_CardinalityType
<1> QED
  BY <1>4, <1>5

(* A transaction without a row has run no set and no create.                *)
LEMMA NoRowNoSets ==
    ASSUME LoopTypes, TransactionIsOnCourse, status = "running", ~ again, tx = Loop!NoRow
    PROVE  Loop!Sets = 0 /\ found = Loop!NoRow /\ \A s \in ran : Program[s] # "create"
<1>1. Loop!Sets \in Nat /\ tx = Loop!Base + Loop!Sets
  BY SetsAreFinite DEF TransactionIsOnCourse
<1>2. CASE \E s \in ran : Program[s] = "create"
  <2>1. Loop!Base = 0
    BY <1>2 DEF Loop!Base
  <2>2. tx >= 0
    BY <1>1, <2>1
  <2> QED
    BY <2>2, LoopFacts
<1>3. CASE ~ \E s \in ran : Program[s] = "create"
  <2>1. Loop!Base = found
    BY <1>3 DEF Loop!Base
  <2>2. found \in Nat \cup {-1} /\ found + Loop!Sets = -1
    BY <1>1, <2>1, LoopFacts DEF LoopTypes
  <2>3. found = -1 /\ Loop!Sets = 0
    BY <1>1, <2>2
  <2> QED
    BY <1>3, <2>3, LoopFacts
<1> QED
  BY <1>2, <1>3

LEMMA StepCompletesKeeps == ASSUME LoopInv, Loop!StepCompletes PROVE LoopInv'
<1> USE LoopFacts DEF LoopInv
<1>0. /\ at \in Loop!Steps /\ at' = at + 1 /\ status = "running" /\ ran' = ran \cup {at}
      /\ runAttempts' = 0 /\ runClock' = runClock + 6 /\ Loop!Effect
      /\ UNCHANGED <<stored, found, again>>
  BY DEF Loop!StepCompletes, Loop!InLoop
<1>1. /\ bound' \in Nat \cup {Loop!NoRow} /\ tx' \in Nat \cup {Loop!NoRow}
  BY <1>0 DEF LoopTypes, Loop!Effect
<1>2. \/ made' = made
      \/ Program[at] \in {"create", "emit", "call"} /\ made' = [made EXCEPT ![at] = @ + 1]
  BY <1>0 DEF Loop!Effect, Loop!Make, Loop!Kind
<1>3. status' \in {"running", "failing"}
  BY DEF Loop!StepCompletes, Loop!AfterStep
<1>4. LoopTypes'
  <2>1. made' \in [Loop!Steps -> Nat]
    BY <1>0, <1>2 DEF LoopTypes
  <2>2. at' \in 1..(Len(Program) + 1) /\ runClock' \in Nat
    BY <1>0 DEF LoopTypes
  <2>3. ran' \subseteq {s \in Loop!Steps : s < at'}
    BY <1>0 DEF LoopTypes
  <2> QED
    BY <1>0, <1>1, <1>3, <2>1, <2>2, <2>3 DEF LoopTypes
<1>5. MadeInTurn'
  <2> SUFFICES ASSUME NEW s \in Loop!Steps
               PROVE  made'[s] <= 1 /\ (at' <= s => made'[s] = 0)
    BY <1>0 DEF MadeInTurn
  <2>1. made[at] = 0
    BY <1>0 DEF MadeInTurn, LoopTypes
  <2>2. CASE s = at
    BY <1>0, <1>2, <2>1, <2>2 DEF LoopTypes
  <2>3. CASE s # at
    <3>1. made'[s] = made[s]
      BY <1>2, <2>3 DEF LoopTypes
    <3> QED
      BY <1>0, <2>3, <3>1 DEF MadeInTurn, LoopTypes
  <2> QED
    BY <2>2, <2>3
<1>6. TransactionIsOnCourse'
  <2> SUFFICES ASSUME ~ again
               PROVE  /\ tx' = Loop!Base' + Loop!Sets'
                      /\ bound' # Loop!NoRow => bound' = tx'
    BY <1>0 DEF TransactionIsOnCourse
  <2>1. /\ tx = Loop!Base + Loop!Sets /\ (bound # Loop!NoRow => bound = tx)
        /\ Loop!Sets \in Nat /\ Loop!Sets' = Loop!Sets + IF Program[at] = "set" THEN 1 ELSE 0
        /\ Loop!Base \in Nat \cup {-1}
    BY <1>0, SetsCount DEF TransactionIsOnCourse, LoopTypes, Loop!Base
  <2>2. CASE Program[at] = "create"
    <3>1. tx = Loop!NoRow /\ tx' = 0 /\ bound' = bound
      BY <1>0, <2>2 DEF Loop!Effect, Loop!Kind
    <3>2. Loop!Sets' = 0 /\ bound = Loop!NoRow
      BY <1>0, <2>1, <2>2, <3>1, NoRowNoSets
    <3>3. Loop!Base' = 0
      BY <1>0, <2>2 DEF Loop!Base
    <3> QED
      BY <3>1, <3>2, <3>3
  <2>3. CASE Program[at] # "create"
    <3>1. Loop!Base' = Loop!Base
      BY <1>0, <2>3 DEF Loop!Base
    <3>2. CASE Program[at] = "set"
      BY <1>0, <2>1, <3>1, <3>2 DEF Loop!Effect, Loop!Kind, LoopTypes
    <3>3. CASE Program[at] # "set"
      BY SMTT(60), <1>0, <2>1, <2>3, <3>1, <3>3 DEF Loop!Effect, Loop!Kind, LoopTypes
    <3> QED
      BY <3>2, <3>3
  <2> QED
    BY <2>2, <2>3
<1>7. StoreWaits'
  BY <1>0, <1>3 DEF StoreWaits
<1>8. GoesOnInTime'
  BY <1>0, <1>4 DEF GoesOnInTime, LoopTypes, Loop!StepCompletes, Loop!AfterStep
<1> QED
  BY <1>4, <1>5, <1>6, <1>7, <1>8

LEMMA StepRaisesKeeps == ASSUME LoopInv, Loop!StepRaises PROVE LoopInv'
<1> USE LoopFacts DEF LoopInv
<1>0. /\ at \in Loop!Steps /\ status = "running" /\ runAttempts' = runAttempts + 1
      /\ UNCHANGED <<at, stored, ran, found>>
      /\ Loop!EffectRaises \/ UNCHANGED <<bound, tx, made>>
  BY DEF Loop!StepRaises, Loop!InLoop
<1> DEFINE now == runClock + IF Loop!Late THEN 0 ELSE Loop!Spent
<1>1. now \in Nat /\ runAttempts' \in Nat \ {0} /\ Loop!Backoff(runAttempts') \in Nat
  BY <1>0, BackoffIsANumber DEF LoopTypes, Loop!Spent
<1>2. /\ bound' \in Nat \cup {Loop!NoRow} /\ tx' \in Nat \cup {Loop!NoRow}
      /\ \/ made' = made
         \/ Program[at] \in {"create", "call"} /\ made' = [made EXCEPT ![at] = @ + 1]
  BY <1>0 DEF LoopTypes, Loop!EffectRaises, Loop!Make, Loop!Kind
<1>3. made' \in [Loop!Steps -> Nat] /\ \A s \in Loop!Steps : made'[s] <= 1
  <2>1. made[at] = 0
    BY <1>0 DEF MadeInTurn, LoopTypes
  <2> QED
    BY <1>0, <1>2, <2>1 DEF LoopTypes, MadeInTurn
<1>4. CASE Loop!Retryable(runAttempts', now)
  <2>1. /\ runClock' = now + Loop!Backoff(runAttempts') /\ status' = status
        /\ again' = (again \/ (Loop!Kind = "set" /\ bound' # bound))
    BY <1>4 DEF Loop!StepRaises
  <2>2. Program[at] \in {"read", "set"} /\ made' = made /\ tx' = tx
    BY <1>0, <1>2, <1>4 DEF Loop!Retryable, Loop!Kind, Loop!Kinds, Loop!EffectRaises
  <2>3. LoopTypes' /\ MadeInTurn' /\ StoreWaits'
    BY <1>0, <1>1, <1>2, <2>1, <2>2 DEF LoopTypes, MadeInTurn, StoreWaits
  <2>4. ~ again' => bound' = bound
    BY <1>0, <2>1, <2>2 DEF Loop!EffectRaises, Loop!Kind
  <2>5. TransactionIsOnCourse'
    BY <1>0, <2>1, <2>2, <2>4 DEF TransactionIsOnCourse, Loop!Base, Loop!Sets
  <2>6. GoesOnInTime'
    <3>1. RunDeadline # NoDeadline => runClock' < RunDeadline
      BY <1>4, <2>1 DEF Loop!Retryable
    <3>2. runClock' \in Nat
      BY <1>1, <2>1
    <3> QED
      BY <3>1, <3>2 DEF GoesOnInTime
  <2> QED
    BY <2>3, <2>5, <2>6
<1>5. CASE ~ Loop!Retryable(runAttempts', now)
  <2>1. runClock' = now /\ status' = "failing" /\ again' = again
    BY <1>5 DEF Loop!StepRaises
  <2> QED
    BY <1>0, <1>1, <1>2, <1>3, <2>1 DEF LoopTypes, MadeInTurn, TransactionIsOnCourse, StoreWaits,
                                        GoesOnInTime
<1> QED
  BY <1>4, <1>5

(* The steps that only pass on: a guard, the end of the run, its undoing.    *)
LEMMA OthersKeepLoop ==
    ASSUME LoopInv,
           \/ Loop!Skip \/ Loop!GuardRaises \/ Loop!RespondRaises
           \/ Loop!Commit \/ Loop!Rollback \/ Loop!Escapes
    PROVE  LoopInv'
<1> USE LoopFacts DEF LoopInv, Loop!Base, Loop!Sets
<1>1. CASE Loop!Skip
  BY <1>1 DEF Loop!Skip, Loop!InLoop, LoopTypes, MadeInTurn, TransactionIsOnCourse, StoreWaits,
              GoesOnInTime
<1>2. CASE Loop!GuardRaises
  BY <1>2 DEF Loop!GuardRaises, Loop!InLoop, LoopTypes, MadeInTurn, TransactionIsOnCourse,
              StoreWaits, GoesOnInTime
<1>3. CASE Loop!RespondRaises
  BY <1>3 DEF Loop!RespondRaises, LoopTypes, MadeInTurn, TransactionIsOnCourse, StoreWaits,
              GoesOnInTime
<1>4. CASE Loop!Commit
  BY <1>4 DEF Loop!Commit, LoopTypes, MadeInTurn, TransactionIsOnCourse, StoreWaits, GoesOnInTime
<1>5. CASE Loop!Rollback
  BY <1>5 DEF Loop!Rollback, LoopTypes, MadeInTurn, TransactionIsOnCourse, StoreWaits, GoesOnInTime
<1>6. CASE Loop!Escapes
  BY <1>6 DEF Loop!Escapes, LoopTypes, MadeInTurn, TransactionIsOnCourse, StoreWaits, GoesOnInTime
<1> QED
  BY <1>1, <1>2, <1>3, <1>4, <1>5, <1>6

LEMMA LoopInit == Loop!Init => LoopInv
<1> SUFFICES ASSUME Loop!Init PROVE LoopInv
  OBVIOUS
<1> USE LoopFacts DEF Loop!Init
<1>1. LoopTypes
  <2>1. at \in 1..(Len(Program) + 1) /\ runAttempts \in Nat /\ runClock \in Nat
    OBVIOUS
  <2>2. made \in [Loop!Steps -> Nat] /\ ran \subseteq {s \in Loop!Steps : s < at}
    OBVIOUS
  <2>3. /\ bound \in Nat \cup {Loop!NoRow} /\ tx \in Nat \cup {Loop!NoRow}
        /\ stored \in Nat \cup {Loop!NoRow} /\ found \in Nat \cup {Loop!NoRow}
    OBVIOUS
  <2>4. status = "running" /\ again \in BOOLEAN
    OBVIOUS
  <2> HIDE LoopFacts DEF Loop!Init
  <2> QED
    BY <2>1, <2>2, <2>3, <2>4 DEF LoopTypes
<1>2. Loop!Sets = 0 /\ Loop!Base = found
  <2>1. {s \in ran : Program[s] = "set"} = {}
    OBVIOUS
  <2> QED
    BY <1>1, <2>1, SetsAreFinite, FS_EmptySet DEF Loop!Base
<1>3. TransactionIsOnCourse
  BY <1>1, <1>2 DEF TransactionIsOnCourse, LoopTypes
<1>4. MadeInTurn /\ StoreWaits /\ GoesOnInTime
  BY DEF MadeInTurn, StoreWaits, GoesOnInTime
<1> QED
  BY <1>1, <1>3, <1>4 DEF LoopInv

LEMMA LoopStutters == LoopInv /\ UNCHANGED loopVars => LoopInv'
BY DEF loopVars, LoopInv, LoopTypes, MadeInTurn, TransactionIsOnCourse, StoreWaits, GoesOnInTime,
       Loop!Base, Loop!Sets

LEMMA LoopStep == LoopInv /\ Loop!Next => LoopInv'
BY StepCompletesKeeps, StepRaisesKeeps, OthersKeepLoop, LoopStutters
   DEF Loop!Next, Loop!Done, Loop!vars, loopVars

LEMMA LoopRuns ==
    ASSUME LoopInv, [MCNext]_allVars PROVE LoopInv'
BY LoopStep, LoopStutters DEF MCNext, BlockNext, LoopNext, CacheNext, ValueNext, StoreNext, allVars

LEMMA LoopInvGives == LoopInv => EffectsApplyOnce /\ Loop!CompletedInTime
<1> SUFFICES ASSUME LoopInv PROVE EffectsApplyOnce /\ Loop!CompletedInTime
  OBVIOUS
<1> USE DEF LoopInv
<1>1. Loop!SetsApplyOnce
  BY DEF TransactionIsOnCourse, StoreWaits, Loop!SetsApplyOnce, Loop!WritesLanded
<1>2. Loop!ExternalEffectsOnce
  BY DEF MadeInTurn, Loop!ExternalEffectsOnce
<1>3. Loop!CompletedInTime
  BY DEF GoesOnInTime, Loop!CompletedInTime
<1> QED
  BY <1>1, <1>2, <1>3 DEF EffectsApplyOnce, Loop!EffectsApplyOnce

(* Whatever fails and is retried (interp.py, _retryable), a run makes no     *)
(* call, emit or create twice, and stores the sum of its assignments or      *)
(* nothing, unless a retried assignment had changed its row object: for any  *)
(* program, guards, retry budget and deadline.                               *)
THEOREM EffectsLandOnce == MCSpec => []EffectsApplyOnce
<1>1. MCInit => LoopInv
  BY LoopInit DEF MCInit
<1> QED
  BY <1>1, LoopRuns, LoopInvGives, PTL DEF MCSpec

(* "deadline exceeded after step": no run that ends past its deadline is     *)
(* reported completed (interp.py, run_workflow), backoffs included.          *)
THEOREM RunsCompleteInTime == MCSpec => []Loop!CompletedInTime
<1>1. MCInit => LoopInv
  BY LoopInit DEF MCInit
<1> QED
  BY <1>1, LoopRuns, LoopInvGives, PTL DEF MCSpec

(* A block is judged by what its steps cost, and completes only when all of   *)
(* them did (_run_parallel_block); no run is reported completed past its     *)
(* deadline: for any steps, pool, retry budget and deadline.                 *)
THEOREM VerdictsStayHonest == MCSpec => []VerdictsAreHonest
<1>1. MCInit => BlockInv /\ CostInv /\ LoopInv
  BY InitBlockInv, CostInit, LoopInit DEF MCInit
<1>2. BlockInv /\ CostInv /\ LoopInv /\ [MCNext]_allVars
        => (BlockInv /\ CostInv /\ LoopInv)'
  <2> SUFFICES ASSUME BlockInv, CostInv, LoopInv,
                      [MCNext]_allVars
               PROVE  (BlockInv /\ CostInv /\ LoopInv)'
    OBVIOUS
  <2>1. [Next]_vars
    BY DEF MCNext, BlockNext, LoopNext, CacheNext, ValueNext, StoreNext, allVars
  <2> QED BY <2>1, NextBlockInv, CostNext, LoopRuns
<1>3. BlockInv /\ CostInv /\ LoopInv => VerdictsAreHonest
  BY DeadlineByCost, LoopInvGives
     DEF VerdictsAreHonest, BlockInv, FuturesTell, Returned, CompletedRanAll
<1> QED
  BY <1>1, <1>2, <1>3, PTL DEF MCSpec

-----------------------------------------------------------------------------
(* The read-through cache.                                                  *)

CacheTypes ==
    /\ row \in Nat /\ rowsMade \in Nat /\ cache \in Nat
    /\ mine \in [Shared!Runs -> Nat] /\ read \in [Shared!Runs -> Nat]
    /\ cachePc \in [Shared!Runs -> {"write", "get", "load", "fill", "end", "invalidate",
                                    "rollback", "discard", "done"}]
    /\ filled \subseteq Shared!Runs \ Updaters /\ committed \subseteq Nat \ {0}
    /\ IF row = 0 THEN committed = {} ELSE row \in committed

(* The store's write lock: one run has an uncommitted row, and it is not    *)
(* over; a creator holds it from its write to its end, and finds no row.    *)
LockIsHeld ==
    /\ \A r, q \in Shared!Runs : mine[r] # 0 /\ mine[q] # 0 => r = q
    /\ \A r \in Shared!Runs :
         mine[r] # 0 => /\ r \in Shared!Writers
                        /\ cachePc[r] \in {"get", "load", "fill", "end", "rollback"}
                        /\ r \in Creators => row = 0
    /\ \A r \in Creators : cachePc[r] \in {"get", "load", "fill", "end"} => mine[r] # 0

(* Where each kind of run can be, and what it puts into the cache: a reader *)
(* a committed row, a creator its own.                                      *)
RunsFill ==
    /\ \A r \in Updaters : cachePc[r] \in {"write", "end", "invalidate", "rollback", "discard", "done"}
    /\ \A r \in Shared!Runs \ Updaters : cachePc[r] # "invalidate"
    /\ \A r \in Readers : cachePc[r] # "write" /\ (cachePc[r] = "fill" => read[r] \in committed)
    /\ \A r \in Creators : /\ cachePc[r] = "fill" => read[r] = mine[r]
                           /\ cachePc[r] = "end" /\ r \in filled => read[r] = mine[r]
    /\ \A r \in filled : cachePc[r] \in {"end", "rollback", "discard", "done"}

(* An uncommitted entry is that of a creator which can still discard it, or *)
(* was given up on.                                                         *)
EntryHasOwner ==
    cache # 0 => \/ cache \in committed
                 \/ \E r \in Creators \cap filled : read[r] = cache /\ cachePc[r] # "done"
                 \/ cache \in abandoned

CacheInv == CacheTypes /\ LockIsHeld /\ RunsFill /\ EntryHasOwner /\ Shared!StaleOnlyByOverlap

LEMMA CacheFacts ==
    /\ Shared!Runs = Readers \cup Updaters \cup Creators
    /\ Shared!Writers = Updaters \cup Creators
    /\ Readers \cap Updaters = {} /\ Readers \cap Creators = {} /\ Updaters \cap Creators = {}
BY ExecutionAssumption DEF Shared!CacheAssumption, Shared!Runs, Shared!Writers

LEMMA WriteKeepsCache ==
    ASSUME CacheInv, NEW r \in Shared!Runs, Shared!Write(r) PROVE CacheInv'
<1> USE CacheFacts DEF CacheInv, Shared!Write, Shared!Goes, Shared!store, Shared!Locked, Shared!Finds
<1>1. CacheTypes'
  BY DEF CacheTypes, LockIsHeld, RunsFill
<1>2. LockIsHeld'
  BY DEF CacheTypes, LockIsHeld, RunsFill
<1>3. RunsFill'
  BY DEF CacheTypes, LockIsHeld, RunsFill
<1>4. EntryHasOwner'
  BY DEF CacheTypes, LockIsHeld, RunsFill, EntryHasOwner
<1>5. Shared!StaleOnlyByOverlap'
  BY DEF CacheTypes, LockIsHeld, RunsFill, Shared!StaleOnlyByOverlap
<1> QED
  BY <1>1, <1>2, <1>3, <1>4, <1>5

LEMMA WriteFailsKeepsCache ==
    ASSUME CacheInv, NEW r \in Shared!Runs, Shared!WriteFails(r) PROVE CacheInv'
<1> USE CacheFacts DEF CacheInv, Shared!WriteFails, Shared!Goes, Shared!store
<1>1. CacheTypes'
  BY DEF CacheTypes, LockIsHeld, RunsFill
<1>2. LockIsHeld'
  BY DEF CacheTypes, LockIsHeld, RunsFill
<1>3. RunsFill'
  BY DEF CacheTypes, LockIsHeld, RunsFill
<1>4. EntryHasOwner'
  BY DEF CacheTypes, LockIsHeld, RunsFill, EntryHasOwner
<1>5. Shared!StaleOnlyByOverlap'
  BY DEF CacheTypes, LockIsHeld, RunsFill, Shared!StaleOnlyByOverlap
<1> QED
  BY <1>1, <1>2, <1>3, <1>4, <1>5

LEMMA GetHitsKeepsCache ==
    ASSUME CacheInv, NEW r \in Shared!Runs, Shared!GetHits(r) PROVE CacheInv'
<1> USE CacheFacts DEF CacheInv, Shared!GetHits, Shared!Goes, Shared!store
<1>1. CacheTypes'
  BY DEF CacheTypes, LockIsHeld, RunsFill
<1>2. LockIsHeld'
  BY DEF CacheTypes, LockIsHeld, RunsFill
<1>3. RunsFill'
  BY DEF CacheTypes, LockIsHeld, RunsFill
<1>4. EntryHasOwner'
  BY DEF CacheTypes, LockIsHeld, RunsFill, EntryHasOwner
<1>5. Shared!StaleOnlyByOverlap'
  BY DEF CacheTypes, LockIsHeld, RunsFill, Shared!StaleOnlyByOverlap
<1> QED
  BY <1>1, <1>2, <1>3, <1>4, <1>5

LEMMA GetMissesKeepsCache ==
    ASSUME CacheInv, NEW r \in Shared!Runs, Shared!GetMisses(r) PROVE CacheInv'
<1> USE CacheFacts DEF CacheInv, Shared!GetMisses, Shared!Goes, Shared!store
<1>1. CacheTypes'
  BY DEF CacheTypes, LockIsHeld, RunsFill
<1>2. LockIsHeld'
  BY DEF CacheTypes, LockIsHeld, RunsFill
<1>3. RunsFill'
  BY DEF CacheTypes, LockIsHeld, RunsFill
<1>4. EntryHasOwner'
  BY DEF CacheTypes, LockIsHeld, RunsFill, EntryHasOwner
<1>5. Shared!StaleOnlyByOverlap'
  BY DEF CacheTypes, LockIsHeld, RunsFill, Shared!StaleOnlyByOverlap
<1> QED
  BY <1>1, <1>2, <1>3, <1>4, <1>5

LEMMA LoadKeepsCache ==
    ASSUME CacheInv, NEW r \in Shared!Runs, Shared!Load(r) PROVE CacheInv'
<1> USE CacheFacts DEF CacheInv, Shared!Load, Shared!Goes, Shared!store, Shared!InView
<1>1. CacheTypes'
  BY DEF CacheTypes, LockIsHeld, RunsFill
<1>2. LockIsHeld'
  BY DEF CacheTypes, LockIsHeld, RunsFill
<1>3. RunsFill'
  BY DEF CacheTypes, LockIsHeld, RunsFill
<1>4. EntryHasOwner'
  BY DEF CacheTypes, LockIsHeld, RunsFill, EntryHasOwner
<1>5. Shared!StaleOnlyByOverlap'
  BY DEF CacheTypes, LockIsHeld, RunsFill, Shared!StaleOnlyByOverlap
<1> QED
  BY <1>1, <1>2, <1>3, <1>4, <1>5

LEMMA FillKeepsCache ==
    ASSUME CacheInv, NEW r \in Shared!Runs, Shared!Fill(r) PROVE CacheInv'
<1> USE CacheFacts DEF CacheInv, Shared!Fill, Shared!Goes, Shared!store, Shared!PutEntry
<1>1. CacheTypes'
  BY DEF CacheTypes, LockIsHeld, RunsFill
<1>2. LockIsHeld'
  BY DEF CacheTypes, LockIsHeld, RunsFill
<1>3. RunsFill'
  BY DEF CacheTypes, LockIsHeld, RunsFill
<1>4. EntryHasOwner'
  BY DEF CacheTypes, LockIsHeld, RunsFill, EntryHasOwner
<1>5. Shared!StaleOnlyByOverlap'
  BY DEF CacheTypes, LockIsHeld, RunsFill, Shared!StaleOnlyByOverlap
<1> QED
  BY <1>1, <1>2, <1>3, <1>4, <1>5

LEMMA FillLostKeepsCache ==
    ASSUME CacheInv, NEW r \in Shared!Runs, Shared!FillLost(r) PROVE CacheInv'
<1> USE CacheFacts DEF CacheInv, Shared!FillLost, Shared!Goes, Shared!store
<1>1. CacheTypes'
  BY DEF CacheTypes, LockIsHeld, RunsFill
<1>2. LockIsHeld'
  BY DEF CacheTypes, LockIsHeld, RunsFill
<1>3. RunsFill'
  BY DEF CacheTypes, LockIsHeld, RunsFill
<1>4. EntryHasOwner'
  BY DEF CacheTypes, LockIsHeld, RunsFill, EntryHasOwner
<1>5. Shared!StaleOnlyByOverlap'
  BY DEF CacheTypes, LockIsHeld, RunsFill, Shared!StaleOnlyByOverlap
<1> QED
  BY <1>1, <1>2, <1>3, <1>4, <1>5

LEMMA CommitKeepsCache ==
    ASSUME CacheInv, NEW r \in Shared!Runs, Shared!Commit(r) PROVE CacheInv'
<1> USE CacheFacts DEF CacheInv
<1>1. /\ row' \in Nat /\ committed \subseteq committed' /\ committed' \subseteq Nat \ {0}
      /\ IF mine[r] = 0 THEN UNCHANGED <<row, committed>>
                        ELSE row' = mine[r] /\ committed' = committed \cup {mine[r]}
      /\ mine' = [mine EXCEPT ![r] = 0]
      /\ cachePc' = [cachePc EXCEPT ![r] = IF r \in Updaters THEN "invalidate" ELSE "done"]
      /\ UNCHANGED <<rowsMade, cache, read, filled, excused, abandoned>>
  <2>1. /\ mine' = [mine EXCEPT ![r] = 0]
        /\ cachePc' = [cachePc EXCEPT ![r] = IF r \in Updaters THEN "invalidate" ELSE "done"]
        /\ UNCHANGED <<rowsMade, cache, read, filled, excused, abandoned>>
        /\ row' = IF mine[r] # 0 THEN mine[r] ELSE row
        /\ committed' = committed \cup ({mine[r]} \ {0})
    BY DEF Shared!Commit, Shared!InView, Shared!Goes
  <2>2. mine[r] \in Nat /\ row \in Nat /\ committed \subseteq Nat \ {0}
    BY DEF CacheTypes
  <2>3. CASE mine[r] = 0
    BY <2>1, <2>2, <2>3
  <2>4. CASE mine[r] # 0
    BY <2>1, <2>2, <2>4
  <2> QED
    BY <2>3, <2>4
<1>2. \A q \in Shared!Runs : q # r => mine'[q] = mine[q] /\ cachePc'[q] = cachePc[q]
  BY <1>1 DEF CacheTypes
<1>3. mine'[r] = 0 /\ cachePc'[r] = IF r \in Updaters THEN "invalidate" ELSE "done"
  BY <1>1 DEF CacheTypes
<1>4. cachePc[r] = "end"
  BY DEF Shared!Commit
<1>5. CacheTypes'
  BY <1>1 DEF CacheTypes
<1>6. LockIsHeld'
  BY <1>1, <1>2, <1>3 DEF LockIsHeld
<1>7. RunsFill'
  BY <1>1, <1>2, <1>3 DEF CacheTypes, RunsFill
<1>8. EntryHasOwner'
  BY <1>1, <1>2, <1>3, <1>4 DEF CacheTypes, LockIsHeld, RunsFill, EntryHasOwner
<1>9. Shared!StaleOnlyByOverlap'
  <2>1. CASE r \in Updaters
    BY <1>3, <2>1 DEF Shared!StaleOnlyByOverlap
  <2>2. CASE r \notin Updaters
    <3>1. CASE mine[r] = 0
      BY <1>1, <1>2, <1>4, <2>2, <3>1 DEF RunsFill, Shared!StaleOnlyByOverlap
    <3>2. CASE mine[r] # 0
      BY <1>1, <2>2, <3>2 DEF CacheTypes, LockIsHeld, Shared!StaleOnlyByOverlap
    <3> QED
      BY <3>1, <3>2
  <2> QED
    BY <2>1, <2>2
<1> QED
  BY <1>5, <1>6, <1>7, <1>8, <1>9

LEMMA InvalidateKeepsCache ==
    ASSUME CacheInv, NEW r \in Shared!Runs, Shared!Invalidate(r) PROVE CacheInv'
<1> USE CacheFacts DEF CacheInv, Shared!Invalidate, Shared!Goes, Shared!store, Shared!DropEntry
<1>1. CacheTypes'
  BY DEF CacheTypes, LockIsHeld, RunsFill
<1>2. LockIsHeld'
  BY DEF CacheTypes, LockIsHeld, RunsFill
<1>3. RunsFill'
  BY DEF CacheTypes, LockIsHeld, RunsFill
<1>4. EntryHasOwner'
  BY DEF CacheTypes, LockIsHeld, RunsFill, EntryHasOwner
<1>5. Shared!StaleOnlyByOverlap'
  BY DEF CacheTypes, LockIsHeld, RunsFill, Shared!StaleOnlyByOverlap
<1> QED
  BY <1>1, <1>2, <1>3, <1>4, <1>5

LEMMA InvalidateLostKeepsCache ==
    ASSUME CacheInv, NEW r \in Shared!Runs, Shared!InvalidateLost(r) PROVE CacheInv'
<1> USE CacheFacts DEF CacheInv, Shared!InvalidateLost, Shared!Goes, Shared!store
<1>1. CacheTypes'
  BY DEF CacheTypes, LockIsHeld, RunsFill
<1>2. LockIsHeld'
  BY DEF CacheTypes, LockIsHeld, RunsFill
<1>3. RunsFill'
  BY DEF CacheTypes, LockIsHeld, RunsFill
<1>4. EntryHasOwner'
  BY DEF CacheTypes, LockIsHeld, RunsFill, EntryHasOwner
<1>5. Shared!StaleOnlyByOverlap'
  BY DEF CacheTypes, LockIsHeld, RunsFill, Shared!StaleOnlyByOverlap
<1> QED
  BY <1>1, <1>2, <1>3, <1>4, <1>5

LEMMA CommitRaisesKeepsCache ==
    ASSUME CacheInv, NEW r \in Shared!Runs, Shared!CommitRaises(r) PROVE CacheInv'
<1> USE CacheFacts DEF CacheInv, Shared!CommitRaises, Shared!Goes, Shared!store
<1>1. CacheTypes'
  BY DEF CacheTypes, LockIsHeld, RunsFill
<1>2. LockIsHeld'
  BY DEF CacheTypes, LockIsHeld, RunsFill
<1>3. RunsFill'
  BY DEF CacheTypes, LockIsHeld, RunsFill
<1>4. EntryHasOwner'
  BY DEF CacheTypes, LockIsHeld, RunsFill, EntryHasOwner
<1>5. Shared!StaleOnlyByOverlap'
  BY DEF CacheTypes, LockIsHeld, RunsFill, Shared!StaleOnlyByOverlap
<1> QED
  BY <1>1, <1>2, <1>3, <1>4, <1>5

LEMMA StepFailsKeepsCache ==
    ASSUME CacheInv, NEW r \in Shared!Runs, Shared!StepFails(r) PROVE CacheInv'
<1> USE CacheFacts DEF CacheInv, Shared!StepFails, Shared!Goes, Shared!store
<1>1. CacheTypes'
  BY DEF CacheTypes, LockIsHeld, RunsFill
<1>2. LockIsHeld'
  BY DEF CacheTypes, LockIsHeld, RunsFill
<1>3. RunsFill'
  BY DEF CacheTypes, LockIsHeld, RunsFill
<1>4. EntryHasOwner'
  BY DEF CacheTypes, LockIsHeld, RunsFill, EntryHasOwner
<1>5. Shared!StaleOnlyByOverlap'
  BY DEF CacheTypes, LockIsHeld, RunsFill, Shared!StaleOnlyByOverlap
<1> QED
  BY <1>1, <1>2, <1>3, <1>4, <1>5

LEMMA RollbackKeepsCache ==
    ASSUME CacheInv, NEW r \in Shared!Runs, Shared!Rollback(r) PROVE CacheInv'
<1> USE CacheFacts DEF CacheInv, Shared!Rollback, Shared!Goes, Shared!store
<1>1. CacheTypes'
  BY DEF CacheTypes, LockIsHeld, RunsFill
<1>2. LockIsHeld'
  BY DEF CacheTypes, LockIsHeld, RunsFill
<1>3. RunsFill'
  BY DEF CacheTypes, LockIsHeld, RunsFill
<1>4. EntryHasOwner'
  BY DEF CacheTypes, LockIsHeld, RunsFill, EntryHasOwner
<1>5. Shared!StaleOnlyByOverlap'
  BY DEF CacheTypes, LockIsHeld, RunsFill, Shared!StaleOnlyByOverlap
<1> QED
  BY <1>1, <1>2, <1>3, <1>4, <1>5

LEMMA DiscardKeepsCache ==
    ASSUME CacheInv, NEW r \in Shared!Runs, Shared!Discard(r) PROVE CacheInv'
<1> USE CacheFacts DEF CacheInv, Shared!Discard, Shared!Goes, Shared!store, Shared!DropEntry
<1>1. CacheTypes'
  BY DEF CacheTypes, LockIsHeld, RunsFill
<1>2. LockIsHeld'
  BY DEF CacheTypes, LockIsHeld, RunsFill
<1>3. RunsFill'
  BY DEF CacheTypes, LockIsHeld, RunsFill
<1>4. EntryHasOwner'
  BY DEF CacheTypes, LockIsHeld, RunsFill, EntryHasOwner
<1>5. Shared!StaleOnlyByOverlap'
  BY DEF CacheTypes, LockIsHeld, RunsFill, Shared!StaleOnlyByOverlap
<1> QED
  BY <1>1, <1>2, <1>3, <1>4, <1>5

LEMMA DiscardLostKeepsCache ==
    ASSUME CacheInv, NEW r \in Shared!Runs, Shared!DiscardLost(r) PROVE CacheInv'
<1> USE CacheFacts DEF CacheInv, Shared!DiscardLost, Shared!Goes, Shared!store
<1>1. CacheTypes'
  BY DEF CacheTypes, LockIsHeld, RunsFill
<1>2. LockIsHeld'
  BY DEF CacheTypes, LockIsHeld, RunsFill
<1>3. RunsFill'
  BY DEF CacheTypes, LockIsHeld, RunsFill
<1>4. EntryHasOwner'
  BY DEF CacheTypes, LockIsHeld, RunsFill, EntryHasOwner
<1>5. Shared!StaleOnlyByOverlap'
  BY DEF CacheTypes, LockIsHeld, RunsFill, Shared!StaleOnlyByOverlap
<1> QED
  BY <1>1, <1>2, <1>3, <1>4, <1>5

LEMMA ExpireKeepsCache == ASSUME CacheInv, Shared!Expire PROVE CacheInv'
BY DEF CacheInv, Shared!Expire, Shared!DropEntry, Shared!store, CacheTypes, LockIsHeld, RunsFill,
       EntryHasOwner, Shared!StaleOnlyByOverlap

LEMMA CacheInit == Shared!Init => CacheInv
BY CacheFacts DEF Shared!Init, CacheInv, CacheTypes, LockIsHeld, RunsFill, EntryHasOwner,
                  Shared!StaleOnlyByOverlap

LEMMA CacheStutters == CacheInv /\ UNCHANGED cacheVars => CacheInv'
BY DEF cacheVars, CacheInv, CacheTypes, LockIsHeld, RunsFill, EntryHasOwner,
       Shared!StaleOnlyByOverlap

LEMMA CacheStep == CacheInv /\ Shared!Next => CacheInv'
<1> SUFFICES ASSUME CacheInv, Shared!Next PROVE CacheInv'
  OBVIOUS
<1>1. CASE Shared!Done
  BY <1>1, CacheStutters DEF Shared!Done, Shared!vars, Shared!store, cacheVars
<1>2. ASSUME NEW r \in Shared!Runs, Shared!RunStep(r) PROVE CacheInv'
  BY <1>2, WriteKeepsCache, WriteFailsKeepsCache, GetHitsKeepsCache, GetMissesKeepsCache,
     LoadKeepsCache, FillKeepsCache, FillLostKeepsCache, CommitKeepsCache, InvalidateKeepsCache,
     InvalidateLostKeepsCache, CommitRaisesKeepsCache, StepFailsKeepsCache, RollbackKeepsCache,
     DiscardKeepsCache, DiscardLostKeepsCache DEF Shared!RunStep
<1> QED
  BY <1>1, <1>2, ExpireKeepsCache DEF Shared!Next

LEMMA CacheInvGives == CacheInv => CacheIsHonest
BY DEF CacheInv, EntryHasOwner, CacheIsHonest, Shared!CacheIsHonest, Shared!RolledBackLeavesNothing

(* A cached read finds a committed row that is no older than the store's but *)
(* for an overlap or an outage, and a row that was rolled back only until    *)
(* its run has discarded it or could not (interp.py,                         *)
(* _invalidate_written_after_commit, _discard_read_through_writes): for any  *)
(* number of readers, updaters and creators.                                 *)
THEOREM CachedReadsAreHonest == MCSpec => []CacheIsHonest
<1>1. MCInit => CacheInv
  BY CacheInit DEF MCInit
<1>2. CacheInv /\ [MCNext]_allVars => CacheInv'
  BY CacheStep, CacheStutters DEF MCNext, BlockNext, LoopNext, CacheNext, ValueNext, StoreNext, allVars
<1> QED
  BY <1>1, <1>2, CacheInvGives, PTL DEF MCSpec

-----------------------------------------------------------------------------
(* Guards, as mode A decides them and as mode B compiles them.              *)

LEMMA ValueFacts ==
    /\ MinInt \in Int /\ MaxInt \in Int /\ MinInt < 0 /\ MaxInt > 0
    /\ Texts \subseteq Evaluating!Grammar
    /\ \A name \in Evaluating!Names : ValuesOf[name] \subseteq Evaluating!AllValues
BY ExecutionAssumption DEF Evaluating!ValuesAssumption

(* An operand as mode A reads it, and as mode B carries it.                 *)
ReadOperand(o, h) ==
    IF o.kind = "lit" THEN Evaluating!V("int", o.n, "") ELSE Evaluating!Read(h[o.name])
CarriedOperand(o, h) == IF o.kind = "lit" THEN o.n ELSE Evaluating!Channel(h[o.name])

(* Every one of these names holds what the i64 channel carries.             *)
AllCarried(h, names) ==
    \A name \in names : h[name] \in Evaluating!AllValues /\ Evaluating!Carried(h[name])

(* What mode A evaluated is a fault, or the number n.                       *)
ComesTo(v, n) == v.is = "fault" \/ (v.is = "int" /\ v.n = n)

LEMMA EvalIs ==
    ASSUME NEW v, NEW h
    PROVE  Evaluating!Eval(v, h) =
             IF v.kind = "arith"
             THEN Evaluating!Applied(v.op, ReadOperand(v.left, h), ReadOperand(v.right, h))
             ELSE ReadOperand(v, h)
BY Zenon DEF Evaluating!Eval, ReadOperand

LEMMA CompiledIs ==
    ASSUME NEW v, NEW h
    PROVE  Evaluating!CompiledValue(v, h) =
             LET a == CarriedOperand(v.left, h)
                 b == CarriedOperand(v.right, h)
             IN  IF v.kind # "arith" THEN CarriedOperand(v, h)
                 ELSE Evaluating!Wrapped(CASE v.op = "+" -> a + b [] v.op = "-" -> a - b
                                           [] v.op = "*" -> a * b
                                           [] v.op = "/" -> Evaluating!Divides(a, b))
BY DEF Evaluating!CompiledValue, CarriedOperand

LEMMA WrappedInRange ==
    ASSUME NEW n \in MinInt..MaxInt
    PROVE  Evaluating!Wrapped(n) = n
<1> DEFINE w == MaxInt - MinInt + 1
           x == n - MinInt
<1>1. w \in Int /\ x \in Int /\ 0 <= x /\ x < w /\ w > 0
  BY ValueFacts
<1>2. x % w = x
  <2> HIDE DEF w, x
  <2>1. x \div w \in Int /\ x % w \in 0..(w - 1) /\ x = w * (x \div w) + (x % w)
    BY <1>1
  <2> QED
    BY <1>1, <2>1
<1> QED
  BY <1>1, <1>2, ValueFacts DEF Evaluating!Wrapped

LEMMA VIs ==
    \A is, n, tag : /\ Evaluating!V(is, n, tag).is = is /\ Evaluating!V(is, n, tag).n = n
                    /\ Evaluating!V(is, n, tag).tag = tag
BY DEF Evaluating!V

LEMMA FaultIs == \A why : Evaluating!Fault(why).is = "fault" /\ Evaluating!Fault(why).tag = why
BY VIs DEF Evaluating!Fault

LEMMA VerdictIs ==
    \A b \in BOOLEAN :
       Evaluating!Verdict(b).is = "verdict" /\ (Evaluating!Verdict(b).n = 1 <=> b)
<1>1. ASSUME NEW b \in BOOLEAN
      PROVE  Evaluating!Verdict(b).is = "verdict" /\ Evaluating!Verdict(b).n = IF b THEN 1 ELSE 0
  <2>1. \E tag : Evaluating!Verdict(b) = Evaluating!V("verdict", IF b THEN 1 ELSE 0, tag)
    BY Zenon DEF Evaluating!Verdict
  <2> QED
    BY <2>1, VIs
<1> QED
  BY <1>1

LEMMA CheckedComesTo ==
    \A n, tag : \/ Evaluating!Checked("int", n, tag).is = "fault"
                \/ /\ Evaluating!Checked("int", n, tag).is = "int"
                   /\ Evaluating!Checked("int", n, tag).n = n
                   /\ n \in MinInt..MaxInt
<1> SUFFICES ASSUME NEW n, NEW tag
             PROVE  \/ Evaluating!Checked("int", n, tag).is = "fault"
                    \/ /\ Evaluating!Checked("int", n, tag).is = "int"
                       /\ Evaluating!Checked("int", n, tag).n = n
                       /\ n \in MinInt..MaxInt
  OBVIOUS
<1>1. CASE n \in MinInt..MaxInt
  <2>1. Evaluating!Checked("int", n, tag) = Evaluating!V("int", n, tag)
    BY <1>1, Zenon DEF Evaluating!Checked
  <2> QED
    BY <1>1, <2>1, VIs
<1>2. CASE n \notin MinInt..MaxInt
  <2>1. Evaluating!Checked("int", n, tag) = Evaluating!Fault("range")
    BY <1>2, Zenon DEF Evaluating!Checked
  <2> QED
    BY <2>1, FaultIs, Zenon
<1> QED
  BY <1>1, <1>2

LEMMA ReadIs ==
    ASSUME NEW v, v.is \in {"int", "bool", "instant"}
    PROVE  \E tag : Evaluating!Read(v) = Evaluating!Checked("int", v.n, tag)
<1>1. Evaluating!Read(v) = Evaluating!Checked("int", v.n, "")
  BY Zenon DEF Evaluating!Read
<1> QED
  BY <1>1, Zenon

LEMMA OperandAgrees ==
    ASSUME NEW o \in Evaluating!Operands, NEW h,
           o.kind = "ref" => h[o.name] \in Evaluating!AllValues /\ Evaluating!Carried(h[o.name])
    PROVE  CarriedOperand(o, h) \in Int /\ ComesTo(ReadOperand(o, h), CarriedOperand(o, h))
<1>1. CASE o.kind = "lit"
  <2>1. (\E tag : ReadOperand(o, h) = Evaluating!V("int", o.n, tag)) /\ CarriedOperand(o, h) = o.n
    BY <1>1, Zenon DEF ReadOperand, CarriedOperand
  <2>2. ReadOperand(o, h).is = "int" /\ ReadOperand(o, h).n = o.n
    BY <2>1, VIs
  <2>3. o.n \in Int
    BY <1>1 DEF Evaluating!Operands
  <2> QED
    BY <2>1, <2>2, <2>3, Zenon DEF ComesTo
<1>2. CASE o.kind = "ref"
  <2> DEFINE v == h[o.name]
  <2>1. v.is \in {"int", "bool", "instant"} /\ v.n \in Int
    BY <1>2 DEF Evaluating!Carried, Evaluating!AllValues
  <2>2. ReadOperand(o, h) = Evaluating!Read(v)
    BY <1>2, "lit" # "ref", Zenon DEF ReadOperand
  <2>3. CarriedOperand(o, h) = v.n
    BY <1>2 DEF CarriedOperand, Evaluating!Channel
  <2> QED
    BY <2>1, <2>2, <2>3, CheckedComesTo, ReadIs DEF ComesTo
<1> QED
  BY <1>1, <1>2 DEF Evaluating!Operands

(* The tag of a number.                                                     *)
NoTag == ""

LEMMA AppliedIs ==
    ASSUME NEW op \in {"+", "-", "*", "/"}, NEW a, NEW b, a.is = "int", b.is = "int"
    PROVE  LET r == Evaluating!Applied(op, a, b)
           IN  /\ op = "+" => r = Evaluating!Checked("int", a.n + b.n, NoTag)
               /\ op = "-" => r = Evaluating!Checked("int", a.n - b.n, NoTag)
               /\ op = "*" => r = Evaluating!Checked("int", a.n * b.n, NoTag)
               /\ op = "/" => r = IF b.n = 0 THEN Evaluating!Fault("division")
                                  ELSE Evaluating!Checked("int", Evaluating!Truncated(a.n, b.n),
                                                          NoTag)
<1>1. Evaluating!Applied(op, a, b) =
        IF op = "/" /\ b.n = 0 THEN Evaluating!Fault("division")
        ELSE Evaluating!Checked("int", CASE op = "+" -> a.n + b.n [] op = "-" -> a.n - b.n
                                         [] op = "*" -> a.n * b.n
                                         [] op = "/" -> Evaluating!Truncated(a.n, b.n), NoTag)
  BY DEF Evaluating!Applied, NoTag
<1> QED
  BY <1>1

LEMMA AppliedFaults ==
    ASSUME NEW op, NEW a, NEW b, a.is = "fault" \/ b.is = "fault"
    PROVE  Evaluating!Applied(op, a, b).is = "fault"
<1>1. Evaluating!Applied(op, a, b) = IF a.is = "fault" THEN a ELSE b
  BY Zenon DEF Evaluating!Applied
<1> QED
  BY <1>1

LEMMA ExpressionAgrees ==
    ASSUME NEW v \in Evaluating!Expressions, NEW h, AllCarried(h, Evaluating!RefsOf(v))
    PROVE  /\ Evaluating!CompiledValue(v, h) \in Int
              \/ Evaluating!Eval(v, h).is = "fault"
           /\ ComesTo(Evaluating!Eval(v, h), Evaluating!CompiledValue(v, h))
<1>1. CASE v.kind # "arith"
  <2>1. v \in Evaluating!Operands
    BY <1>1 DEF Evaluating!Expressions
  <2>2. v.kind = "ref" => v.name \in Evaluating!RefsOf(v)
    BY DEF Evaluating!RefsOf
  <2>3. Evaluating!Eval(v, h) = ReadOperand(v, h)
    BY <1>1, EvalIs
  <2>4. Evaluating!CompiledValue(v, h) = CarriedOperand(v, h)
    BY <1>1, CompiledIs
  <2> QED
    BY <2>1, <2>2, <2>3, <2>4, OperandAgrees DEF AllCarried
<1>2. CASE v.kind = "arith"
  <2> DEFINE a == ReadOperand(v.left, h)
             b == ReadOperand(v.right, h)
             x == CarriedOperand(v.left, h)
             y == CarriedOperand(v.right, h)
  <2>1. /\ v.left \in Evaluating!Operands /\ v.right \in Evaluating!Operands
        /\ v.op \in {"+", "-", "*", "/"}
    BY <1>2 DEF Evaluating!Expressions, Evaluating!Operands
  <2>2. /\ v.left.kind = "ref" => v.left.name \in Evaluating!RefsOf(v)
        /\ v.right.kind = "ref" => v.right.name \in Evaluating!RefsOf(v)
    BY <1>2 DEF Evaluating!RefsOf
  <2>3. x \in Int /\ ComesTo(a, x) /\ y \in Int /\ ComesTo(b, y)
    BY <2>1, <2>2, OperandAgrees DEF AllCarried
  <2>4. Evaluating!Eval(v, h) = Evaluating!Applied(v.op, a, b)
    BY <1>2, EvalIs
  <2>5. Evaluating!CompiledValue(v, h) =
          Evaluating!Wrapped(CASE v.op = "+" -> x + y [] v.op = "-" -> x - y
                               [] v.op = "*" -> x * y [] v.op = "/" -> Evaluating!Divides(x, y))
    BY <1>2, CompiledIs
  <2> HIDE DEF a, b, x, y
  <2>6. CASE a.is = "fault" \/ b.is = "fault"
    BY <2>4, <2>6, AppliedFaults DEF ComesTo
  <2>7. ASSUME NEW n, NEW tag, Evaluating!Eval(v, h) = Evaluating!Checked("int", n, tag),
               Evaluating!CompiledValue(v, h) = Evaluating!Wrapped(n)
        PROVE  /\ Evaluating!CompiledValue(v, h) \in Int \/ Evaluating!Eval(v, h).is = "fault"
               /\ ComesTo(Evaluating!Eval(v, h), Evaluating!CompiledValue(v, h))
    BY <2>7, CheckedComesTo, WrappedInRange, ValueFacts DEF ComesTo
  <2>8. CASE a.is # "fault" /\ b.is # "fault"
    <3>1. a.is = "int" /\ b.is = "int" /\ a.n = x /\ b.n = y
      BY <2>3, <2>8 DEF ComesTo
    <3>2. /\ v.op = "+" => Evaluating!Eval(v, h) = Evaluating!Checked("int", x + y, NoTag)
          /\ v.op = "-" => Evaluating!Eval(v, h) = Evaluating!Checked("int", x - y, NoTag)
          /\ v.op = "*" => Evaluating!Eval(v, h) = Evaluating!Checked("int", x * y, NoTag)
          /\ v.op = "/" => Evaluating!Eval(v, h) =
                              IF y = 0 THEN Evaluating!Fault("division")
                              ELSE Evaluating!Checked("int", Evaluating!Truncated(x, y), NoTag)
      BY <2>1, <2>4, <3>1, AppliedIs
    <3>3. CASE v.op = "+"
      BY <2>5, <2>7, <3>2, <3>3
    <3>4. CASE v.op = "-"
      BY <2>5, <2>7, <3>2, <3>4
    <3>5. CASE v.op = "*"
      BY <2>5, <2>7, <3>2, <3>5
    <3>6. CASE v.op = "/" /\ y = 0
      BY <3>2, <3>6, FaultIs DEF ComesTo
    <3>7. CASE v.op = "/" /\ y # 0
      BY <2>5, <2>7, <3>2, <3>7 DEF Evaluating!Divides
    <3> QED
      BY <2>1, <3>3, <3>4, <3>5, <3>6, <3>7
  <2> QED
    BY <2>6, <2>8
<1> QED
  BY <1>1, <1>2

LEMMA TermIs ==
    ASSUME NEW c, NEW texts, NEW h,
           texts \cap (Evaluating!RefsOf(c.left) \cup Evaluating!RefsOf(c.right)) = {}
    PROVE  LET a == Evaluating!Eval(c.left, h)
               b == Evaluating!Eval(c.right, h)
               r == Evaluating!TermHolds(c, texts, h)
           IN  /\ a.is = "fault" => r = a
               /\ a.is # "fault" /\ b.is = "fault" => r = b
               /\ a.is = "int" /\ b.is = "int" =>
                    r = Evaluating!Verdict(Evaluating!Compares(c.op, a.n, b.n))
<1> DEFINE named == {o.name : o \in {x \in {c.left, c.right} : x.kind = "ref"}}
           a == Evaluating!Eval(c.left, h)
           b == Evaluating!Eval(c.right, h)
<1>1. named \cap texts = {}
  BY DEF Evaluating!RefsOf
<1>2. Evaluating!TermHolds(c, texts, h) =
        IF c.op \in Evaluating!Equalities /\ named \cap texts # {}
        THEN Evaluating!TextHolds(c, h)
        ELSE IF a.is = "fault" THEN a
        ELSE IF b.is = "fault" THEN b
        ELSE IF "absent" \in {a.is, b.is} THEN Evaluating!Verdict(FALSE)
        ELSE IF a.is # b.is THEN Evaluating!Fault("money-mix")
        ELSE IF a.is # "money" THEN Evaluating!Verdict(Evaluating!Compares(c.op, a.n, b.n))
        ELSE IF c.op \in Evaluating!Equalities THEN Evaluating!Verdict((a = b) = (c.op = "=="))
        ELSE IF a.tag # b.tag THEN Evaluating!Fault("currency")
        ELSE Evaluating!Verdict(Evaluating!Compares(c.op, a.n, b.n))
  BY Zenon DEF Evaluating!TermHolds
<1> HIDE DEF named, a, b
<1>3. a.is = "fault" => Evaluating!TermHolds(c, texts, h) = a
  BY <1>1, <1>2, Zenon
<1>4. a.is # "fault" /\ b.is = "fault" => Evaluating!TermHolds(c, texts, h) = b
  BY <1>1, <1>2, Zenon
<1>5. a.is = "int" /\ b.is = "int" =>
        Evaluating!TermHolds(c, texts, h) = Evaluating!Verdict(Evaluating!Compares(c.op, a.n, b.n))
  <2> SUFFICES ASSUME a.is = "int", b.is = "int"
               PROVE  Evaluating!TermHolds(c, texts, h) =
                        Evaluating!Verdict(Evaluating!Compares(c.op, a.n, b.n))
    OBVIOUS
  <2>1. a.is # "fault" /\ b.is # "fault" /\ "absent" \notin {a.is, b.is} /\ a.is # "money"
        /\ a.is = b.is
    OBVIOUS
  <2> QED
    BY <1>1, <1>2, <2>1, Zenon
<1> QED
  BY <1>3, <1>4, <1>5, Zenon DEF a, b

LEMMA OppositeCompares ==
    ASSUME NEW a \in Int, NEW b \in Int,
           NEW op \in {"<", "<=", ">", ">="} \cup Evaluating!Equalities
    PROVE  /\ Evaluating!Compares(op, a, b) \in BOOLEAN
           /\ Evaluating!Compares(Evaluating!Negated(op), a, b) = ~Evaluating!Compares(op, a, b)
<1>1. CASE op = "<"
  BY <1>1 DEF Evaluating!Compares, Evaluating!Negated
<1>2. CASE op = "<="
  BY <1>2 DEF Evaluating!Compares, Evaluating!Negated
<1>3. CASE op = ">"
  BY <1>3 DEF Evaluating!Compares, Evaluating!Negated
<1>4. CASE op = ">="
  BY <1>4 DEF Evaluating!Compares, Evaluating!Negated
<1>5. CASE op = "=="
  BY <1>5 DEF Evaluating!Compares, Evaluating!Negated
<1>6. CASE op = "!="
  BY <1>6 DEF Evaluating!Compares, Evaluating!Negated
<1> QED
  BY <1>1, <1>2, <1>3, <1>4, <1>5, <1>6 DEF Evaluating!Equalities

(* A comparison as the compiled instructions make it.                       *)
CompiledTerm(c, h) ==
    Evaluating!Compares(c.op, Evaluating!CompiledValue(c.left, h),
                        Evaluating!CompiledValue(c.right, h))

LEMMA TermAgrees ==
    ASSUME NEW c \in Evaluating!Terms, NEW texts, NEW h,
           texts \cap (Evaluating!RefsOf(c.left) \cup Evaluating!RefsOf(c.right)) = {},
           AllCarried(h, Evaluating!RefsOf(c.left) \cup Evaluating!RefsOf(c.right))
    PROVE  LET r == Evaluating!TermHolds(c, texts, h)
           IN  \/ r.is = "fault"
               \/ /\ r.is = "verdict" /\ (r.n = 1 <=> CompiledTerm(c, h))
                  /\ Evaluating!CompiledValue(c.left, h) \in Int
                  /\ Evaluating!CompiledValue(c.right, h) \in Int
<1> DEFINE a == Evaluating!Eval(c.left, h)
           b == Evaluating!Eval(c.right, h)
           r == Evaluating!TermHolds(c, texts, h)
           x == Evaluating!CompiledValue(c.left, h)
           y == Evaluating!CompiledValue(c.right, h)
<1>1. /\ c.left \in Evaluating!Expressions /\ c.right \in Evaluating!Expressions
      /\ c.op \in {"<", "<=", ">", ">="} \cup Evaluating!Equalities
  BY DEF Evaluating!Terms
<1>2. AllCarried(h, Evaluating!RefsOf(c.left)) /\ AllCarried(h, Evaluating!RefsOf(c.right))
  BY DEF AllCarried
<1>3. /\ ComesTo(a, x) /\ (x \in Int \/ a.is = "fault")
      /\ ComesTo(b, y) /\ (y \in Int \/ b.is = "fault")
  BY <1>1, <1>2, ExpressionAgrees
<1>4. /\ a.is = "fault" => r = a
      /\ a.is # "fault" /\ b.is = "fault" => r = b
      /\ a.is = "int" /\ b.is = "int" =>
           r = Evaluating!Verdict(Evaluating!Compares(c.op, a.n, b.n))
  BY TermIs
<1> HIDE DEF a, b, r, x, y
<1>5. CASE a.is = "fault" \/ b.is = "fault"
  BY <1>4, <1>5 DEF r
<1>6. CASE a.is # "fault" /\ b.is # "fault"
  <2>1. a.is = "int" /\ b.is = "int" /\ a.n = x /\ b.n = y /\ x \in Int /\ y \in Int
    BY <1>3, <1>6 DEF ComesTo
  <2>2. r = Evaluating!Verdict(Evaluating!Compares(c.op, x, y))
    BY <1>4, <2>1
  <2>3. Evaluating!Compares(c.op, x, y) \in BOOLEAN
    BY <1>1, <2>1, OppositeCompares
  <2>4. r.is = "verdict" /\ (r.n = 1 <=> Evaluating!Compares(c.op, x, y))
    BY <2>2, <2>3, VerdictIs
  <2> QED
    BY <2>1, <2>4 DEF CompiledTerm, x, y, r
<1> QED
  BY <1>5, <1>6 DEF r

LEMMA TermsOfGuard ==
    ASSUME NEW t \in Texts, t.kind = "compare"
    PROVE  /\ t.terms \in Seq(Evaluating!Terms) /\ Len(t.terms) \in Nat \ {0}
           /\ DOMAIN t.terms = 1..Len(t.terms)
           /\ Evaluating!TermsOf(t) = {t.terms[i] : i \in DOMAIN t.terms}
           /\ Evaluating!TermsOf(t) \subseteq Evaluating!Terms
<1>1. t \in Evaluating!Grammar
  BY ValueFacts
<1>2. t.terms \in Seq(Evaluating!Terms) /\ t.terms # <<>>
  BY <1>1 DEF Evaluating!Grammar
<1>3. Evaluating!TermsOf(t) = {t.terms[i] : i \in DOMAIN t.terms}
  BY DEF Evaluating!TermsOf
<1>4. DOMAIN t.terms = 1..Len(t.terms) /\ Len(t.terms) \in Nat \ {0}
  BY <1>2
<1> QED
  BY <1>2, <1>3, <1>4

LEMMA RefsOfTerm ==
    ASSUME NEW t \in Texts, t.kind = "compare", NEW c \in Evaluating!TermsOf(t)
    PROVE  /\ Evaluating!RefsOf(c.left) \subseteq Evaluating!RefsIn(t)
           /\ Evaluating!RefsOf(c.right) \subseteq Evaluating!RefsIn(t)
BY DEF Evaluating!RefsIn

LEMMA RefsAreNames ==
    ASSUME NEW t \in Texts, t.kind = "compare"
    PROVE  Evaluating!RefsIn(t) \subseteq Evaluating!Names
<1>1. ASSUME NEW v \in Evaluating!Expressions
      PROVE  Evaluating!RefsOf(v) \subseteq Evaluating!Names
  BY DEF Evaluating!RefsOf, Evaluating!Expressions, Evaluating!Operands
<1>2. \A c \in Evaluating!TermsOf(t) :
         c.left \in Evaluating!Expressions /\ c.right \in Evaluating!Expressions
  BY TermsOfGuard DEF Evaluating!Terms
<1>3. Evaluating!RefsIn(t) =
        UNION {Evaluating!RefsOf(c.left) \cup Evaluating!RefsOf(c.right) :
                  c \in Evaluating!TermsOf(t)}
  BY DEF Evaluating!RefsIn
<1> QED
  BY <1>1, <1>2, <1>3

(* A guard that compiles compares no texts.                                 *)
LEMMA CompilableIsNumeric ==
    ASSUME NEW t \in Texts, Evaluating!Compilable(t)
    PROVE  Evaluating!TextNames(t) = {}
<1> SUFFICES ASSUME NEW c \in Evaluating!TermsOf(t), Evaluating!IsTextTerm(c)
             PROVE  FALSE
  BY DEF Evaluating!TextNames
<1>0. t.kind = "compare"
  BY DEF Evaluating!Compilable
<1>1. ASSUME NEW v, v \in {c.left, c.right}, Evaluating!ValueDimension(v, TRUE) = "text"
      PROVE  FALSE
  <2>1. Evaluating!RefsOf(v) \subseteq Evaluating!RefsIn(t)
    BY <1>0, <1>1, RefsOfTerm
  <2>2. \A op, l, r : Evaluating!Combined(op, l, r) # "text"
    BY DEF Evaluating!Combined, Evaluating!Instants
  <2>3. v.kind \in {"lit", "ref", "arith"}
    BY <1>0, <1>1, TermsOfGuard DEF Evaluating!Terms, Evaluating!Expressions, Evaluating!Operands
  <2>4. v.kind # "arith" /\ v.kind # "lit" /\ Evaluating!DimensionOf(v.name, TRUE, FALSE) = "text"
    BY <1>1, <2>2 DEF Evaluating!ValueDimension
  <2>5. v.name \in DOMAIN Fields /\ Evaluating!Base(Fields[v.name].type) \in Evaluating!TextBases
    BY <2>4 DEF Evaluating!DimensionOf
  <2>6. v.name \in Evaluating!RefsOf(v)
    BY <2>3, <2>4 DEF Evaluating!RefsOf
  <2> QED
    BY <2>1, <2>5, <2>6 DEF Evaluating!Compilable
<1> QED
  BY <1>1 DEF Evaluating!IsTextTerm

(* A guard decides as its first fault says, or as all its terms.            *)
LEMMA HoldsUnfolds ==
    ASSUME NEW t \in Texts, t.kind = "compare", NEW h
    PROVE  LET verdictOf(i) == Evaluating!TermHolds(t.terms[i], Evaluating!TextNames(t), h)
           IN  \/ \E i \in DOMAIN t.terms :
                    verdictOf(i).is = "fault" /\ Evaluating!Holds(t, h) = verdictOf(i)
               \/ /\ \A i \in DOMAIN t.terms : verdictOf(i).is # "fault"
                  /\ Evaluating!Holds(t, h) =
                       Evaluating!Verdict(\A i \in DOMAIN t.terms : verdictOf(i).n = 1)
<1> DEFINE results == [i \in DOMAIN t.terms |->
                         Evaluating!TermHolds(t.terms[i], Evaluating!TextNames(t), h)]
           faults == {i \in DOMAIN results : results[i].is = "fault"}
           all == \A i \in DOMAIN results : results[i].n = 1
           each == \A i \in DOMAIN t.terms :
                      Evaluating!TermHolds(t.terms[i], Evaluating!TextNames(t), h).n = 1
<1>1. Evaluating!Holds(t, h) =
        IF faults # {} THEN results[CHOOSE i \in faults : \A j \in faults : i <= j]
        ELSE Evaluating!Verdict(all)
  BY Zenon DEF Evaluating!Holds
<1>2. /\ DOMAIN results = DOMAIN t.terms /\ DOMAIN t.terms \subseteq Nat
      /\ \A i \in DOMAIN t.terms :
           results[i] = Evaluating!TermHolds(t.terms[i], Evaluating!TextNames(t), h)
  BY TermsOfGuard
<1> HIDE DEF results
<1>3. all = each
  BY <1>2
<1>4. CASE faults # {}
  <2>1. faults \subseteq Nat
    BY <1>2
  <2>2. \E i \in faults : \A j \in faults : i <= j
    BY <1>4, <2>1, LeastExists
  <2> DEFINE i == CHOOSE i \in faults : \A j \in faults : i <= j
  <2>3. i \in faults
    BY <2>2
  <2>4. Evaluating!Holds(t, h) = results[i]
    BY <1>1, <1>4
  <2> HIDE DEF i
  <2> QED
    BY <1>2, <2>3, <2>4
<1>5. CASE faults = {}
  <2>1. Evaluating!Holds(t, h) = Evaluating!Verdict(each)
    <3> HIDE DEF all, each
    <3> QED
      BY <1>1, <1>3, <1>5, Zenon
  <2>2. \A i \in DOMAIN t.terms :
           Evaluating!TermHolds(t.terms[i], Evaluating!TextNames(t), h).is # "fault"
    BY <1>2, <1>5
  <2> QED
    BY <2>1, <2>2, Zenon
<1> QED
  BY <1>4, <1>5

LEMMA HoldsAgrees ==
    ASSUME NEW t \in Texts, Evaluating!Compilable(t), NEW h,
           AllCarried(h, Evaluating!RefsIn(t)), Evaluating!Holds(t, h).is = "verdict"
    PROVE  /\ \A c \in Evaluating!TermsOf(t) :
                 /\ Evaluating!CompiledValue(c.left, h) \in Int
                 /\ Evaluating!CompiledValue(c.right, h) \in Int
           /\ Evaluating!Holds(t, h).n = 1 <=> \A c \in Evaluating!TermsOf(t) : CompiledTerm(c, h)
<1> DEFINE verdictOf(i) == Evaluating!TermHolds(t.terms[i], Evaluating!TextNames(t), h)
           all == \A i \in DOMAIN t.terms : verdictOf(i).n = 1
<1>1. t.kind = "compare"
  BY DEF Evaluating!Compilable
<1>2. ASSUME NEW c \in Evaluating!TermsOf(t)
      PROVE  LET r == Evaluating!TermHolds(c, Evaluating!TextNames(t), h)
             IN  \/ r.is = "fault"
                 \/ /\ r.n = 1 <=> CompiledTerm(c, h)
                    /\ Evaluating!CompiledValue(c.left, h) \in Int
                    /\ Evaluating!CompiledValue(c.right, h) \in Int
  <2>1. c \in Evaluating!Terms
    BY <1>1, TermsOfGuard
  <2>2. AllCarried(h, Evaluating!RefsOf(c.left) \cup Evaluating!RefsOf(c.right))
    BY <1>1, RefsOfTerm DEF AllCarried
  <2>3. Evaluating!TextNames(t) = {}
    BY CompilableIsNumeric
  <2> QED
    BY <2>1, <2>2, <2>3, TermAgrees
<1>3. /\ \A i \in DOMAIN t.terms : verdictOf(i).is # "fault"
      /\ Evaluating!Holds(t, h) = Evaluating!Verdict(all)
  BY <1>1, HoldsUnfolds
<1>4. Evaluating!Holds(t, h).n = 1 <=> all
  <2>1. all \in BOOLEAN
    OBVIOUS
  <2> HIDE DEF all
  <2> QED
    BY <1>3, <2>1, VerdictIs
<1>5. /\ \A c \in Evaluating!TermsOf(t) : \E i \in DOMAIN t.terms : c = t.terms[i]
      /\ \A i \in DOMAIN t.terms : t.terms[i] \in Evaluating!TermsOf(t)
  BY <1>1, TermsOfGuard
<1> QED
  BY <1>2, <1>3, <1>4, <1>5

LEMMA CompiledDecides ==
    ASSUME NEW t \in Texts, t.kind = "compare", NEW h, NEW negate \in BOOLEAN,
           \A c \in Evaluating!TermsOf(t) :
              /\ Evaluating!CompiledValue(c.left, h) \in Int
              /\ Evaluating!CompiledValue(c.right, h) \in Int
    PROVE  Evaluating!CompiledHolds(t, negate, h) =
             ((\A c \in Evaluating!TermsOf(t) : CompiledTerm(c, h)) # negate)
<1> DEFINE term(c) == Evaluating!Compares(
                        IF negate /\ Len(t.terms) = 1 THEN Evaluating!Negated(c.op) ELSE c.op,
                        Evaluating!CompiledValue(c.left, h), Evaluating!CompiledValue(c.right, h))
           all == \A c \in Evaluating!TermsOf(t) : term(c)
<1>1. Evaluating!CompiledHolds(t, negate, h) =
        IF negate /\ Len(t.terms) # 1 THEN ~all ELSE all
  BY DEF Evaluating!CompiledHolds
<1>2. \A c \in Evaluating!TermsOf(t) : c.op \in {"<", "<=", ">", ">="} \cup Evaluating!Equalities
  BY TermsOfGuard DEF Evaluating!Terms
<1>3. \A c \in Evaluating!TermsOf(t) :
         /\ CompiledTerm(c, h) \in BOOLEAN
         /\ term(c) = IF negate /\ Len(t.terms) = 1 THEN ~CompiledTerm(c, h) ELSE CompiledTerm(c, h)
  BY <1>2, OppositeCompares DEF CompiledTerm
<1>4. Len(t.terms) = 1 => Evaluating!TermsOf(t) = {t.terms[1]}
  BY TermsOfGuard
<1> HIDE DEF term
<1>5. CASE negate /\ Len(t.terms) = 1
  BY <1>1, <1>3, <1>4, <1>5
<1>6. CASE negate /\ Len(t.terms) # 1
  BY <1>1, <1>3, <1>6
<1>7. CASE ~negate
  BY <1>1, <1>3, <1>7
<1> QED
  BY <1>5, <1>6, <1>7

-----------------------------------------------------------------------------
(* Dimensions.                                                              *)

(* The dimension of an operand.                                             *)
OperandDimension(o, equality) ==
    IF o.kind = "lit" THEN "scalar" ELSE Evaluating!DimensionOf(o.name, equality, FALSE)

Dims == {"scalar", "instant", "money"}

(* Names the document declares, that hold what their declaration allows.    *)
Fits(h, names) ==
    \A name \in names : name \in DOMAIN Fields /\ h[name] \in ValuesOf[name]

(* What a value of that dimension may evaluate to.                          *)
Sound(v, d) ==
    \/ v.is = "fault" /\ v.tag \in Evaluating!ValueFaults
    \/ v.is = "absent"
    \/ v.is = "money" /\ v.n \in Int /\ d = "money"
    \/ v.is = "int" /\ v.n \in Int /\ d \in {"scalar", "instant"}

LEMMA ValueDimensionIs ==
    ASSUME NEW v, NEW equality
    PROVE  Evaluating!ValueDimension(v, equality) =
             IF v.kind = "arith"
             THEN Evaluating!Combined(v.op, OperandDimension(v.left, FALSE),
                                      OperandDimension(v.right, FALSE))
             ELSE OperandDimension(v, equality)
BY DEF Evaluating!ValueDimension, OperandDimension

LEMMA DirectIs ==
    ASSUME NEW o, o.kind = "ref", o.name \in DOMAIN Fields, NEW equality \in BOOLEAN
    PROVE  /\ \/ OperandDimension(o, equality) \in {"text", "refused"}
              \/ OperandDimension(o, equality) = "scalar" /\ Fields[o.name].type = "Integer"
              \/ OperandDimension(o, equality) = "instant" /\ Fields[o.name].type = "DateTime"
              \/ OperandDimension(o, equality) = "money" /\ Fields[o.name].type = "Money"
           /\ OperandDimension(o, equality) = "text" <=>
                equality /\ Evaluating!Base(Fields[o.name].type) \in Evaluating!TextBases
<1> DEFINE base == Evaluating!Base(Fields[o.name].type)
<1>1. OperandDimension(o, equality) =
        CASE FALSE /\ Fields[o.name].optional -> "any"
          [] equality /\ base \in Evaluating!TextBases -> "text"
          [] base = "Integer" -> "scalar"
          [] base = "DateTime" -> "instant"
          [] base = "Money" -> "money"
          [] OTHER -> "refused"
  BY Zenon, "lit" # "ref" DEF OperandDimension, Evaluating!DimensionOf
<1>2. base \in Dims \cup {"Integer", "DateTime", "Money"} => base = Fields[o.name].type
  BY DEF Evaluating!Base, Dims
<1> HIDE DEF base
<1>3. equality /\ base \in Evaluating!TextBases => OperandDimension(o, equality) = "text"
  BY <1>1 DEF Evaluating!TextBases
<1>4. ~(equality /\ base \in Evaluating!TextBases) =>
        \/ OperandDimension(o, equality) = "scalar" /\ base = "Integer"
        \/ OperandDimension(o, equality) = "instant" /\ base = "DateTime"
        \/ OperandDimension(o, equality) = "money" /\ base = "Money"
        \/ OperandDimension(o, equality) = "refused"
  BY <1>1
<1> QED
  BY <1>2, <1>3, <1>4 DEF base

LEMMA FieldHolds ==
    ASSUME NEW f \in DOMAIN Fields, NEW v \in ValuesOf[f]
    PROVE  /\ v \in Evaluating!AllValues
           /\ v = Evaluating!Absent \/ v.is \in Evaluating!Forms(Fields[f].type)
           /\ v = Evaluating!Absent =>
                Fields[f].optional \/ v.is \in Evaluating!Forms(Fields[f].type)
BY ExecutionAssumption DEF Evaluating!ValuesAssumption, Evaluating!Names

LEMMA FormsAre ==
    /\ Evaluating!Forms("Integer") = {"int"}
    /\ Evaluating!Forms("DateTime") = {"instant", "zoneless"}
    /\ Evaluating!Forms("Money") = {"money", "unscaled"}
BY DEF Evaluating!Forms

LEMMA AbsentIs == Evaluating!Absent.is = "absent"
<1>1. \E tag : Evaluating!Absent = Evaluating!V("absent", 0, tag)
  BY Zenon DEF Evaluating!Absent
<1> QED
  BY <1>1, VIs

LEMMA CheckedIs ==
    \A is, n, tag :
       \/ n \in MinInt..MaxInt /\ Evaluating!Checked(is, n, tag) = Evaluating!V(is, n, tag)
       \/ Evaluating!Checked(is, n, tag) = Evaluating!Fault("range")
BY DEF Evaluating!Checked

LEMMA ReadsAs ==
    ASSUME NEW v, v.is \in {"int", "instant", "zoneless", "money", "unscaled", "absent"}
    PROVE  /\ v.is \in {"int", "instant"} =>
                \E tag : Evaluating!Read(v) = Evaluating!Checked("int", v.n, tag)
           /\ v.is \in {"money", "absent"} => Evaluating!Read(v) = v
           /\ v.is = "zoneless" => Evaluating!Read(v) = Evaluating!Fault("zoneless")
           /\ v.is = "unscaled" => Evaluating!Read(v) = Evaluating!Fault("precision")
<1>1. v.is \in {"int", "instant"} =>
        \E tag : Evaluating!Read(v) = Evaluating!Checked("int", v.n, tag)
  BY ReadIs
<1> DEFINE none == ""
<1>2. Evaluating!Read(v) =
        CASE v.is \in {"int", "bool", "instant", "digits"} -> Evaluating!Checked("int", v.n, none)
          [] v.is \in {"absent", "money"} -> v
          [] v.is = "zoneless" -> Evaluating!Fault("zoneless")
          [] v.is = "unscaled" -> Evaluating!Fault("precision")
          [] v.is = "text" -> Evaluating!Fault("not-a-number")
  BY Zenon DEF Evaluating!Read
<1> HIDE DEF none
<1> QED
  BY <1>1, <1>2

LEMMA OperandSound ==
    ASSUME NEW o \in Evaluating!Operands, NEW h, NEW equality \in BOOLEAN,
           o.kind = "ref" => Fits(h, {o.name}), OperandDimension(o, equality) \in Dims
    PROVE  /\ Sound(ReadOperand(o, h), OperandDimension(o, equality))
           /\ ReadOperand(o, h).is = "absent" =>
                /\ o.kind = "ref" /\ h[o.name] = Evaluating!Absent /\ Fields[o.name].optional
                /\ ReadOperand(o, h) = Evaluating!Absent
<1>1. CASE o.kind = "lit"
  <2>1. \E tag : ReadOperand(o, h) = Evaluating!V("int", o.n, tag)
    BY <1>1, Zenon DEF ReadOperand
  <2>2. OperandDimension(o, equality) = "scalar"
    BY <1>1 DEF OperandDimension
  <2> QED
    BY <1>1, <2>1, <2>2, VIs DEF Sound, Evaluating!Operands
<1>2. CASE o.kind = "ref"
  <2> DEFINE v == h[o.name]
             r == ReadOperand(o, h)
             d == OperandDimension(o, equality)
  <2>1. o.name \in DOMAIN Fields /\ v \in ValuesOf[o.name]
    BY <1>2 DEF Fits
  <2>2. r = Evaluating!Read(v)
    BY <1>2, "lit" # "ref", Zenon DEF ReadOperand
  <2>3. \/ d = "scalar" /\ Fields[o.name].type = "Integer"
        \/ d = "instant" /\ Fields[o.name].type = "DateTime"
        \/ d = "money" /\ Fields[o.name].type = "Money"
    BY <1>2, <2>1, DirectIs DEF Dims
  <2>4. v = Evaluating!Absent \/ v.is \in Evaluating!Forms(Fields[o.name].type)
    BY <2>1, FieldHolds
  <2>5. v = Evaluating!Absent /\ v.is \notin Evaluating!Forms(Fields[o.name].type) =>
          Fields[o.name].optional
    BY <2>1, FieldHolds
  <2>10. v.n \in Int
    BY <2>1, FieldHolds DEF Evaluating!AllValues
  <2> HIDE DEF v, r, d
  <2>6. CASE v = Evaluating!Absent
    BY <2>2, <2>3, <2>5, <2>6, AbsentIs, ReadsAs, FormsAre, <1>2 DEF Sound, v, r, d
  <2>7. CASE v.is = "int" /\ d = "scalar"
    BY <2>2, <2>7, ReadsAs, CheckedIs, VIs, FaultIs, ValueFacts
       DEF Sound, Evaluating!ValueFaults, r, d
  <2>8. CASE v.is \in {"instant", "zoneless"} /\ d = "instant"
    BY <2>2, <2>8, ReadsAs, CheckedIs, VIs, FaultIs, ValueFacts
       DEF Sound, Evaluating!ValueFaults, r, d
  <2>9. CASE v.is \in {"money", "unscaled"} /\ d = "money"
    BY <2>2, <2>9, <2>10, ReadsAs, FaultIs DEF Sound, Evaluating!ValueFaults, r, d
  <2> QED
    BY <2>3, <2>4, <2>6, <2>7, <2>8, <2>9, FormsAre
<1> QED
  BY <1>1, <1>2 DEF Evaluating!Operands

LEMMA AppliesAs ==
    ASSUME NEW op, NEW a, NEW b
    PROVE  LET r == Evaluating!Applied(op, a, b)
           IN  /\ a.is = "fault" => r = a
               /\ a.is # "fault" /\ b.is = "fault" => r = b
               /\ a.is # "fault" /\ b.is # "fault" /\ "absent" \in {a.is, b.is} =>
                    r = Evaluating!Absent
               /\ {a.is, b.is} \subseteq {"money", "int"} /\ "money" \in {a.is, b.is} =>
                    r = Evaluating!MoneyArith(op, a, b)
<1> DEFINE none == ""
<1>1. Evaluating!Applied(op, a, b) =
        IF a.is = "fault" THEN a
        ELSE IF b.is = "fault" THEN b
        ELSE CASE "absent" \in {a.is, b.is} -> Evaluating!Absent
               [] "absent" \notin {a.is, b.is} /\ "money" \in {a.is, b.is} ->
                    Evaluating!MoneyArith(op, a, b)
               [] OTHER -> IF op = "/" /\ b.n = 0 THEN Evaluating!Fault("division")
                           ELSE Evaluating!Checked("int",
                                  CASE op = "+" -> a.n + b.n [] op = "-" -> a.n - b.n
                                    [] op = "*" -> a.n * b.n
                                    [] op = "/" -> Evaluating!Truncated(a.n, b.n), none)
  BY Zenon DEF Evaluating!Applied
<1> HIDE DEF none
<1>2. a.is = "fault" => Evaluating!Applied(op, a, b) = a
  BY <1>1, Zenon
<1>3. a.is # "fault" /\ b.is = "fault" => Evaluating!Applied(op, a, b) = b
  BY <1>1, Zenon
<1>4. ASSUME a.is # "fault", b.is # "fault", "absent" \in {a.is, b.is}
      PROVE  Evaluating!Applied(op, a, b) = Evaluating!Absent
  BY <1>1, <1>4
<1>5. ASSUME {a.is, b.is} \subseteq {"money", "int"}, "money" \in {a.is, b.is}
      PROVE  Evaluating!Applied(op, a, b) = Evaluating!MoneyArith(op, a, b)
  BY <1>1, <1>5
<1> QED
  BY <1>2, <1>3, <1>4, <1>5

(* Dimensions that combine.                                                 *)
Combines(op, l, r, d) ==
    \/ l = "money" /\ r = "money" /\ op \in {"+", "-"} /\ d = "money"
    \/ {l, r} = {"money", "scalar"} /\ op = "*" /\ d = "money"
    \/ l = "instant" /\ r = "instant" /\ op = "-" /\ d = "scalar"
    \/ {l, r} = {"instant", "scalar"} /\ d = "instant"
    \/ l = "scalar" /\ r = "scalar" /\ d = "scalar"

LEMMA CombinesIs ==
    ASSUME NEW op, NEW l \in Dims \cup {"refused"}, NEW r \in Dims \cup {"refused"},
           Evaluating!Combined(op, l, r) # "refused"
    PROVE  l \in Dims /\ r \in Dims /\ Combines(op, l, r, Evaluating!Combined(op, l, r))
<1>1. l # "refused" /\ r # "refused"
  BY DEF Evaluating!Combined
<1>2. CASE l = "money" /\ r = "money"
  BY <1>2 DEF Evaluating!Combined, Combines, Dims
<1>3. CASE {l, r} = {"money", "scalar"}
  BY <1>3 DEF Evaluating!Combined, Combines, Dims
<1>4. CASE {l, r} = {"money", "instant"}
  BY <1>4 DEF Evaluating!Combined, Combines, Dims
<1>5. CASE l = "instant" /\ r = "instant"
  BY <1>5 DEF Evaluating!Combined, Evaluating!Instants, Combines, Dims
<1>6. CASE {l, r} = {"instant", "scalar"}
  BY <1>6 DEF Evaluating!Combined, Combines, Dims
<1>7. CASE l = "scalar" /\ r = "scalar"
  BY <1>7 DEF Evaluating!Combined, Combines, Dims
<1> QED
  BY <1>1, <1>2, <1>3, <1>4, <1>5, <1>6, <1>7 DEF Dims

LEMMA MoneyArithSound ==
    ASSUME NEW op, NEW a, NEW b,
           \/ a.is = "money" /\ b.is = "money" /\ op \in {"+", "-"}
           \/ {a.is, b.is} = {"money", "int"} /\ op = "*"
    PROVE  Sound(Evaluating!MoneyArith(op, a, b), "money")
           /\ Evaluating!MoneyArith(op, a, b).is # "absent"
<1>1. \/ Evaluating!MoneyArith(op, a, b) = Evaluating!Fault("currency")
      \/ \E n, tag : Evaluating!MoneyArith(op, a, b) = Evaluating!Checked("money", n, tag)
  <2>1. CASE a.is = "money" /\ b.is = "money" /\ op \in {"+", "-"}
    BY <2>1 DEF Evaluating!MoneyArith
  <2>2. CASE {a.is, b.is} = {"money", "int"} /\ op = "*"
    <3>1. ~(a.is = "money" /\ b.is = "money")
      BY <2>2
    <3>2. Evaluating!MoneyArith(op, a, b) =
            Evaluating!Checked("money", a.n * b.n, IF a.is = "money" THEN a.tag ELSE b.tag)
      BY <2>2, <3>1 DEF Evaluating!MoneyArith
    <3> QED
      BY <3>2, Zenon
  <2> QED
    BY <2>1, <2>2
<1>2. CASE Evaluating!MoneyArith(op, a, b) = Evaluating!Fault("currency")
  BY <1>2, FaultIs DEF Sound, Evaluating!ValueFaults
<1>3. ASSUME NEW n, NEW tag, Evaluating!MoneyArith(op, a, b) = Evaluating!Checked("money", n, tag)
      PROVE  Sound(Evaluating!MoneyArith(op, a, b), "money")
             /\ Evaluating!MoneyArith(op, a, b).is # "absent"
  BY <1>3, CheckedIs, VIs, FaultIs, ValueFacts DEF Sound, Evaluating!ValueFaults
<1> QED
  BY <1>1, <1>2, <1>3

LEMMA IntegerArithSound ==
    ASSUME NEW op \in {"+", "-", "*", "/"}, NEW a, NEW b, a.is = "int", b.is = "int",
           NEW d \in {"scalar", "instant"}
    PROVE  Sound(Evaluating!Applied(op, a, b), d) /\ Evaluating!Applied(op, a, b).is # "absent"
<1>1. \/ Evaluating!Applied(op, a, b) = Evaluating!Fault("division")
      \/ \E n, tag : Evaluating!Applied(op, a, b) = Evaluating!Checked("int", n, tag)
  BY AppliedIs
<1>2. CASE Evaluating!Applied(op, a, b) = Evaluating!Fault("division")
  BY <1>2, FaultIs DEF Sound, Evaluating!ValueFaults
<1>3. ASSUME NEW n, NEW tag, Evaluating!Applied(op, a, b) = Evaluating!Checked("int", n, tag)
      PROVE  Sound(Evaluating!Applied(op, a, b), d) /\ Evaluating!Applied(op, a, b).is # "absent"
  BY <1>3, CheckedIs, VIs, FaultIs, ValueFacts DEF Sound, Evaluating!ValueFaults
<1> QED
  BY <1>1, <1>2, <1>3

LEMMA AppliedSound ==
    ASSUME NEW op \in {"+", "-", "*", "/"}, NEW l \in Dims, NEW r \in Dims, NEW d,
           Combines(op, l, r, d), NEW a, NEW b, Sound(a, l), Sound(b, r)
    PROVE  /\ Sound(Evaluating!Applied(op, a, b), d)
           /\ Evaluating!Applied(op, a, b).is = "absent" =>
                /\ a.is # "fault" /\ b.is # "fault" /\ "absent" \in {a.is, b.is}
                /\ Evaluating!Applied(op, a, b) = Evaluating!Absent
<1>1. CASE a.is = "fault" \/ b.is = "fault"
  <2>1. Evaluating!Applied(op, a, b) \in {a, b} /\ Evaluating!Applied(op, a, b).is = "fault"
    BY <1>1, AppliesAs
  <2> QED
    BY <2>1 DEF Sound
<1>2. CASE a.is # "fault" /\ b.is # "fault" /\ "absent" \in {a.is, b.is}
  BY <1>2, AppliesAs, AbsentIs DEF Sound
<1>3. CASE a.is \notin {"fault", "absent"} /\ b.is \notin {"fault", "absent"}
  <2>1. /\ (a.is = "money" /\ l = "money") \/ (a.is = "int" /\ l \in {"scalar", "instant"})
        /\ (b.is = "money" /\ r = "money") \/ (b.is = "int" /\ r \in {"scalar", "instant"})
    BY <1>3 DEF Sound
  <2>2. CASE "money" \in {l, r}
    <3>1. d = "money" /\ \/ a.is = "money" /\ b.is = "money" /\ op \in {"+", "-"}
                         \/ {a.is, b.is} = {"money", "int"} /\ op = "*"
      BY <2>1, <2>2 DEF Combines
    <3>2. Evaluating!Applied(op, a, b) = Evaluating!MoneyArith(op, a, b)
      BY <3>1, AppliesAs
    <3> QED
      BY <3>1, <3>2, MoneyArithSound
  <2>3. CASE "money" \notin {l, r}
    <3>1. d \in {"scalar", "instant"} /\ a.is = "int" /\ b.is = "int"
      BY <2>1, <2>3 DEF Combines
    <3> QED
      BY <3>1, IntegerArithSound
  <2> QED
    BY <2>2, <2>3
<1> QED
  BY <1>1, <1>2, <1>3

LEMMA PartsOf ==
    ASSUME NEW v \in Evaluating!Expressions
    PROVE  /\ v.kind # "arith" =>
                v \in Evaluating!Operands /\ (v.kind = "ref" => Evaluating!RefsOf(v) = {v.name})
                /\ (v.kind = "lit" => Evaluating!RefsOf(v) = {})
           /\ v.kind = "arith" =>
                /\ v.left \in Evaluating!Operands /\ v.right \in Evaluating!Operands
                /\ v.op \in {"+", "-", "*", "/"}
                /\ v.left.kind = "ref" => v.left.name \in Evaluating!RefsOf(v)
                /\ v.right.kind = "ref" => v.right.name \in Evaluating!RefsOf(v)
<1>1. CASE v.kind # "arith"
  BY <1>1 DEF Evaluating!Expressions, Evaluating!Operands, Evaluating!RefsOf
<1>2. CASE v.kind = "arith"
  BY <1>2 DEF Evaluating!Expressions, Evaluating!Operands, Evaluating!RefsOf
<1> QED
  BY <1>1, <1>2

LEMMA OperandDimensions ==
    ASSUME NEW o \in Evaluating!Operands, o.kind = "ref" => o.name \in DOMAIN Fields
    PROVE  OperandDimension(o, FALSE) \in Dims \cup {"refused"}
<1>1. CASE o.kind = "lit"
  BY <1>1 DEF OperandDimension, Dims
<1>2. CASE o.kind = "ref"
  BY <1>2, DirectIs DEF Dims
<1> QED
  BY <1>1, <1>2 DEF Evaluating!Operands

(* Arithmetic whose dimension is accepted combines its operands.            *)
LEMMA ArithDimension ==
    ASSUME NEW v \in Evaluating!Expressions, v.kind = "arith", NEW equality,
           Evaluating!RefsOf(v) \subseteq DOMAIN Fields,
           Evaluating!ValueDimension(v, equality) # "refused"
    PROVE  /\ OperandDimension(v.left, FALSE) \in Dims /\ OperandDimension(v.right, FALSE) \in Dims
           /\ Combines(v.op, OperandDimension(v.left, FALSE), OperandDimension(v.right, FALSE),
                       Evaluating!ValueDimension(v, equality))
<1>1. /\ OperandDimension(v.left, FALSE) \in Dims \cup {"refused"}
      /\ OperandDimension(v.right, FALSE) \in Dims \cup {"refused"}
  BY PartsOf, OperandDimensions
<1>2. Evaluating!ValueDimension(v, equality) =
        Evaluating!Combined(v.op, OperandDimension(v.left, FALSE), OperandDimension(v.right, FALSE))
  BY ValueDimensionIs
<1> QED
  BY <1>1, <1>2, CombinesIs

LEMMA EvalSound ==
    ASSUME NEW v \in Evaluating!Expressions, NEW h, Fits(h, Evaluating!RefsOf(v)),
           NEW equality \in BOOLEAN, Evaluating!ValueDimension(v, equality) \in Dims
    PROVE  /\ Sound(Evaluating!Eval(v, h), Evaluating!ValueDimension(v, equality))
           /\ Evaluating!Eval(v, h).is = "absent" =>
                /\ Evaluating!Eval(v, h) = Evaluating!Absent
                /\ \E f \in Evaluating!RefsOf(v) : h[f] = Evaluating!Absent /\ Fields[f].optional
<1> DEFINE e == Evaluating!Eval(v, h)
           d == Evaluating!ValueDimension(v, equality)
<1>1. CASE v.kind # "arith"
  <2>1. e = ReadOperand(v, h) /\ d = OperandDimension(v, equality)
    BY <1>1, EvalIs, ValueDimensionIs
  <2>2. v \in Evaluating!Operands /\ (v.kind = "ref" => v.name \in Evaluating!RefsOf(v))
    BY <1>1, PartsOf
  <2>3. v.kind = "ref" => Fits(h, {v.name})
    BY <2>2 DEF Fits
  <2> HIDE DEF e, d
  <2>4. d \in Dims
    BY DEF d
  <2>5. /\ Sound(e, d)
        /\ e.is = "absent" => /\ v.kind = "ref" /\ h[v.name] = Evaluating!Absent
                              /\ Fields[v.name].optional /\ e = Evaluating!Absent
    BY <2>1, <2>2, <2>3, <2>4, OperandSound
  <2> QED
    BY <2>2, <2>5 DEF e, d
<1>2. CASE v.kind = "arith"
  <2> DEFINE l == OperandDimension(v.left, FALSE)
             r == OperandDimension(v.right, FALSE)
             a == ReadOperand(v.left, h)
             b == ReadOperand(v.right, h)
  <2>1. /\ v.left \in Evaluating!Operands /\ v.right \in Evaluating!Operands
        /\ v.op \in {"+", "-", "*", "/"}
        /\ v.left.kind = "ref" => v.left.name \in Evaluating!RefsOf(v)
        /\ v.right.kind = "ref" => v.right.name \in Evaluating!RefsOf(v)
    BY <1>2, PartsOf
  <2>2. Evaluating!RefsOf(v) \subseteq DOMAIN Fields /\ d # "refused"
    BY DEF Fits, Dims
  <2>3. l \in Dims /\ r \in Dims /\ Combines(v.op, l, r, d)
    BY <1>2, <2>2, ArithDimension
  <2>4. e = Evaluating!Applied(v.op, a, b)
    BY <1>2, EvalIs
  <2>5. /\ v.left.kind = "ref" => Fits(h, {v.left.name})
        /\ v.right.kind = "ref" => Fits(h, {v.right.name})
    BY <2>1 DEF Fits
  <2>6. /\ Sound(a, l)
        /\ a.is = "absent" => /\ v.left.kind = "ref" /\ h[v.left.name] = Evaluating!Absent
                              /\ Fields[v.left.name].optional
    BY <2>1, <2>3, <2>5, OperandSound
  <2>7. /\ Sound(b, r)
        /\ b.is = "absent" => /\ v.right.kind = "ref" /\ h[v.right.name] = Evaluating!Absent
                              /\ Fields[v.right.name].optional
    BY <2>1, <2>3, <2>5, OperandSound
  <2> HIDE DEF e, d, a, b, l, r
  <2>8. Sound(e, d) /\ (e.is = "absent" => "absent" \in {a.is, b.is} /\ e = Evaluating!Absent)
    BY <2>1, <2>3, <2>4, <2>6, <2>7, AppliedSound
  <2> QED
    BY <2>1, <2>6, <2>7, <2>8 DEF e, d
<1> QED
  BY <1>1, <1>2

-----------------------------------------------------------------------------
(* Comparisons.                                                             *)

LEMMA DimensionsOfValue ==
    ASSUME NEW v \in Evaluating!Expressions, Evaluating!RefsOf(v) \subseteq DOMAIN Fields,
           NEW equality \in BOOLEAN
    PROVE  /\ Evaluating!ValueDimension(v, equality) \in Dims \cup {"refused", "text"}
           /\ Evaluating!ValueDimension(v, equality) = "text" <=>
                /\ equality /\ v.kind = "ref"
                /\ Evaluating!Base(Fields[v.name].type) \in Evaluating!TextBases
<1> DEFINE d == Evaluating!ValueDimension(v, equality)
<1>1. CASE v.kind = "arith"
  <2>1. d # "refused" => d \in Dims
    BY <1>1, ArithDimension DEF Combines, Dims
  <2>2. d \in Dims \cup {"refused"} /\ d # "text"
    BY <2>1 DEF Dims
  <2> QED
    BY <1>1, <2>2
<1>2. CASE v.kind = "lit"
  <2>1. d = "scalar"
    BY <1>2, ValueDimensionIs DEF OperandDimension
  <2> QED
    BY <1>2, <2>1 DEF Dims
<1>3. CASE v.kind = "ref"
  <2>1. d = OperandDimension(v, equality) /\ v.name \in DOMAIN Fields
    BY <1>3, ValueDimensionIs, PartsOf
  <2> HIDE DEF d
  <2>2. /\ d \in Dims \cup {"refused", "text"}
        /\ d = "text" <=>
             equality /\ Evaluating!Base(Fields[v.name].type) \in Evaluating!TextBases
    BY <1>3, <2>1, DirectIs DEF Dims
  <2> QED
    BY <1>3, <2>2 DEF d
<1> QED
  BY <1>1, <1>2, <1>3 DEF Evaluating!Expressions, Evaluating!Operands

(* An accepted text over declared names, whose names hold what is declared. *)
TermStands(c, h) ==
    /\ c \in Evaluating!Terms /\ Evaluating!TermAccepted(c)
    /\ Fits(h, Evaluating!RefsOf(c.left)) /\ Fits(h, Evaluating!RefsOf(c.right))

LEMMA TermFacts ==
    ASSUME NEW c, NEW h, TermStands(c, h)
    PROVE  LET left == Evaluating!ValueDimension(c.left, c.op \in Evaluating!Equalities)
               right == Evaluating!ValueDimension(c.right, c.op \in Evaluating!Equalities)
           IN  /\ c.left \in Evaluating!Expressions /\ c.right \in Evaluating!Expressions
               /\ c.op \in {"<", "<=", ">", ">="} \cup Evaluating!Equalities
               /\ Evaluating!RefsOf(c.left) \subseteq DOMAIN Fields
               /\ Evaluating!RefsOf(c.right) \subseteq DOMAIN Fields
               /\ Evaluating!IsTextTerm(c) => left = "text" /\ right = "text"
               /\ ~Evaluating!IsTextTerm(c) => left \in Dims /\ right = left
<1> DEFINE left == Evaluating!ValueDimension(c.left, c.op \in Evaluating!Equalities)
           right == Evaluating!ValueDimension(c.right, c.op \in Evaluating!Equalities)
<1>1. /\ c.left \in Evaluating!Expressions /\ c.right \in Evaluating!Expressions
      /\ c.op \in {"<", "<=", ">", ">="} \cup Evaluating!Equalities
  BY DEF TermStands, Evaluating!Terms
<1>2. /\ Evaluating!RefsOf(c.left) \subseteq DOMAIN Fields
      /\ Evaluating!RefsOf(c.right) \subseteq DOMAIN Fields
  BY DEF TermStands, Fits
<1>3. /\ left \in Dims \cup {"refused", "text"} /\ (left = "text" => c.op \in Evaluating!Equalities)
      /\ right \in Dims \cup {"refused", "text"}
      /\ right = "text" => c.op \in Evaluating!Equalities
  <2>1. ASSUME NEW v \in {c.left, c.right}
        PROVE  /\ Evaluating!ValueDimension(v, TRUE) \in Dims \cup {"refused", "text"}
               /\ Evaluating!ValueDimension(v, FALSE) \in Dims \cup {"refused", "text"}
               /\ Evaluating!ValueDimension(v, FALSE) # "text"
    BY <1>1, <1>2, DimensionsOfValue
  <2>2. CASE c.op \in Evaluating!Equalities
    <3>1. (c.op \in Evaluating!Equalities) = TRUE
      BY <2>2
    <3>2. /\ left = Evaluating!ValueDimension(c.left, TRUE)
          /\ right = Evaluating!ValueDimension(c.right, TRUE)
      BY <3>1
    <3> HIDE DEF left, right
    <3> QED
      BY <2>1, <2>2, <3>2
  <2>3. CASE c.op \notin Evaluating!Equalities
    <3>1. (c.op \in Evaluating!Equalities) = FALSE
      BY <2>3
    <3>2. /\ left = Evaluating!ValueDimension(c.left, FALSE)
          /\ right = Evaluating!ValueDimension(c.right, FALSE)
      BY <3>1
    <3> HIDE DEF left, right
    <3> QED
      BY <2>1, <3>2
  <2> QED
    BY <2>2, <2>3
<1>4. /\ "refused" \notin {left, right}
      /\ IF "text" \in {left, right} THEN Evaluating!TextTermAccepted(c, left, right)
         ELSE "unknown" \in {left, right} \/ left = right
  BY DEF TermStands, Evaluating!TermAccepted
<1>5. Evaluating!IsTextTerm(c) <=> "text" \in {left, right}
  <2>1. CASE c.op \in Evaluating!Equalities
    <3>1. (c.op \in Evaluating!Equalities) = TRUE
      BY <2>1
    <3> QED
      BY <3>1 DEF Evaluating!IsTextTerm
  <2>2. CASE c.op \notin Evaluating!Equalities
    BY <1>3, <2>2 DEF Evaluating!IsTextTerm
  <2> QED
    BY <2>1, <2>2
<1> HIDE DEF left, right
<1>6. Evaluating!IsTextTerm(c) => left = "text" /\ right = "text"
  BY <1>3, <1>4, <1>5 DEF Evaluating!TextTermAccepted, Dims
<1>7. ~Evaluating!IsTextTerm(c) => left \in Dims /\ right = left
  BY <1>3, <1>4, <1>5 DEF Dims
<1> QED
  BY <1>1, <1>2, <1>6, <1>7 DEF left, right

NamedIn(c) == {o.name : o \in {x \in {c.left, c.right} : x.kind = "ref"}}

(* The texts of a guard are the names of its text terms.                    *)
GuardStands(t, h) ==
    /\ t \in Texts /\ t.kind = "compare" /\ Evaluating!Accepted(t)
    /\ Fits(h, Evaluating!RefsIn(t))

LEMMA TermsStand ==
    ASSUME NEW t, NEW h, GuardStands(t, h), NEW c \in Evaluating!TermsOf(t)
    PROVE  TermStands(c, h)
<1>1. t \in Texts /\ t.kind = "compare"
  BY DEF GuardStands
<1>2. Evaluating!TermAccepted(c)
  <2>1. Evaluating!GuardAccepted(t)
    BY <1>1 DEF GuardStands, Evaluating!Accepted
  <2> QED
    BY <1>1, <2>1 DEF Evaluating!GuardAccepted
<1>3. c \in Evaluating!Terms
  BY <1>1, TermsOfGuard
<1>4. /\ Evaluating!RefsOf(c.left) \subseteq Evaluating!RefsIn(t)
      /\ Evaluating!RefsOf(c.right) \subseteq Evaluating!RefsIn(t)
  BY <1>1, RefsOfTerm
<1> QED
  BY <1>2, <1>3, <1>4 DEF TermStands, GuardStands, Fits

LEMMA TextOperands ==
    ASSUME NEW c, NEW h, TermStands(c, h), Evaluating!IsTextTerm(c)
    PROVE  /\ c.op \in Evaluating!Equalities
           /\ c.left.kind = "ref" /\ c.right.kind = "ref"
           /\ Evaluating!RefsOf(c.left) = {c.left.name}
           /\ Evaluating!RefsOf(c.right) = {c.right.name}
           /\ c.left.name \in DOMAIN Fields /\ c.right.name \in DOMAIN Fields
           /\ Evaluating!Base(Fields[c.left.name].type) \in Evaluating!TextBases
           /\ Evaluating!Base(Fields[c.right.name].type) \in Evaluating!TextBases
<1>1. c.op \in Evaluating!Equalities
  BY DEF Evaluating!IsTextTerm
<1>2. (c.op \in Evaluating!Equalities) = TRUE
  BY <1>1
<1>3. /\ c.left \in Evaluating!Expressions /\ c.right \in Evaluating!Expressions
      /\ Evaluating!RefsOf(c.left) \subseteq DOMAIN Fields
      /\ Evaluating!RefsOf(c.right) \subseteq DOMAIN Fields
      /\ Evaluating!ValueDimension(c.left, TRUE) = "text"
      /\ Evaluating!ValueDimension(c.right, TRUE) = "text"
  BY <1>2, TermFacts
<1>4. /\ c.left.kind = "ref" /\ Evaluating!Base(Fields[c.left.name].type) \in Evaluating!TextBases
      /\ c.right.kind = "ref" /\ Evaluating!Base(Fields[c.right.name].type) \in Evaluating!TextBases
  BY <1>3, DimensionsOfValue
<1>5. Evaluating!RefsOf(c.left) = {c.left.name} /\ Evaluating!RefsOf(c.right) = {c.right.name}
  BY <1>3, <1>4, PartsOf
<1> QED
  BY <1>1, <1>3, <1>4, <1>5

LEMMA TextBranch ==
    ASSUME NEW t, NEW h, GuardStands(t, h), NEW c \in Evaluating!TermsOf(t)
    PROVE  c.op \in Evaluating!Equalities /\ NamedIn(c) \cap Evaluating!TextNames(t) # {}
             <=> Evaluating!IsTextTerm(c)
<1>1. ASSUME Evaluating!IsTextTerm(c)
      PROVE  c.op \in Evaluating!Equalities /\ NamedIn(c) \cap Evaluating!TextNames(t) # {}
  <2>1. /\ c.op \in Evaluating!Equalities /\ c.left.kind = "ref"
        /\ Evaluating!RefsOf(c.left) = {c.left.name}
    BY <1>1, TermsStand, TextOperands
  <2>2. c.left.name \in NamedIn(c)
    BY <2>1 DEF NamedIn
  <2>3. c.left.name \in Evaluating!TextNames(t)
    BY <1>1, <2>1 DEF Evaluating!TextNames
  <2> QED
    BY <2>1, <2>2, <2>3
<1>2. ASSUME c.op \in Evaluating!Equalities, NamedIn(c) \cap Evaluating!TextNames(t) # {}
      PROVE  Evaluating!IsTextTerm(c)
  <2>1. PICK v \in {c.left, c.right} : v.kind = "ref" /\ v.name \in Evaluating!TextNames(t)
    BY <1>2 DEF NamedIn
  <2>2. PICK x \in Evaluating!TermsOf(t) :
          /\ Evaluating!IsTextTerm(x)
          /\ v.name \in Evaluating!RefsOf(x.left) \cup Evaluating!RefsOf(x.right)
    BY <2>1 DEF Evaluating!TextNames
  <2>3. Evaluating!Base(Fields[v.name].type) \in Evaluating!TextBases
    BY <2>2, TermsStand, TextOperands
  <2>4. v \in Evaluating!Expressions /\ Evaluating!RefsOf(v) \subseteq DOMAIN Fields
    BY TermsStand, TermFacts
  <2>5. Evaluating!ValueDimension(v, TRUE) = "text"
    BY <2>1, <2>3, <2>4, DimensionsOfValue
  <2> QED
    BY <1>2, <2>5 DEF Evaluating!IsTextTerm
<1> QED
  BY <1>1, <1>2

LEMMA NotBare == DOMAIN Fields \cap Bare = {}
BY ExecutionAssumption DEF Evaluating!ValuesAssumption

LEMMA TextHoldsAs ==
    ASSUME NEW c, NEW h, TermStands(c, h), Evaluating!IsTextTerm(c)
    PROVE  Evaluating!TextHolds(c, h) =
             Evaluating!Verdict(/\ "absent" \notin {h[c.left.name].is, h[c.right.name].is}
                                /\ (h[c.left.name] = h[c.right.name]) = (c.op = "=="))
<1> DEFINE textOf(o) == CASE o.kind # "ref" -> Evaluating!Fault("not-text")
                          [] o.name \in Bare -> Evaluating!V("text", 0, o.name)
                          [] OTHER -> h[o.name]
           a == textOf(c.left)
           b == textOf(c.right)
<1>1. Evaluating!TextHolds(c, h) =
        IF a.is = "fault" THEN a
        ELSE IF b.is = "fault" THEN b
        ELSE Evaluating!Verdict("absent" \notin {a.is, b.is} /\ (a = b) = (c.op = "=="))
  BY Zenon DEF Evaluating!TextHolds
<1>2. a = h[c.left.name] /\ b = h[c.right.name]
  BY TextOperands, NotBare
<1>3. a.is # "fault" /\ b.is # "fault"
  <2>1. /\ c.left.name \in DOMAIN Fields /\ h[c.left.name] \in ValuesOf[c.left.name]
        /\ c.right.name \in DOMAIN Fields /\ h[c.right.name] \in ValuesOf[c.right.name]
    BY TextOperands DEF TermStands, Fits
  <2>2. h[c.left.name] \in Evaluating!AllValues /\ h[c.right.name] \in Evaluating!AllValues
    BY <2>1, FieldHolds
  <2> HIDE DEF a, b
  <2> QED
    BY <1>2, <2>2 DEF Evaluating!AllValues
<1> HIDE DEF a, b
<1>4. Evaluating!TextHolds(c, h) =
        Evaluating!Verdict("absent" \notin {a.is, b.is} /\ (a = b) = (c.op = "=="))
  BY <1>1, <1>3, Zenon
<1> QED
  BY <1>2, <1>4, Zenon

LEMMA TermUnfolds ==
    ASSUME NEW c, NEW texts, NEW h
    PROVE  LET a == Evaluating!Eval(c.left, h)
               b == Evaluating!Eval(c.right, h)
           IN  Evaluating!TermHolds(c, texts, h) =
                 IF c.op \in Evaluating!Equalities /\ NamedIn(c) \cap texts # {}
                 THEN Evaluating!TextHolds(c, h)
                 ELSE IF a.is = "fault" THEN a
                 ELSE IF b.is = "fault" THEN b
                 ELSE IF "absent" \in {a.is, b.is} THEN Evaluating!Verdict(FALSE)
                 ELSE IF a.is # b.is THEN Evaluating!Fault("money-mix")
                 ELSE IF a.is # "money" THEN Evaluating!Verdict(Evaluating!Compares(c.op, a.n, b.n))
                 ELSE IF c.op \in Evaluating!Equalities
                      THEN Evaluating!Verdict((a = b) = (c.op = "=="))
                 ELSE IF a.tag # b.tag THEN Evaluating!Fault("currency")
                 ELSE Evaluating!Verdict(Evaluating!Compares(c.op, a.n, b.n))
BY Zenon DEF Evaluating!TermHolds, NamedIn

LEMMA VerdictShows == \A b : Evaluating!Verdict(b).is = "verdict"
<1>1. ASSUME NEW b PROVE \E n, tag : Evaluating!Verdict(b) = Evaluating!V("verdict", n, tag)
  BY Zenon DEF Evaluating!Verdict
<1> QED
  BY <1>1, VIs

LEMMA SameDimension ==
    ASSUME NEW c, NEW h, TermStands(c, h), ~Evaluating!IsTextTerm(c)
    PROVE  \E equality \in BOOLEAN :
             /\ Evaluating!ValueDimension(c.left, equality) \in Dims
             /\ Evaluating!ValueDimension(c.right, equality) =
                  Evaluating!ValueDimension(c.left, equality)
<1>1. CASE c.op \in Evaluating!Equalities
  <2>1. (c.op \in Evaluating!Equalities) = TRUE
    BY <1>1
  <2> QED
    BY <2>1, TermFacts
<1>2. CASE c.op \notin Evaluating!Equalities
  <2>1. (c.op \in Evaluating!Equalities) = FALSE
    BY <1>2
  <2> QED
    BY <2>1, TermFacts
<1> QED
  BY <1>1, <1>2

LEMMA TermSound ==
    ASSUME NEW t, NEW h, GuardStands(t, h), NEW c \in Evaluating!TermsOf(t)
    PROVE  LET r == Evaluating!TermHolds(c, Evaluating!TextNames(t), h)
           IN  r.is = "verdict" \/ (r.is = "fault" /\ r.tag \in Evaluating!ValueFaults)
<1> DEFINE a == Evaluating!Eval(c.left, h)
           b == Evaluating!Eval(c.right, h)
           r == Evaluating!TermHolds(c, Evaluating!TextNames(t), h)
<1>1. CASE Evaluating!IsTextTerm(c)
  <2>1. r = Evaluating!TextHolds(c, h)
    BY <1>1, TextBranch, TermUnfolds, Zenon
  <2>2. TermStands(c, h)
    BY TermsStand
  <2>3. \E x : Evaluating!TextHolds(c, h) = Evaluating!Verdict(x)
    <3> DEFINE x == /\ "absent" \notin {h[c.left.name].is, h[c.right.name].is}
                    /\ (h[c.left.name] = h[c.right.name]) = (c.op = "==")
    <3>1. Evaluating!TextHolds(c, h) = Evaluating!Verdict(x)
      BY ZenonT(60), <1>1, <2>2, TextHoldsAs
    <3> QED
      BY <3>1, Zenon
  <2>4. Evaluating!TextHolds(c, h).is = "verdict"
    BY <2>3, VerdictShows
  <2> QED
    BY <2>1, <2>4
<1>2. CASE ~Evaluating!IsTextTerm(c)
  <2>1. TermStands(c, h)
    BY TermsStand
  <2>2. PICK equality \in BOOLEAN :
          /\ Evaluating!ValueDimension(c.left, equality) \in Dims
          /\ Evaluating!ValueDimension(c.right, equality) =
               Evaluating!ValueDimension(c.left, equality)
    BY <1>2, <2>1, SameDimension
  <2> DEFINE d == Evaluating!ValueDimension(c.left, equality)
  <2>3. Sound(a, d) /\ Sound(b, d)
    BY <2>1, <2>2, TermFacts, EvalSound DEF TermStands
  <2>4. r = IF a.is = "fault" THEN a
            ELSE IF b.is = "fault" THEN b
            ELSE IF "absent" \in {a.is, b.is} THEN Evaluating!Verdict(FALSE)
            ELSE IF a.is # b.is THEN Evaluating!Fault("money-mix")
            ELSE IF a.is # "money" THEN Evaluating!Verdict(Evaluating!Compares(c.op, a.n, b.n))
            ELSE IF c.op \in Evaluating!Equalities THEN Evaluating!Verdict((a = b) = (c.op = "=="))
            ELSE IF a.tag # b.tag THEN Evaluating!Fault("currency")
            ELSE Evaluating!Verdict(Evaluating!Compares(c.op, a.n, b.n))
    BY <1>2, TextBranch, TermUnfolds, Zenon
  <2> HIDE DEF a, b, r, d
  <2>5. CASE a.is = "fault" \/ b.is = "fault"
    BY <2>3, <2>4, <2>5 DEF Sound, r
  <2>6. CASE a.is # "fault" /\ b.is # "fault" /\ "absent" \in {a.is, b.is}
    BY <2>4, <2>6, VerdictShows DEF r
  <2>7. CASE a.is # "fault" /\ b.is # "fault" /\ "absent" \notin {a.is, b.is}
    <3>1. a.is = b.is
      BY <2>3, <2>7 DEF Sound
    <3>2. \/ \E x : r = Evaluating!Verdict(x)
          \/ r = Evaluating!Fault("currency")
      BY <2>4, <2>7, <3>1, Zenon
    <3> QED
      BY <3>2, VerdictShows, FaultIs DEF Evaluating!ValueFaults, r
  <2> QED
    BY <2>5, <2>6, <2>7
<1> QED
  BY <1>1, <1>2

LEMMA FaultOfGuard ==
    ASSUME NEW t, NEW h, GuardStands(t, h)
    PROVE  LET r == Evaluating!Holds(t, h)
           IN  r.is = "verdict" \/ (r.is = "fault" /\ r.tag \in Evaluating!ValueFaults)
<1> DEFINE verdictOf(i) == Evaluating!TermHolds(t.terms[i], Evaluating!TextNames(t), h)
           all == \A i \in DOMAIN t.terms : verdictOf(i).n = 1
<1>1. t \in Texts /\ t.kind = "compare"
  BY DEF GuardStands
<1>2. \A i \in DOMAIN t.terms :
         verdictOf(i).is = "fault" => verdictOf(i).tag \in Evaluating!ValueFaults
  BY <1>1, TermsOfGuard, TermSound
<1>3. \/ \E i \in DOMAIN t.terms :
            verdictOf(i).is = "fault" /\ Evaluating!Holds(t, h) = verdictOf(i)
      \/ Evaluating!Holds(t, h) = Evaluating!Verdict(all)
  BY <1>1, HoldsUnfolds
<1> HIDE DEF all
<1> QED
  BY <1>2, <1>3, VerdictShows

-----------------------------------------------------------------------------
(* The same row an instant later.                                           *)

(* What a value of that dimension becomes.                                  *)
Moved(v, w, d) ==
    \/ v.is = "fault" \/ w.is = "fault"
    \/ d = "instant" /\ v.is = "int" /\ w.is = "int" /\ w.n = v.n + 1
    \/ (d # "instant" \/ v.is = "absent") /\ w = v

LEMMA LaterIs ==
    ASSUME NEW h, NEW name \in DOMAIN h
    PROVE  /\ h[name].is # "instant" => Evaluating!Later(h)[name] = h[name]
           /\ h[name].is = "instant" =>
                \E tag : Evaluating!Later(h)[name] = Evaluating!V("instant", h[name].n + 1, tag)
<1> DEFINE none == ""
<1>1. Evaluating!Later(h)[name] =
        IF h[name].is = "instant" THEN Evaluating!V("instant", h[name].n + 1, none) ELSE h[name]
  BY DEF Evaluating!Later
<1> HIDE DEF none
<1> QED
  BY <1>1

LEMMA OperandMoved ==
    ASSUME NEW o \in Evaluating!Operands, NEW h, NEW equality \in BOOLEAN,
           o.kind = "ref" => Fits(h, {o.name}) /\ o.name \in DOMAIN h,
           OperandDimension(o, equality) \in Dims
    PROVE  Moved(ReadOperand(o, h), ReadOperand(o, Evaluating!Later(h)),
                 OperandDimension(o, equality))
<1>1. CASE o.kind = "lit"
  <2>1. ReadOperand(o, h) = ReadOperand(o, Evaluating!Later(h))
    BY <1>1, Zenon DEF ReadOperand
  <2>2. OperandDimension(o, equality) = "scalar"
    BY <1>1 DEF OperandDimension
  <2> QED
    BY <2>1, <2>2 DEF Moved
<1>2. CASE o.kind = "ref"
  <2> DEFINE v == h[o.name]
             w == Evaluating!Later(h)[o.name]
             d == OperandDimension(o, equality)
  <2>1. o.name \in DOMAIN Fields /\ v \in ValuesOf[o.name] /\ o.name \in DOMAIN h
    BY <1>2 DEF Fits
  <2>2. /\ ReadOperand(o, h) = Evaluating!Read(v)
        /\ ReadOperand(o, Evaluating!Later(h)) = Evaluating!Read(w)
    BY <1>2, "lit" # "ref", Zenon DEF ReadOperand
  <2>3. \/ d = "scalar" /\ Fields[o.name].type = "Integer"
        \/ d = "instant" /\ Fields[o.name].type = "DateTime"
        \/ d = "money" /\ Fields[o.name].type = "Money"
    BY <1>2, <2>1, DirectIs DEF Dims
  <2>4. /\ v \in Evaluating!AllValues
        /\ v = Evaluating!Absent \/ v.is \in Evaluating!Forms(Fields[o.name].type)
    BY <2>1, FieldHolds
  <2>5. /\ v.is # "instant" => w = v
        /\ v.is = "instant" => \E tag : w = Evaluating!V("instant", v.n + 1, tag)
    BY <2>1, LaterIs
  <2>6. v.n \in Int
    BY <2>4 DEF Evaluating!AllValues
  <2> HIDE DEF v, w, d
  <2>7. CASE v = Evaluating!Absent
    <3>1. w = v /\ Evaluating!Read(v) = v /\ v.is = "absent"
      BY <2>5, <2>7, AbsentIs, ReadsAs
    <3> QED
      BY <2>2, <3>1 DEF Moved, d
  <2>8. CASE v.is = "instant"
    <3>1. PICK tag : Evaluating!Read(v) = Evaluating!Checked("int", v.n, tag)
      BY <2>8, ReadsAs
    <3>2. w.is = "instant" /\ w.n = v.n + 1
      BY <2>5, <2>8, VIs
    <3>3. PICK late : Evaluating!Read(w) = Evaluating!Checked("int", v.n + 1, late)
      BY <3>2, ReadsAs
    <3>4. d = "instant"
      BY <2>3, <2>4, <2>8, FormsAre, AbsentIs
    <3>5. \/ Evaluating!Read(v).is = "fault"
          \/ Evaluating!Read(v).is = "int" /\ Evaluating!Read(v).n = v.n
      BY <3>1, CheckedIs, VIs, FaultIs
    <3>6. \/ Evaluating!Read(w).is = "fault"
          \/ Evaluating!Read(w).is = "int" /\ Evaluating!Read(w).n = v.n + 1
      BY <3>3, CheckedIs, VIs, FaultIs
    <3> QED
      BY <2>2, <3>4, <3>5, <3>6 DEF Moved, d
  <2>9. CASE v.is # "instant" /\ v # Evaluating!Absent
    <3>1. w = v
      BY <2>5, <2>9
    <3>2. d # "instant" \/ Evaluating!Read(v).is = "fault"
      <4>1. d = "instant" => v.is = "zoneless"
        BY <2>3, <2>4, <2>9, FormsAre
      <4> QED
        BY <4>1, ReadsAs, FaultIs
    <3> QED
      BY <2>2, <3>1, <3>2 DEF Moved, d
  <2> QED
    BY <2>7, <2>8, <2>9
<1> QED
  BY <1>1, <1>2 DEF Evaluating!Operands

(* Arithmetic that keeps moments moments and durations durations.           *)
Straight(op, l, r) ==
    \/ "instant" \notin {l, r}
    \/ op = "+"
    \/ op = "-" /\ l = "instant"

LEMMA AppliedMoved ==
    ASSUME NEW op \in {"+", "-", "*", "/"}, NEW l \in Dims, NEW r \in Dims, NEW d,
           Combines(op, l, r, d), Straight(op, l, r),
           NEW a, NEW b, NEW x, NEW y, Sound(a, l), Sound(b, r), Moved(a, x, l), Moved(b, y, r)
    PROVE  Moved(Evaluating!Applied(op, a, b), Evaluating!Applied(op, x, y), d)
<1>1. CASE "fault" \in {a.is, b.is, x.is, y.is}
  <2>1. Evaluating!Applied(op, a, b).is = "fault" \/ Evaluating!Applied(op, x, y).is = "fault"
    BY <1>1, AppliedFaults
  <2> QED
    BY <2>1 DEF Moved
<1>2. CASE "fault" \notin {a.is, b.is, x.is, y.is} /\ "instant" \notin {l, r}
  <2>1. x = a /\ y = b
    BY <1>2 DEF Moved
  <2>2. d # "instant"
    BY <1>2 DEF Combines
  <2> QED
    BY <2>1, <2>2 DEF Moved
<1>3. CASE /\ "fault" \notin {a.is, b.is, x.is, y.is} /\ "instant" \in {l, r}
           /\ "absent" \in {a.is, b.is}
  <2>1. (a.is = "absent" => x = a) /\ (b.is = "absent" => y = b)
    BY <1>3 DEF Moved
  <2>2. "absent" \in {x.is, y.is}
    BY <1>3, <2>1
  <2>3. /\ Evaluating!Applied(op, a, b) = Evaluating!Absent
        /\ Evaluating!Applied(op, x, y) = Evaluating!Absent
    BY <1>3, <2>2, AppliesAs
  <2> QED
    BY <2>3, AbsentIs DEF Moved
<1>4. CASE /\ "fault" \notin {a.is, b.is, x.is, y.is} /\ "instant" \in {l, r}
           /\ "absent" \notin {a.is, b.is}
  <2>1. l \in {"instant", "scalar"} /\ r \in {"instant", "scalar"}
    BY <1>4 DEF Combines
  <2>2. a.is = "int" /\ a.n \in Int /\ b.is = "int" /\ b.n \in Int
    BY <1>4, <2>1 DEF Sound
  <2>3. /\ x.is = "int" /\ x.n = a.n + (IF l = "instant" THEN 1 ELSE 0)
        /\ y.is = "int" /\ y.n = b.n + (IF r = "instant" THEN 1 ELSE 0)
    BY <1>4, <2>2 DEF Moved
  <2>4. op \in {"+", "-"}
    BY <1>4 DEF Straight
  <2>5. /\ op = "+" => Evaluating!Applied(op, a, b) = Evaluating!Checked("int", a.n + b.n, NoTag)
        /\ op = "-" => Evaluating!Applied(op, a, b) = Evaluating!Checked("int", a.n - b.n, NoTag)
    BY <2>2, AppliedIs
  <2>6. /\ op = "+" => Evaluating!Applied(op, x, y) = Evaluating!Checked("int", x.n + y.n, NoTag)
        /\ op = "-" => Evaluating!Applied(op, x, y) = Evaluating!Checked("int", x.n - y.n, NoTag)
    BY <2>3, AppliedIs
  <2> DEFINE n == IF op = "+" THEN a.n + b.n ELSE a.n - b.n
             m == IF op = "+" THEN x.n + y.n ELSE x.n - y.n
             p == Evaluating!Applied(op, a, b)
             q == Evaluating!Applied(op, x, y)
  <2>7. p = Evaluating!Checked("int", n, NoTag) /\ q = Evaluating!Checked("int", m, NoTag)
    BY <2>4, <2>5, <2>6
  <2>8. CASE l = "instant" /\ r = "instant"
    <3>1. op = "-" /\ d = "scalar"
      BY <2>8 DEF Combines
    <3>2. m = n
      BY <2>2, <2>3, <2>8, <3>1
    <3> HIDE DEF n, m, p, q
    <3>3. p = q
      BY <2>7, <3>2
    <3> QED
      BY <3>1, <3>3 DEF Moved, p, q
  <2>9. CASE {l, r} = {"instant", "scalar"}
    <3>1. d = "instant" /\ m = n + 1
      <4>1. op = "+" \/ l = "instant"
        BY <1>4 DEF Straight
      <4> QED
        BY <2>2, <2>3, <2>4, <2>9, <4>1 DEF Combines
    <3> HIDE DEF n, m, p, q
    <3>2. /\ p.is = "fault" \/ (p.is = "int" /\ p.n = n)
          /\ q.is = "fault" \/ (q.is = "int" /\ q.n = m)
      BY <2>7, CheckedIs, VIs, FaultIs
    <3> QED
      BY <3>1, <3>2 DEF Moved, p, q
  <2> QED
    BY <1>4, <2>1, <2>8, <2>9
<1> QED
  BY <1>1, <1>2, <1>3, <1>4

LEMMA StraightIs ==
    ASSUME NEW v \in Evaluating!Expressions, v.kind = "arith", ~Evaluating!DistortsInstants(v)
    PROVE  Straight(v.op, OperandDimension(v.left, FALSE), OperandDimension(v.right, FALSE))
<1>1. \A o \in Evaluating!Operands :
        OperandDimension(o, FALSE) = "instant" =>
          o.kind = "ref" /\ Evaluating!DimensionOf(o.name, FALSE, FALSE) = "instant"
  BY DEF OperandDimension, Evaluating!Operands
<1>2. \A o : o.kind = "ref" /\ Evaluating!DimensionOf(o.name, FALSE, FALSE) = "instant" =>
              OperandDimension(o, FALSE) = "instant"
  BY DEF OperandDimension
<1>3. /\ v.left \in Evaluating!Operands /\ v.right \in Evaluating!Operands
      /\ v.op \in {"+", "-", "*", "/"}
  BY PartsOf
<1> QED
  BY <1>1, <1>2, <1>3 DEF Evaluating!DistortsInstants, Straight

LEMMA EvalMoved ==
    ASSUME NEW v \in Evaluating!Expressions, NEW h, Fits(h, Evaluating!RefsOf(v)),
           Evaluating!RefsOf(v) \subseteq DOMAIN h, NEW equality \in BOOLEAN,
           Evaluating!ValueDimension(v, equality) \in Dims, ~Evaluating!DistortsInstants(v)
    PROVE  Moved(Evaluating!Eval(v, h), Evaluating!Eval(v, Evaluating!Later(h)),
                 Evaluating!ValueDimension(v, equality))
<1> DEFINE g == Evaluating!Later(h)
           d == Evaluating!ValueDimension(v, equality)
<1>1. CASE v.kind # "arith"
  <2>1. /\ Evaluating!Eval(v, h) = ReadOperand(v, h) /\ Evaluating!Eval(v, g) = ReadOperand(v, g)
        /\ d = OperandDimension(v, equality)
    BY <1>1, EvalIs, ValueDimensionIs
  <2>2. v \in Evaluating!Operands /\ (v.kind = "ref" => v.name \in Evaluating!RefsOf(v))
    BY <1>1, PartsOf
  <2>3. v.kind = "ref" => Fits(h, {v.name}) /\ v.name \in DOMAIN h
    BY <2>2 DEF Fits
  <2> QED
    BY <2>1, <2>2, <2>3, OperandMoved
<1>2. CASE v.kind = "arith"
  <2> DEFINE l == OperandDimension(v.left, FALSE)
             r == OperandDimension(v.right, FALSE)
             a == ReadOperand(v.left, h)
             b == ReadOperand(v.right, h)
             x == ReadOperand(v.left, g)
             y == ReadOperand(v.right, g)
  <2>1. /\ v.left \in Evaluating!Operands /\ v.right \in Evaluating!Operands
        /\ v.op \in {"+", "-", "*", "/"}
        /\ v.left.kind = "ref" => v.left.name \in Evaluating!RefsOf(v)
        /\ v.right.kind = "ref" => v.right.name \in Evaluating!RefsOf(v)
    BY <1>2, PartsOf
  <2>2. Evaluating!RefsOf(v) \subseteq DOMAIN Fields /\ d # "refused"
    BY DEF Fits, Dims
  <2>3. l \in Dims /\ r \in Dims /\ Combines(v.op, l, r, d)
    BY <1>2, <2>2, ArithDimension
  <2>4. /\ Evaluating!Eval(v, h) = Evaluating!Applied(v.op, a, b)
        /\ Evaluating!Eval(v, g) = Evaluating!Applied(v.op, x, y)
    BY <1>2, EvalIs
  <2>5. /\ v.left.kind = "ref" => Fits(h, {v.left.name}) /\ v.left.name \in DOMAIN h
        /\ v.right.kind = "ref" => Fits(h, {v.right.name}) /\ v.right.name \in DOMAIN h
    BY <2>1 DEF Fits
  <2>6. Sound(a, l) /\ Sound(b, r)
    BY <2>1, <2>3, <2>5, OperandSound
  <2>7. Moved(a, x, l) /\ Moved(b, y, r)
    BY <2>1, <2>3, <2>5, OperandMoved
  <2>8. Straight(v.op, l, r)
    BY <1>2, StraightIs
  <2> HIDE DEF d, a, b, x, y, l, r
  <2> QED
    BY <2>1, <2>3, <2>4, <2>6, <2>7, <2>8, AppliedMoved DEF d, g
<1> QED
  BY <1>1, <1>2

LEMMA ComparesMoved ==
    ASSUME NEW a \in Int, NEW b \in Int,
           NEW op \in {"<", "<=", ">", ">="} \cup Evaluating!Equalities
    PROVE  Evaluating!Compares(op, a + 1, b + 1) = Evaluating!Compares(op, a, b)
<1>1. CASE op = "<"
  BY <1>1 DEF Evaluating!Compares
<1>2. CASE op = "<="
  BY <1>2 DEF Evaluating!Compares
<1>3. CASE op = ">"
  BY <1>3 DEF Evaluating!Compares
<1>4. CASE op = ">="
  BY <1>4 DEF Evaluating!Compares
<1>5. CASE op = "=="
  BY <1>5 DEF Evaluating!Compares
<1>6. CASE op = "!="
  BY <1>6 DEF Evaluating!Compares
<1> QED
  BY <1>1, <1>2, <1>3, <1>4, <1>5, <1>6 DEF Evaluating!Equalities

LEMMA TextHoldsMoved ==
    ASSUME NEW c, NEW h, TermStands(c, h), Evaluating!IsTextTerm(c),
           Evaluating!RefsOf(c.left) \cup Evaluating!RefsOf(c.right) \subseteq DOMAIN h
    PROVE  Evaluating!TextHolds(c, Evaluating!Later(h)) = Evaluating!TextHolds(c, h)
<1> DEFINE g == Evaluating!Later(h)
<1>1. ASSUME NEW o \in {c.left, c.right}
      PROVE  g[o.name] = h[o.name]
  <2>1. /\ o.name \in DOMAIN h /\ o.name \in DOMAIN Fields /\ h[o.name] \in ValuesOf[o.name]
        /\ Evaluating!Base(Fields[o.name].type) \in Evaluating!TextBases
    BY TextOperands DEF TermStands, Fits
  <2>2. Fields[o.name].type \notin {"Integer", "DateTime", "Money"}
    BY <2>1 DEF Evaluating!Base, Evaluating!TextBases
  <2>3. Evaluating!Forms(Fields[o.name].type) = {"text", "digits"}
    BY <2>2 DEF Evaluating!Forms
  <2>4. h[o.name].is # "instant"
    BY <2>1, <2>3, FieldHolds, AbsentIs
  <2> QED
    BY <2>1, <2>4, LaterIs
<1> HIDE DEF g
<1>2. g[c.left.name] = h[c.left.name] /\ g[c.right.name] = h[c.right.name]
  BY <1>1
<1>3. TermStands(c, g)
  BY <1>2, TextOperands DEF TermStands, Fits
<1> DEFINE x(f) == /\ "absent" \notin {f[c.left.name].is, f[c.right.name].is}
                   /\ (f[c.left.name] = f[c.right.name]) = (c.op = "==")
<1>4. Evaluating!TextHolds(c, h) = Evaluating!Verdict(x(h))
  BY ZenonT(60), TextHoldsAs
<1>5. Evaluating!TextHolds(c, g) = Evaluating!Verdict(x(g))
  BY ZenonT(60), <1>3, TextHoldsAs
<1>6. x(g) = x(h)
  BY <1>2
<1> HIDE DEF x
<1> QED
  BY <1>4, <1>5, <1>6, Zenon DEF g

LEMMA TermMoved ==
    ASSUME NEW t, NEW h, GuardStands(t, h), Evaluating!RefsIn(t) \subseteq DOMAIN h,
           NEW c \in Evaluating!TermsOf(t),
           ~Evaluating!DistortsInstants(c.left), ~Evaluating!DistortsInstants(c.right)
    PROVE  LET r == Evaluating!TermHolds(c, Evaluating!TextNames(t), h)
               s == Evaluating!TermHolds(c, Evaluating!TextNames(t), Evaluating!Later(h))
           IN  r.is = "fault" \/ s.is = "fault" \/ s = r
<1> DEFINE g == Evaluating!Later(h)
           r == Evaluating!TermHolds(c, Evaluating!TextNames(t), h)
           s == Evaluating!TermHolds(c, Evaluating!TextNames(t), g)
           a == Evaluating!Eval(c.left, h)
           b == Evaluating!Eval(c.right, h)
           x == Evaluating!Eval(c.left, g)
           y == Evaluating!Eval(c.right, g)
<1>1. TermStands(c, h)
  BY TermsStand
<1>2. /\ Evaluating!RefsOf(c.left) \subseteq DOMAIN h
      /\ Evaluating!RefsOf(c.right) \subseteq DOMAIN h
  BY RefsOfTerm DEF GuardStands
<1>3. CASE Evaluating!IsTextTerm(c)
  <2>1. r = Evaluating!TextHolds(c, h) /\ s = Evaluating!TextHolds(c, g)
    BY <1>3, TextBranch, TermUnfolds, Zenon
  <2>2. Evaluating!TextHolds(c, g) = Evaluating!TextHolds(c, h)
    BY <1>1, <1>2, <1>3, TextHoldsMoved
  <2> QED
    BY <2>1, <2>2
<1>4. CASE ~Evaluating!IsTextTerm(c)
  <2>1. PICK equality \in BOOLEAN :
          /\ Evaluating!ValueDimension(c.left, equality) \in Dims
          /\ Evaluating!ValueDimension(c.right, equality) =
               Evaluating!ValueDimension(c.left, equality)
    BY <1>1, <1>4, SameDimension
  <2> DEFINE d == Evaluating!ValueDimension(c.left, equality)
  <2>2. /\ c.left \in Evaluating!Expressions /\ c.right \in Evaluating!Expressions
        /\ c.op \in {"<", "<=", ">", ">="} \cup Evaluating!Equalities
        /\ Fits(h, Evaluating!RefsOf(c.left)) /\ Fits(h, Evaluating!RefsOf(c.right))
    BY <1>1, TermFacts DEF TermStands
  <2>3. Sound(a, d) /\ Sound(b, d)
    BY <2>1, <2>2, EvalSound
  <2>4. Moved(a, x, d) /\ Moved(b, y, d)
    BY <1>2, <2>1, <2>2, EvalMoved
  <2>5. r = IF a.is = "fault" THEN a
            ELSE IF b.is = "fault" THEN b
            ELSE IF "absent" \in {a.is, b.is} THEN Evaluating!Verdict(FALSE)
            ELSE IF a.is # b.is THEN Evaluating!Fault("money-mix")
            ELSE IF a.is # "money" THEN Evaluating!Verdict(Evaluating!Compares(c.op, a.n, b.n))
            ELSE IF c.op \in Evaluating!Equalities THEN Evaluating!Verdict((a = b) = (c.op = "=="))
            ELSE IF a.tag # b.tag THEN Evaluating!Fault("currency")
            ELSE Evaluating!Verdict(Evaluating!Compares(c.op, a.n, b.n))
    BY <1>4, TextBranch, TermUnfolds, Zenon
  <2>6. s = IF x.is = "fault" THEN x
            ELSE IF y.is = "fault" THEN y
            ELSE IF "absent" \in {x.is, y.is} THEN Evaluating!Verdict(FALSE)
            ELSE IF x.is # y.is THEN Evaluating!Fault("money-mix")
            ELSE IF x.is # "money" THEN Evaluating!Verdict(Evaluating!Compares(c.op, x.n, y.n))
            ELSE IF c.op \in Evaluating!Equalities THEN Evaluating!Verdict((x = y) = (c.op = "=="))
            ELSE IF x.tag # y.tag THEN Evaluating!Fault("currency")
            ELSE Evaluating!Verdict(Evaluating!Compares(c.op, x.n, y.n))
    BY <1>4, TextBranch, TermUnfolds, Zenon
  <2> HIDE DEF a, b, x, y, r, s, d
  <2>7. CASE "fault" \in {a.is, b.is, x.is, y.is}
    <3>1. a.is = "fault" \/ (a.is # "fault" /\ b.is = "fault") => r.is = "fault"
      BY <2>5, Zenon
    <3>2. x.is = "fault" \/ (x.is # "fault" /\ y.is = "fault") => s.is = "fault"
      BY <2>6, Zenon
    <3> QED
      BY <2>7, <3>1, <3>2 DEF r, s, g
  <2>8. CASE "fault" \notin {a.is, b.is, x.is, y.is} /\ x = a /\ y = b
    <3>1. s = r
      BY <2>5, <2>6, <2>8, Zenon
    <3> QED
      BY <3>1 DEF r, s, g
  <2>9. CASE "fault" \notin {a.is, b.is, x.is, y.is} /\ "absent" \in {a.is, b.is}
    <3>1. "absent" \in {x.is, y.is}
      BY <2>4, <2>9 DEF Moved
    <3>2. r = Evaluating!Verdict(FALSE)
      BY <2>5, <2>9, Zenon
    <3>3. s = Evaluating!Verdict(FALSE)
      BY <2>6, <2>9, <3>1, Zenon
    <3> QED
      BY <3>2, <3>3 DEF r, s, g
  <2>10. CASE /\ "fault" \notin {a.is, b.is, x.is, y.is} /\ "absent" \notin {a.is, b.is}
              /\ d = "instant"
    <3>1. /\ a.is = "int" /\ b.is = "int" /\ a.n \in Int /\ b.n \in Int
          /\ x.is = "int" /\ y.is = "int" /\ x.n = a.n + 1 /\ y.n = b.n + 1
      BY <2>3, <2>4, <2>10 DEF Sound, Moved
    <3>2. /\ a.is # "money" /\ x.is # "money" /\ "absent" \notin {x.is, y.is}
          /\ a.is = b.is /\ x.is = y.is
      BY <3>1
    <3>3. r = Evaluating!Verdict(Evaluating!Compares(c.op, a.n, b.n))
      BY <2>5, <2>10, <3>2, Zenon
    <3>4. s = Evaluating!Verdict(Evaluating!Compares(c.op, x.n, y.n))
      BY <2>6, <2>10, <3>2, Zenon
    <3>5. Evaluating!Compares(c.op, x.n, y.n) = Evaluating!Compares(c.op, a.n, b.n)
      BY ZenonT(60), <2>2, <3>1, ComparesMoved
    <3>6. s = r
      BY <3>3, <3>4, <3>5, Zenon
    <3> QED
      BY <3>6 DEF r, s, g
  <2> QED
    BY <2>4, <2>7, <2>8, <2>9, <2>10 DEF Moved
<1> QED
  BY <1>3, <1>4

LEMMA HoldsMoved ==
    ASSUME NEW t, NEW h, GuardStands(t, h), Evaluating!RefsIn(t) \subseteq DOMAIN h,
           \A c \in Evaluating!TermsOf(t) :
              ~Evaluating!DistortsInstants(c.left) /\ ~Evaluating!DistortsInstants(c.right)
    PROVE  \/ "fault" \in {Evaluating!Holds(t, h).is, Evaluating!Holds(t, Evaluating!Later(h)).is}
           \/ Evaluating!Holds(t, Evaluating!Later(h)) = Evaluating!Holds(t, h)
<1> DEFINE g == Evaluating!Later(h)
           before(i) == Evaluating!TermHolds(t.terms[i], Evaluating!TextNames(t), h)
           after(i) == Evaluating!TermHolds(t.terms[i], Evaluating!TextNames(t), g)
           all == \A i \in DOMAIN t.terms : before(i).n = 1
           still == \A i \in DOMAIN t.terms : after(i).n = 1
<1>1. t \in Texts /\ t.kind = "compare"
  BY DEF GuardStands
<1>2. \A i \in DOMAIN t.terms : t.terms[i] \in Evaluating!TermsOf(t)
  BY <1>1, TermsOfGuard
<1>3. \A i \in DOMAIN t.terms :
         before(i).is = "fault" \/ after(i).is = "fault" \/ after(i) = before(i)
  BY <1>2, TermMoved
<1>4. \/ Evaluating!Holds(t, h).is = "fault"
      \/ /\ \A i \in DOMAIN t.terms : before(i).is # "fault"
         /\ Evaluating!Holds(t, h) = Evaluating!Verdict(all)
  BY <1>1, HoldsUnfolds
<1>5. \/ Evaluating!Holds(t, g).is = "fault"
      \/ /\ \A i \in DOMAIN t.terms : after(i).is # "fault"
         /\ Evaluating!Holds(t, g) = Evaluating!Verdict(still)
  BY <1>1, HoldsUnfolds
<1>6. CASE "fault" \in {Evaluating!Holds(t, h).is, Evaluating!Holds(t, g).is}
  BY <1>6
<1>7. CASE "fault" \notin {Evaluating!Holds(t, h).is, Evaluating!Holds(t, g).is}
  <2>1. still = all
    BY <1>3, <1>4, <1>5, <1>7
  <2>2. /\ Evaluating!Holds(t, h) = Evaluating!Verdict(all)
        /\ Evaluating!Holds(t, g) = Evaluating!Verdict(still)
    BY <1>4, <1>5, <1>7
  <2> HIDE DEF all, still, g
  <2> QED
    BY <2>1, <2>2, Zenon DEF g
<1> QED
  BY <1>6, <1>7

-----------------------------------------------------------------------------
(* Aggregates.                                                               *)

LEMMA FirstIs ==
    ASSUME NEW S, S \subseteq Nat, S # {}
    PROVE  Evaluating!First(S) \in S
BY LeastExists DEF Evaluating!First

(* A list has a least and a greatest of what it holds.                      *)
LEMMA BestExists ==
    ASSUME NEW func, NEW rows \in Seq(Evaluating!AllValues), NEW there,
           there \subseteq DOMAIN rows, there # {}
    PROVE  {i \in there : \A j \in there :
              ~(IF func = "min" THEN rows[j].n < rows[i].n ELSE rows[j].n > rows[i].n)} # {}
<1> DEFINE better(i, j) == IF func = "min" THEN rows[i].n < rows[j].n ELSE rows[i].n > rows[j].n
           upTo(k) == {i \in there : i <= k}
           Bad == {k \in Nat : /\ upTo(k) # {}
                               /\ \A i \in upTo(k) : \E j \in upTo(k) : better(j, i)}
<1>1. DOMAIN rows = 1..Len(rows) /\ Len(rows) \in Nat /\ \A i \in there : rows[i].n \in Int
  <2>1. \A i \in DOMAIN rows : rows[i] \in Evaluating!AllValues
    OBVIOUS
  <2> QED
    BY <2>1 DEF Evaluating!AllValues
<1>2. /\ \A i, j, k \in there : better(i, j) /\ better(j, k) => better(i, k)
      /\ \A i, j \in there : better(i, j) => ~better(j, i)
      /\ \A i, j, k \in there : better(i, j) => better(i, k) \/ better(k, j)
  BY SMTT(60), <1>1
<1> HIDE DEF better
<1>3. Bad = {}
  <2> SUFFICES ASSUME Bad # {} PROVE FALSE
    OBVIOUS
  <2>1. PICK k \in Bad : \A m \in Bad : k <= m
    BY LeastExists
  <2>2. k \in Nat /\ k # 0
    BY <1>1, <2>1
  <2>3. k - 1 \in Nat /\ k - 1 \notin Bad
    <3> HIDE DEF Bad
    <3> QED
      BY <2>1, <2>2
  <2>4. \A i \in there : i \in Nat /\ (i <= k <=> i <= k - 1 \/ i = k)
    BY SMTT(60), <1>1, <2>2
  <2>5. CASE k \notin there
    <3>1. upTo(k) = upTo(k - 1)
      BY <2>4, <2>5
    <3> QED
      BY <2>1, <2>3, <3>1
  <2>6. CASE k \in there /\ upTo(k - 1) = {}
    <3>1. upTo(k) = {k}
      BY <2>4, <2>6
    <3>2. better(k, k)
      BY <2>1, <3>1
    <3> QED
      BY <1>2, <2>6, <3>2
  <2>7. CASE k \in there /\ upTo(k - 1) # {}
    <3>1. PICK i \in upTo(k - 1) : \A j \in upTo(k - 1) : ~better(j, i)
      BY <2>3, <2>7
    <3>2. i \in upTo(k) /\ k \in upTo(k)
      BY <2>4, <2>7, <3>1
    <3>3. \A j \in upTo(k) : j \in upTo(k - 1) \/ j = k
      BY <2>4
    <3>4. better(k, i)
      BY <2>1, <3>1, <3>2, <3>3
    <3>5. PICK j \in upTo(k) : better(j, k)
      BY <2>1, <3>2
    <3>6. better(j, i) /\ j # k
      BY <1>2, <2>7, <3>1, <3>4, <3>5
    <3> QED
      BY <3>1, <3>3, <3>6
  <2> QED
    BY <2>5, <2>6, <2>7
<1>4. upTo(Len(rows)) = there
  BY <1>1
<1>5. Len(rows) \notin Bad
  BY <1>3
<1>6. \E i \in there : \A j \in there : ~better(j, i)
  BY <1>1, <1>4, <1>5
<1> QED
  BY <1>6 DEF better

(* An accepted aggregate over what rows hold of its field.                  *)
AggregateStands(t, rows) ==
    /\ t \in Texts /\ t.kind = "aggregate" /\ Evaluating!Accepted(t)
    /\ rows \in Seq(Evaluating!AllValues)
    /\ t.field # "none" => \A i \in DOMAIN rows : rows[i] \in ValuesOf[t.field]

AggregateFaults == Evaluating!ValueFaults \cup {"empty", "no-field"}

(* It is a value, or faults for one.                                        *)
Reduced(r) == r.is # "absent" /\ (r.is = "fault" => r.tag \in AggregateFaults)

LEMMA AggregateSound ==
    ASSUME NEW t, NEW rows, AggregateStands(t, rows)
    PROVE  Reduced(Evaluating!Aggregate(t, rows))
<1> DEFINE there == Evaluating!Present(rows)
<1>1. there \subseteq DOMAIN rows /\ there \subseteq Nat
      /\ \A i \in there : rows[i].is \notin {"absent", "fault"}
  <2>1. \A i \in DOMAIN rows : i \in Nat /\ rows[i] \in Evaluating!AllValues
    BY DEF AggregateStands
  <2> QED
    BY <2>1 DEF Evaluating!Present, Evaluating!AllValues
<1>2. \A why \in AggregateFaults : Reduced(Evaluating!Fault(why))
  BY FaultIs DEF Reduced
<1>3. \A is, n, tag : is \notin {"absent", "fault"} => Reduced(Evaluating!V(is, n, tag))
  BY VIs DEF Reduced
<1>4. there # {} => Reduced(Evaluating!SumAvg(t.func, rows))
  <2> SUFFICES ASSUME there # {} PROVE Reduced(Evaluating!SumAvg(t.func, rows))
    OBVIOUS
  <2> DEFINE first == rows[Evaluating!First(there)]
  <2>1. first.is \notin {"absent", "fault"}
    BY <1>1, FirstIs
  <2>2. \/ Evaluating!SumAvg(t.func, rows) \in
             {Evaluating!Fault(why) : why \in {"precision", "currency", "range"}}
        \/ \E n : Evaluating!SumAvg(t.func, rows) = Evaluating!V(first.is, n, first.tag)
    BY DEF Evaluating!SumAvg
  <2> HIDE DEF first
  <2> QED
    BY <1>2, <1>3, <2>1, <2>2 DEF AggregateFaults, Evaluating!ValueFaults
<1>5. there # {} => Reduced(Evaluating!MinMax(t.func, rows))
  <2> SUFFICES ASSUME there # {} PROVE Reduced(Evaluating!MinMax(t.func, rows))
    OBVIOUS
  <2> DEFINE best == {i \in there : \A j \in there :
                        ~(IF t.func = "min" THEN rows[j].n < rows[i].n ELSE rows[j].n > rows[i].n)}
  <2>1. best # {}
    BY ZenonT(60), <1>1, BestExists DEF AggregateStands
  <2>2. \/ Evaluating!MinMax(t.func, rows) \in
             {Evaluating!Fault(why) : why \in {"precision", "currency", "zoneless"}}
        \/ Evaluating!MinMax(t.func, rows) = rows[Evaluating!First(best)]
    BY DEF Evaluating!MinMax
  <2>3. best \subseteq there
    OBVIOUS
  <2> HIDE DEF best, there
  <2>4. Evaluating!First(best) \in there
    BY <1>1, <2>1, <2>3, FirstIs
  <2>5. Reduced(rows[Evaluating!First(best)])
    BY <1>1, <2>4 DEF Reduced
  <2> QED
    BY <1>2, <2>2, <2>5 DEF AggregateFaults, Evaluating!ValueFaults
<1> DEFINE null == "null"
           none == ""
<1>6. Evaluating!Aggregate(t, rows) =
        IF t.func = "count" THEN Evaluating!V("int", Len(rows), none)
        ELSE IF there # DOMAIN rows /\ ~Fields[t.field].optional THEN Evaluating!Fault("no-field")
        ELSE IF there # {} THEN IF t.func \in {"sum", "avg"} THEN Evaluating!SumAvg(t.func, rows)
                                ELSE Evaluating!MinMax(t.func, rows)
        ELSE IF t.func # "sum" THEN Evaluating!Fault("empty")
        ELSE IF Evaluating!Base(Fields[t.field].type) = "Money" THEN Evaluating!V("money", 0, null)
        ELSE Evaluating!V("int", 0, none)
  BY Zenon DEF Evaluating!Aggregate
<1> HIDE DEF there, null, none
<1>7. Reduced(Evaluating!Fault("no-field")) /\ Reduced(Evaluating!Fault("empty"))
  BY <1>2 DEF AggregateFaults
<1>8. \A n, tag : Reduced(Evaluating!V("int", n, tag)) /\ Reduced(Evaluating!V("money", n, tag))
  BY <1>3
<1> QED
  BY <1>4, <1>5, <1>6, <1>7, <1>8

-----------------------------------------------------------------------------
(* Assignments.                                                              *)

LEMMA TextFacts ==
    ASSUME NEW t \in Texts
    PROVE  /\ t.kind \in {"compare", "test", "set", "aggregate"}
           /\ t.kind = "set" => /\ t.target \in Evaluating!Names
                                /\ t.value \in Evaluating!Expressions
                                /\ t.under \in Evaluating!Names \cup {"nothing"}
           /\ t.kind = "aggregate" => t.field \in DOMAIN Fields \cup {"none"}
BY ValueFacts DEF Evaluating!Grammar

(* An assignment over declared names, whose names hold what is declared.    *)
SetStands(t, h) ==
    /\ t \in Texts /\ t.kind = "set" /\ Evaluating!Accepted(t)
    /\ Evaluating!RefsIn(t) \subseteq DOMAIN Fields
    /\ h \in Evaluating!Holdings(Evaluating!RefsIn(t))

LEMMA SetFacts ==
    ASSUME NEW t, NEW h, SetStands(t, h)
    PROVE  /\ t.value \in Evaluating!Expressions
           /\ Evaluating!RefsOf(t.value) \subseteq DOMAIN Fields
           /\ Evaluating!RefsOf(t.value) \subseteq DOMAIN h
           /\ Fits(h, Evaluating!RefsOf(t.value))
           /\ Evaluating!ValueDimension(t.value, FALSE) \in Dims
           /\ Evaluating!ValueDimension(t.value, FALSE) = "instant"
                <=> Evaluating!Base(Fields[t.target].type) = "DateTime"
<1> DEFINE o == [kind |-> "ref", name |-> t.target]
           d == Evaluating!ValueDimension(t.value, FALSE)
           target == Evaluating!DimensionOf(t.target, FALSE, FALSE)
<1>1. t.value \in Evaluating!Expressions
  BY TextFacts DEF SetStands
<1>2. Evaluating!RefsOf(t.value) \subseteq Evaluating!RefsIn(t)
  BY DEF SetStands, Evaluating!RefsIn
<1>3. /\ Evaluating!RefsOf(t.value) \subseteq DOMAIN Fields
      /\ Evaluating!RefsOf(t.value) \subseteq DOMAIN h
      /\ Fits(h, Evaluating!RefsOf(t.value))
  BY <1>2 DEF SetStands, Fits, Evaluating!Holdings
<1>4. /\ t.target \in DOMAIN Fields /\ target # "refused" /\ d # "refused"
      /\ d = "unknown" \/ d = target
  <2>1. Evaluating!SetAccepted(t)
    BY DEF SetStands, Evaluating!Accepted
  <2> QED
    BY <2>1 DEF Evaluating!SetAccepted, Evaluating!TargetAccepted
<1>5. d \in Dims \cup {"refused", "text"} /\ d # "text"
  BY <1>1, <1>3, DimensionsOfValue
<1>6. d \in Dims /\ d = target
  <2> HIDE DEF d, target
  <2> QED
    BY <1>4, <1>5 DEF Dims
<1>7. target = OperandDimension(o, FALSE)
  BY DEF OperandDimension
<1> HIDE DEF d, target
<1>8. d = "instant" <=> Evaluating!Base(Fields[t.target].type) = "DateTime"
  <2>1. o.kind = "ref" /\ o.name = t.target
    OBVIOUS
  <2> HIDE DEF o
  <2>2. \/ d = "scalar" /\ Fields[t.target].type = "Integer"
        \/ d = "instant" /\ Fields[t.target].type = "DateTime"
        \/ d = "money" /\ Fields[t.target].type = "Money"
    BY <1>4, <1>6, <1>7, <2>1, DirectIs DEF Dims
  <2> QED
    BY <2>2 DEF Evaluating!Base
<1> QED
  BY <1>1, <1>3, <1>6, <1>8 DEF d

(* An assignment whose operand is absent was warned about, or its operand    *)
(* is the run's input.                                                      *)
LEMMA SetForeseen ==
    ASSUME NEW t, NEW h, SetStands(t, h), t.under # "nothing" => h[t.under].is # "absent",
           Evaluating!Assigned(Evaluating!Eval(t.value, h)).is = "fault"
    PROVE  LET r == Evaluating!Assigned(Evaluating!Eval(t.value, h))
           IN  \/ r.tag \in Evaluating!ValueFaults
               \/ /\ r.tag = "unresolved"
                  /\ \/ t.value.kind = "ref" \/ Evaluating!Warned(t)
                     \/ \E f \in Evaluating!RefsOf(t.value) :
                           Fields[f].of # "row" /\ h[f] = Evaluating!Absent
<1> DEFINE e == Evaluating!Eval(t.value, h)
           d == Evaluating!ValueDimension(t.value, FALSE)
<1>1. /\ t.value \in Evaluating!Expressions /\ Evaluating!RefsOf(t.value) \subseteq DOMAIN Fields
      /\ Fits(h, Evaluating!RefsOf(t.value)) /\ d \in Dims
  BY SetFacts
<1>2. /\ Sound(e, d)
      /\ e.is = "absent" =>
           \E f \in Evaluating!RefsOf(t.value) : h[f] = Evaluating!Absent /\ Fields[f].optional
  BY <1>1, EvalSound
<1> HIDE DEF e, d
<1>3. CASE e.is # "absent"
  BY <1>2, <1>3 DEF Evaluating!Assigned, Sound, e
<1>4. CASE e.is = "absent"
  <2>1. Evaluating!Assigned(e).tag = "unresolved"
    BY <1>4, FaultIs DEF Evaluating!Assigned
  <2>2. PICK f \in Evaluating!RefsOf(t.value) : h[f] = Evaluating!Absent /\ Fields[f].optional
    BY <1>2, <1>4
  <2>3. t.value.kind \in {"lit", "ref", "arith"}
    BY <1>1 DEF Evaluating!Expressions, Evaluating!Operands
  <2>4. t.value.kind # "lit"
    BY <1>1, <2>2, PartsOf
  <2>5. h[f].is = "absent"
    BY <2>2, AbsentIs
  <2>6. f # "nothing"
    BY <1>1, ExecutionAssumption DEF Evaluating!ValuesAssumption, Evaluating!Names
  <2>7. t.under # f
    BY <2>5, <2>6
  <2>8. CASE t.value.kind = "arith" /\ Fields[f].of = "row"
    <3>1. Evaluating!Warned(t)
      BY <1>1, <2>2, <2>7, <2>8 DEF Evaluating!Warned, SetStands
    <3> QED
      BY <2>1, <3>1 DEF e
  <2> QED
    BY <2>1, <2>2, <2>3, <2>4, <2>8 DEF e
<1> QED
  BY <1>3, <1>4

LEMMA SetMoved ==
    ASSUME NEW t, NEW h, SetStands(t, h), ~Evaluating!DistortsInstants(t.value)
    PROVE  LET r == Evaluating!Assigned(Evaluating!Eval(t.value, h))
               later == Evaluating!Eval(t.value, Evaluating!Later(h))
           IN  \/ "fault" \in {r.is, later.is}
               \/ later.n =
                    r.n + (IF Evaluating!Base(Fields[t.target].type) = "DateTime" THEN 1 ELSE 0)
<1> DEFINE e == Evaluating!Eval(t.value, h)
           later == Evaluating!Eval(t.value, Evaluating!Later(h))
           d == Evaluating!ValueDimension(t.value, FALSE)
<1>1. /\ t.value \in Evaluating!Expressions /\ Evaluating!RefsOf(t.value) \subseteq DOMAIN h
      /\ Fits(h, Evaluating!RefsOf(t.value)) /\ d \in Dims
      /\ d = "instant" <=> Evaluating!Base(Fields[t.target].type) = "DateTime"
  BY SetFacts
<1>2. Sound(e, d)
  BY <1>1, EvalSound
<1>3. Moved(e, later, d)
  BY <1>1, EvalMoved
<1> HIDE DEF e, later, d
<1>4. CASE e.is = "absent"
  BY <1>4, FaultIs DEF Evaluating!Assigned, e
<1>5. CASE e.is # "absent"
  <2>1. Evaluating!Assigned(e) = e
    BY <1>5 DEF Evaluating!Assigned
  <2>2. \/ "fault" \in {e.is, later.is}
        \/ later.n = e.n + (IF d = "instant" THEN 1 ELSE 0)
    BY <1>2, <1>3, <1>5 DEF Sound, Moved
  <2> QED
    BY <1>1, <2>1, <2>2 DEF e, later
<1> QED
  BY <1>4, <1>5

-----------------------------------------------------------------------------
(* The evaluation of one text.                                               *)

(* The text stays; what was accepted of it decided or wrote what it says of *)
(* the values held.                                                         *)
AggregateOver(t, rows) ==
    /\ rows \in Rowsets
    /\ \A i \in DOMAIN rows :
          rows[i] \in IF t.field = "none" THEN {Evaluating!Absent} ELSE ValuesOf[t.field]

Came(t, h, came) ==
    /\ t.kind \in {"compare", "set"} => h \in Evaluating!Holdings(Evaluating!RefsIn(t))
    /\ t.kind = "compare" => came = Evaluating!Holds(t, h)
    /\ t.kind = "test" => came = Evaluating!TestHolds(t, h)
    /\ t.kind = "set" => /\ t.under # "nothing" => h[t.under].is # "absent"
                         /\ came = Evaluating!Assigned(Evaluating!Eval(t.value, h))
    /\ t.kind = "aggregate" => /\ AggregateOver(t, h)
                               /\ came = Evaluating!Assigned(Evaluating!Aggregate(t, h))

ValueInv ==
    /\ text \in Texts
    /\ lowered = "pending" => outcome = Evaluating!NotRun
    /\ lowered = "accepted" => Evaluating!Accepted(text)
    /\ Evaluating!Ran => Came(text, holding, outcome)

LEMMA ValueInit == Evaluating!Init => ValueInv
BY DEF Evaluating!Init, ValueInv, Evaluating!Ran

LEMMA ValueStutters == ValueInv /\ UNCHANGED valueVars => ValueInv'
BY DEF ValueInv, valueVars, Evaluating!Ran

LEMMA ValueStep == ValueInv /\ Evaluating!Next => ValueInv'
<1> SUFFICES ASSUME ValueInv, Evaluating!Next PROVE ValueInv'
  OBVIOUS
<1>1. CASE Evaluating!Lower
  BY <1>1 DEF ValueInv, Evaluating!Lower, Evaluating!Ran
<1>2. ASSUME lowered = "accepted", UNCHANGED <<text, lowered>>, Came(text, holding', outcome')
      PROVE  ValueInv'
  BY <1>2 DEF ValueInv
<1>3. CASE Evaluating!Decide
  <2>1. Came(text, holding', outcome')
    BY <1>3 DEF Evaluating!Decide, Came
  <2> QED
    BY <1>2, <1>3, <2>1 DEF Evaluating!Decide
<1>4. CASE Evaluating!Assign
  <2>1. Came(text, holding', outcome')
    BY <1>4 DEF Evaluating!Assign, Came
  <2> QED
    BY <1>2, <1>4, <2>1 DEF Evaluating!Assign
<1>5. CASE Evaluating!AssignAggregate
  <2>1. Came(text, holding', outcome')
    BY <1>5 DEF Evaluating!AssignAggregate, Came, AggregateOver
  <2> QED
    BY <1>2, <1>5, <2>1 DEF Evaluating!AssignAggregate
<1>6. CASE Evaluating!Done
  BY <1>6, ValueStutters DEF Evaluating!Done, Evaluating!valueVars, valueVars
<1> QED
  BY <1>1, <1>3, <1>4, <1>5, <1>6 DEF Evaluating!Next

LEMMA ValueInvGives == ValueInv => CompiledAgrees
<1> SUFFICES ASSUME ValueInv, Evaluating!Ran, Evaluating!Compilable(text),
                    outcome.is = "verdict",
                    \A n \in Evaluating!RefsIn(text) : Evaluating!Carried(holding[n]),
                    NEW negate \in BOOLEAN
             PROVE  Evaluating!CompiledHolds(text, negate, holding) = ((outcome.n = 1) # negate)
  BY DEF CompiledAgrees, Evaluating!CompiledAgrees
<1>1. text \in Texts /\ text.kind = "compare"
  BY DEF ValueInv, Evaluating!Compilable
<1>2. /\ outcome = Evaluating!Holds(text, holding)
      /\ holding \in Evaluating!Holdings(Evaluating!RefsIn(text))
  BY <1>1 DEF ValueInv, Came
<1>3. AllCarried(holding, Evaluating!RefsIn(text))
  BY <1>1, <1>2, RefsAreNames, ValueFacts DEF AllCarried, Evaluating!Holdings
<1>4. /\ \A c \in Evaluating!TermsOf(text) :
            /\ Evaluating!CompiledValue(c.left, holding) \in Int
            /\ Evaluating!CompiledValue(c.right, holding) \in Int
      /\ outcome.n = 1 <=> \A c \in Evaluating!TermsOf(text) : CompiledTerm(c, holding)
  BY <1>1, <1>2, <1>3, HoldsAgrees
<1>5. Evaluating!CompiledHolds(text, negate, holding) =
        ((\A c \in Evaluating!TermsOf(text) : CompiledTerm(c, holding)) # negate)
  BY <1>1, <1>4, CompiledDecides
<1> QED
  BY <1>4, <1>5

LEMMA AggregateCame ==
    ASSUME NEW t \in Texts, t.kind = "aggregate", Evaluating!Accepted(t), NEW h, AggregateOver(t, h)
    PROVE  LET r == Evaluating!Assigned(Evaluating!Aggregate(t, h))
           IN  r.is = "fault" => r.tag \in AggregateFaults
<1>1. AggregateStands(t, h)
  BY ExecutionAssumption
     DEF AggregateOver, AggregateStands, Evaluating!ValuesAssumption
<1> QED
  BY <1>1, AggregateSound DEF Evaluating!Assigned, Reduced

LEMMA DimensionsFollow == ValueInv => DimensionsAreSound
<1> SUFFICES ASSUME ValueInv, Evaluating!Ran, Evaluating!Undeclared = {}
             PROVE  Evaluating!FaultsAreForeseen /\ Evaluating!EpochDoesNotMatter
  BY DEF DimensionsAreSound, Evaluating!DimensionsAreSound, Evaluating!FaultsAreForeseen,
         Evaluating!EpochDoesNotMatter
<1> DEFINE refs == Evaluating!RefsIn(text)
<1>1. /\ text \in Texts /\ Evaluating!Accepted(text) /\ refs \subseteq DOMAIN Fields
      /\ Came(text, holding, outcome)
  BY DEF ValueInv, Evaluating!Ran, Evaluating!Undeclared
<1>2. CASE text.kind = "compare"
  <2>1. /\ holding \in Evaluating!Holdings(refs) /\ outcome = Evaluating!Holds(text, holding)
    BY <1>1, <1>2 DEF Came
  <2>2. GuardStands(text, holding) /\ refs \subseteq DOMAIN holding
    BY <1>1, <1>2, <2>1 DEF GuardStands, Fits, Evaluating!Holdings
  <2>3. outcome.is = "fault" => outcome.tag \in Evaluating!ValueFaults
    BY <2>1, <2>2, FaultOfGuard
  <2>4. Evaluating!FaultsAreForeseen
    BY <2>3 DEF Evaluating!FaultsAreForeseen
  <2>5. ~(\E c \in Evaluating!TermsOf(text) : \/ Evaluating!DistortsInstants(c.left)
                                            \/ Evaluating!DistortsInstants(c.right)) =>
          \/ "fault" \in {outcome.is, Evaluating!Holds(text, Evaluating!Later(holding)).is}
          \/ Evaluating!Holds(text, Evaluating!Later(holding)) = outcome
    BY <2>1, <2>2, HoldsMoved
  <2>6. Evaluating!EpochDoesNotMatter
    BY <1>2, <2>5 DEF Evaluating!EpochDoesNotMatter
  <2> QED
    BY <2>4, <2>6
<1>3. CASE text.kind = "test"
  <2>1. outcome.is = "verdict"
    <3>1. outcome = Evaluating!TestHolds(text, holding)
      BY <1>1, <1>3 DEF Came
    <3>2. \E b : Evaluating!TestHolds(text, holding) = Evaluating!Verdict(b)
      BY Zenon DEF Evaluating!TestHolds
    <3> QED
      BY <3>1, <3>2, VerdictShows
  <2> QED
    BY <1>3, <2>1 DEF Evaluating!FaultsAreForeseen, Evaluating!EpochDoesNotMatter
<1>4. CASE text.kind = "set"
  <2>1. /\ holding \in Evaluating!Holdings(refs)
        /\ text.under # "nothing" => holding[text.under].is # "absent"
        /\ outcome = Evaluating!Assigned(Evaluating!Eval(text.value, holding))
    BY <1>1, <1>4 DEF Came
  <2>2. SetStands(text, holding)
    BY <1>1, <1>4, <2>1 DEF SetStands
  <2>3. Evaluating!FaultsAreForeseen
    BY <1>4, <2>1, <2>2, SetForeseen DEF Evaluating!FaultsAreForeseen
  <2>4. Evaluating!EpochDoesNotMatter
    BY <1>4, <2>1, <2>2, SetMoved DEF Evaluating!EpochDoesNotMatter
  <2> QED
    BY <2>3, <2>4
<1>5. CASE text.kind = "aggregate"
  <2>1. /\ AggregateOver(text, holding)
        /\ outcome = Evaluating!Assigned(Evaluating!Aggregate(text, holding))
    BY <1>1, <1>5 DEF Came
  <2>2. outcome.is = "fault" => outcome.tag \in AggregateFaults
    BY <1>1, <1>5, <2>1, AggregateCame
  <2> QED
    BY <1>5, <2>2 DEF AggregateFaults, Evaluating!FaultsAreForeseen, Evaluating!EpochDoesNotMatter
<1> QED
  BY <1>1, <1>2, <1>3, <1>4, <1>5, TextFacts

(* Whenever mode A decides a guard that mode B compiles, and every name of it *)
(* holds what the i64 channel carries, the instructions decide it alike, as  *)
(* the guard or, negated, as the condition of an `until` (backend.py,        *)
(* _emit_condition; interp.py, _condition_holds): for every guard of the     *)
(* grammar over any declared names, and any width of the integers.           *)
THEOREM CompiledGuardsDecideAlike == MCSpec => []CompiledAgrees
<1>1. MCInit => ValueInv
  BY ValueInit DEF MCInit
<1>2. ValueInv /\ [MCNext]_allVars => ValueInv'
  BY ValueStep, ValueStutters DEF MCNext, BlockNext, LoopNext, CacheNext, ValueNext, StoreNext, allVars
<1> QED
  BY <1>1, <1>2, ValueInvGives, PTL DEF MCSpec

(* An accepted guard, assignment or aggregate over declared names fails, on   *)
(* rows of the declared types, for a value alone, or was warned about, or    *)
(* reads the input; and it means the same wherever the epoch is (lower.py,   *)
(* _value_dimension and the checks that use it; interp.py, eval_value): for  *)
(* every text of the grammar, any fields and any such rows.                  *)
THEOREM DimensionsStaySound == MCSpec => []DimensionsAreSound
<1>1. MCInit => ValueInv
  BY ValueInit DEF MCInit
<1>2. ValueInv /\ [MCNext]_allVars => ValueInv'
  BY ValueStep, ValueStutters DEF MCNext, BlockNext, LoopNext, CacheNext, ValueNext, StoreNext, allVars
<1> QED
  BY <1>1, <1>2, DimensionsFollow, PTL DEF MCSpec

-----------------------------------------------------------------------------
(* The runs that share a store, as MCExecution instantiates them, and as the *)
(* theorems of SqliteRepositoryProofs know them.                             *)

StoreProved == INSTANCE SqliteRepositoryProofs WITH
                  Runs <- StoreRuns, NoRow <- AbsentRow, rows <- storeRows,
                  pc <- runPc, bound <- rowObject, made <- created, left <- unspent

(* What a statement sees and when it may write.                              *)
LEMMA SameStatements ==
  /\ \A r : Repo!SeenRows(r) = StoreProved!SeenRows(r)
  /\ \A r : Repo!SeenOutbox(r) = StoreProved!SeenOutbox(r)
  /\ \A r : Repo!SelectStatement(r) <=> StoreProved!SelectStatement(r)
  /\ \A r, nr, no : Repo!WriteStatement(r, nr, no) <=> StoreProved!WriteStatement(r, nr, no)
  /\ \A r : Repo!WriteRefused(r) <=> StoreProved!WriteRefused(r)
BY DEF Repo!InView, StoreProved!InView, Repo!SeenRows, StoreProved!SeenRows,
   Repo!SeenOutbox, StoreProved!SeenOutbox, Repo!CanWrite, StoreProved!CanWrite,
   Repo!SelectStatement, StoreProved!SelectStatement, Repo!WriteStatement,
   StoreProved!WriteStatement, Repo!WriteRefused, StoreProved!WriteRefused, Repo!conn,
   StoreProved!conn

(* How an effect ends.                                                       *)
LEMMA SameOutcomes ==
  /\ \A r, op : Repo!Executes(r, op) <=> StoreProved!Executes(r, op)
  /\ \A r, op, k : Repo!Completes(r, op, k) <=> StoreProved!Completes(r, op, k)
  /\ \A r, op, k : Repo!Raises(r, op, k) <=> StoreProved!Raises(r, op, k)
  /\ \A r : Repo!RaisesForGood(r) <=> StoreProved!RaisesForGood(r)
BY DEF Repo!Executes, StoreProved!Executes, Repo!Completes, StoreProved!Completes,
   Repo!Raises, StoreProved!Raises, Repo!RaisesForGood, StoreProved!RaisesForGood

(* Each effect of a run is the same step.                                    *)
LEMMA SameEffects ==
  ASSUME NEW r, NEW k
  PROVE  Repo!KeyStep(r, k) => StoreProved!KeyStep(r, k)
<1>1. Repo!Read(r, k) => StoreProved!Read(r, k)
  BY SameStatements, SameOutcomes DEF Repo!Read, StoreProved!Read, Repo!store,
     StoreProved!store, Repo!audit, StoreProved!audit
<1>2. Repo!SetExecutes(r, k) => StoreProved!SetExecutes(r, k)
  BY SameOutcomes DEF Repo!SetExecutes, StoreProved!SetExecutes, Repo!store,
     StoreProved!store
<1>3. /\ Repo!VersionMatches(r, k) <=> StoreProved!VersionMatches(r, k)
      /\ Repo!Assigned(r, k) = StoreProved!Assigned(r, k)
  BY SameStatements DEF Repo!VersionMatches, StoreProved!VersionMatches, Repo!Assigned,
     StoreProved!Assigned
<1>4. Repo!SetLands(r, k) => StoreProved!SetLands(r, k)
  BY <1>2, <1>3, SameStatements, SameOutcomes DEF Repo!SetLands, StoreProved!SetLands
<1>5. Repo!SetConflicts(r, k) => StoreProved!SetConflicts(r, k)
  BY <1>2, <1>3, SameStatements, SameOutcomes DEF Repo!SetConflicts,
     StoreProved!SetConflicts
<1>6. Repo!SetRefused(r, k) => StoreProved!SetRefused(r, k)
  BY <1>2, <1>3, SameStatements, SameOutcomes DEF Repo!SetRefused, StoreProved!SetRefused
<1>7. Repo!SetCreated(r, k) => StoreProved!SetCreated(r, k)
  BY SameStatements, SameOutcomes DEF Repo!SetCreated, StoreProved!SetCreated, Repo!store,
     StoreProved!store, Repo!audit, StoreProved!audit
<1>8. Repo!CreateExecutes(r) => StoreProved!CreateExecutes(r)
  BY SameOutcomes DEF Repo!CreateExecutes, StoreProved!CreateExecutes, Repo!store,
     StoreProved!store, Repo!audit, StoreProved!audit
<1>9. Repo!CreateLands(r, k) => StoreProved!CreateLands(r, k)
  BY <1>8, SameStatements, SameOutcomes DEF Repo!CreateLands, StoreProved!CreateLands
<1>10. Repo!CreateConflicts(r, k) => StoreProved!CreateConflicts(r, k)
  BY <1>8, SameStatements, SameOutcomes DEF Repo!CreateConflicts,
     StoreProved!CreateConflicts
<1>11. Repo!CreateRefused(r, k) => StoreProved!CreateRefused(r, k)
  BY <1>8, SameStatements, SameOutcomes DEF Repo!CreateRefused, StoreProved!CreateRefused
<1>12. Repo!TouchRead(r, k) => StoreProved!TouchRead(r, k)
  BY SameStatements, SameOutcomes DEF Repo!TouchRead, StoreProved!TouchRead, Repo!store,
     StoreProved!store, Repo!audit, StoreProved!audit
<1>13. Repo!DeleteExecutes(r, k) => StoreProved!DeleteExecutes(r, k)
  BY SameOutcomes DEF Repo!DeleteExecutes, StoreProved!DeleteExecutes, Repo!store,
     StoreProved!store
<1>14. Repo!DeleteLands(r, k) => StoreProved!DeleteLands(r, k)
  BY <1>13, SameStatements, SameOutcomes DEF Repo!DeleteLands, StoreProved!DeleteLands
<1>15. Repo!DeleteMissing(r, k) => StoreProved!DeleteMissing(r, k)
  BY <1>13, SameStatements, SameOutcomes DEF Repo!DeleteMissing, StoreProved!DeleteMissing
<1>16. Repo!DeleteRefused(r, k) => StoreProved!DeleteRefused(r, k)
  BY <1>13, SameStatements, SameOutcomes DEF Repo!DeleteRefused, StoreProved!DeleteRefused
<1> QED
  BY <1>1, <1>4, <1>5, <1>6, <1>7, <1>9, <1>10, <1>11, <1>12, <1>14, <1>15, <1>16
     DEF Repo!KeyStep, StoreProved!KeyStep

(* So is everything else a run does.                                         *)
LEMMA SameEnds ==
  ASSUME NEW r
  PROVE  Repo!RunStep(r) => StoreProved!RunStep(r)
<1>1. /\ Repo!Begin(r) => StoreProved!Begin(r)
      /\ Repo!RetryStep(r) => StoreProved!RetryStep(r)
  BY DEF Repo!Begin, StoreProved!Begin, Repo!RetryStep, StoreProved!RetryStep, Repo!store,
     StoreProved!store, Repo!conn, StoreProved!conn, Repo!audit, StoreProved!audit
<1>2. Repo!Query(r) => StoreProved!Query(r)
  BY SameStatements, SameOutcomes DEF Repo!Query, StoreProved!Query, Repo!store,
     StoreProved!store, Repo!audit, StoreProved!audit
<1>3. Repo!Touching(r) => StoreProved!Touching(r)
  BY DEF Repo!Touching, StoreProved!Touching, Repo!store, StoreProved!store, Repo!audit,
     StoreProved!audit
<1>4. Repo!TouchLands(r) => StoreProved!TouchLands(r)
  BY <1>3, SameStatements, SameOutcomes DEF Repo!TouchLands, StoreProved!TouchLands,
     Repo!TouchedBy, StoreProved!TouchedBy
<1>5. Repo!TouchMissing(r) => StoreProved!TouchMissing(r)
  BY <1>3, SameStatements, SameOutcomes DEF Repo!TouchMissing, StoreProved!TouchMissing
<1>6. Repo!TouchRefused(r) => StoreProved!TouchRefused(r)
  BY <1>3, SameStatements, SameOutcomes DEF Repo!TouchRefused, StoreProved!TouchRefused
<1>7. Repo!EmitExecutes(r) => StoreProved!EmitExecutes(r)
  BY SameOutcomes DEF Repo!EmitExecutes, StoreProved!EmitExecutes, Repo!store,
     StoreProved!store
<1>8. Repo!EmitLands(r) => StoreProved!EmitLands(r)
  BY <1>7, SameStatements DEF Repo!EmitLands, StoreProved!EmitLands
<1>9. Repo!EmitRefused(r) => StoreProved!EmitRefused(r)
  BY <1>7, SameStatements, SameOutcomes DEF Repo!EmitRefused, StoreProved!EmitRefused
<1>10. \A o : Repo!EndRun(r, o) <=> StoreProved!EndRun(r, o)
  BY DEF Repo!EndRun, StoreProved!EndRun, Repo!NoView, StoreProved!NoView
<1>11. Repo!Commit(r) => StoreProved!Commit(r)
  BY <1>10 DEF Repo!Commit, StoreProved!Commit, Repo!store, StoreProved!store
<1>12. Repo!Rollback(r) => StoreProved!Rollback(r)
  BY <1>10 DEF Repo!Rollback, StoreProved!Rollback, Repo!store, StoreProved!store,
     Repo!Running, StoreProved!Running
<1>13. Repo!Crash(r) => StoreProved!Crash(r)
  BY <1>10 DEF Repo!Crash, StoreProved!Crash, Repo!store, StoreProved!store,
     Repo!Running, StoreProved!Running
<1> QED
  BY <1>1, <1>2, <1>4, <1>5, <1>6, <1>8, <1>9, <1>11, <1>12, <1>13
     DEF Repo!RunStep, StoreProved!RunStep

(* The part of a behaviour that concerns the store is a behaviour of it.     *)
LEMMA StoreBehaves == MCSpec => StoreProved!Spec
<1>1. MCInit => StoreProved!Init
  BY DEF MCInit, Repo!Init, StoreProved!Init, Repo!NoView, StoreProved!NoView
<1>2. [MCNext]_allVars => [StoreProved!Next]_(StoreProved!vars)
  <2>0. UNCHANGED storeVars => UNCHANGED StoreProved!vars
    BY DEF storeVars, StoreProved!vars, StoreProved!store, StoreProved!conn,
       StoreProved!audit
  <2>1. CASE StoreNext
    <3>1. CASE \E r \in StoreRuns : Repo!RunStep(r)
      BY <3>1, SameEnds DEF StoreProved!Next
    <3>2. CASE \E r \in StoreRuns : \E k \in Keys : Repo!KeyStep(r, k)
      BY <3>2, SameEffects DEF StoreProved!Next
    <3>3. CASE Repo!AllEnded
      BY <3>3 DEF Repo!AllEnded, Repo!vars, Repo!store, Repo!conn, Repo!audit,
         StoreProved!vars, StoreProved!store, StoreProved!conn, StoreProved!audit
    <3> QED
      BY <2>1, <3>1, <3>2, <3>3 DEF StoreNext, Repo!Next
  <2>2. CASE BlockNext \/ LoopNext \/ CacheNext \/ ValueNext \/ UNCHANGED allVars
    BY <2>0, <2>2 DEF BlockNext, LoopNext, CacheNext, ValueNext, allVars
  <2> QED
    BY <2>1, <2>2 DEF MCNext
<1> QED
  BY <1>1, <1>2, PTL DEF MCSpec, StoreProved!Spec

(* Beside whatever else executes, runs on one database file are atomic steps *)
(* on the rows as they find them, in commit order (begin(), persist() and    *)
(* commit() of drivers.py), unless they update or delete.                    *)
THEOREM StoreKeepsItsLedger ==
  ASSUME Repo!NoRewrites
  PROVE  MCSpec => ImplementsLedger
<1>0. StoreProved!RepositoryAssumption /\ StoreProved!NoRewrites
  BY ExecutionAssumption
     DEF Repo!RepositoryAssumption, StoreProved!RepositoryAssumption, Repo!NoRewrites,
         StoreProved!NoRewrites, Repo!AllOps, StoreProved!AllOps, Repo!Row, StoreProved!Row
<1>1. MCSpec => StoreProved!ImplementsLedger
  BY <1>0, StoreBehaves, StoreProved!StoreImplementsLedger, PTL
<1>2. /\ StoreProved!Stored = Repo!Stored /\ StoreProved!Fate = Repo!Fate
      /\ StoreProved!Stored' = Repo!Stored' /\ StoreProved!Fate' = Repo!Fate'
  BY DEF StoreProved!Stored, Repo!Stored, StoreProved!Fate, Repo!Fate, StoreProved!Ended,
     Repo!Ended
<1>3. StoreProved!Ledger!LedgerInit => Repo!Ledger!LedgerInit
  BY <1>2 DEF StoreProved!Ledger!LedgerInit, Repo!Ledger!LedgerInit
<1>4. [StoreProved!Ledger!LedgerNext]_(StoreProved!Ledger!lvars)
        => [Repo!Ledger!LedgerNext]_(Repo!Ledger!lvars)
  <2>1. \A r, old, new : StoreProved!Ledger!RowAfter(r, old, new)
                           <=> Repo!Ledger!RowAfter(r, old, new)
    BY DEF StoreProved!Ledger!RowAfter, Repo!Ledger!RowAfter
  <2>2. \A r, old, new : StoreProved!Ledger!FeedAfter(r, old, new)
                           <=> Repo!Ledger!FeedAfter(r, old, new)
    BY DEF StoreProved!Ledger!FeedAfter, Repo!Ledger!FeedAfter
  <2> QED
    BY <1>2, <2>1, <2>2
       DEF StoreProved!Ledger!LedgerNext, Repo!Ledger!LedgerNext,
           StoreProved!Ledger!CommitRun, Repo!Ledger!CommitRun,
           StoreProved!Ledger!AbortRun, Repo!Ledger!AbortRun,
           StoreProved!Ledger!lvars, Repo!Ledger!lvars
<1> QED
  BY <1>1, <1>3, <1>4, PTL
     DEF ImplementsLedger, Repo!ImplementsLedger, StoreProved!ImplementsLedger,
         Repo!Ledger!LedgerSpec, StoreProved!Ledger!LedgerSpec
=============================================================================
