--------------------------- MODULE InboundProofs ----------------------------
(***************************************************************************)
(* Theorems about the two ends of the HTTP surface that MCInbound composes: *)
(* the shell that admits, rates and drains requests, for any number of     *)
(* requests of any kind, any rate and any grace time; the service that     *)
(* reloads its rotating keys; the sessions and tool slots of MCP over HTTP; *)
(* and a request made under If-Match.                                      *)
(***************************************************************************)
EXTENDS MCInbound, FiniteSetTheorems, SequenceTheorems, Integers, TLAPS

-----------------------------------------------------------------------------
(* The shell: what is counted                                               *)

(* The requests whose increment of `_inflight` has not been undone.         *)
Held == Counted \cup {"leaked"}
Holders == {r \in Requests : pc[r] \in Held}

(* They are the requests in flight and the leaked streams.                  *)
LEMMA HoldersAre == Holders = InFlight \cup Leaked /\ Holders' = InFlight' \cup Leaked'
BY DEF Holders, Held, InFlight, Leaked

Shape ==
  /\ pc \in [Requests -> Places]
  /\ \A r \in Requests : profile[r] \in Profile
  /\ status \in [Requests -> Nat]
  /\ finalized \in [Requests -> Nat]
  /\ lines \in [Requests -> Nat]
  /\ DOMAIN retryAfter = Requests

(* The flag is raised before the drain thread is started.                   *)
FlagFirst == drain # "none" => shuttingDown

(* What has been recorded of a request, by where its thread is.             *)
LinesOf(r) == IF Dispatched(r) THEN 1 ELSE 0

Books(r) ==
  /\ pc[r] \in {"out", "called", "admitted", "limited", "routed", "running",
                "opened", "streaming"} => lines[r] = 0 /\ finalized[r] = 0
  /\ pc[r] \in {"out", "called", "admitted", "routed", "running"} =>
       status[r] = NoStatus /\ retryAfter[r] = NotLimited
  /\ pc[r] \in {"admitted", "limited"} => ~ IsOps(r)
  /\ pc[r] = "limited" => retryAfter[r] # NotLimited
  /\ pc[r] \in {"opened", "streaming", "leaving", "exhausted"} => Dispatched(r)
  /\ pc[r] \in {"leaving", "exhausted"} => lines[r] = 1
  /\ pc[r] \in {"leaving", "finalizing"} => finalized[r] = 0
  /\ pc[r] \in {"exhausted", "returned", "served"} => finalized[r] = 1
  /\ pc[r] \in {"finalizing", "returned", "served"} => lines[r] = LinesOf(r)

BooksKept == \A r \in Requests : Books(r)

ShellInv == Shape /\ FlagFirst /\ DrainIsExact /\ BooksKept

-----------------------------------------------------------------------------
(* Counting.                                                                *)

(* The count follows one thread's move into, out of or past the counted    *)
(* places.                                                                  *)
LEMMA MoveCounts ==
  ASSUME Shape, NEW r \in Requests, NEW to \in Places,
         pc' = [pc EXCEPT ![r] = to]
  PROVE  /\ Cardinality(Holders) \in Nat
         /\ Cardinality(Holders') =
              IF to \in Held
              THEN IF pc[r] \in Held THEN Cardinality(Holders)
                                     ELSE Cardinality(Holders) + 1
              ELSE IF pc[r] \in Held THEN Cardinality(Holders) - 1
                                     ELSE Cardinality(Holders)
<1>1. IsFiniteSet(Holders)
  BY ShellAssumption, FS_Subset DEF Holders
<1>2. Cardinality(Holders) \in Nat
  BY <1>1, FS_CardinalityType
<1>3. CASE to \in Held
  <2>1. Holders' = Holders \cup {r}
    BY <1>3 DEF Shape, Holders
  <2>2. r \in Holders <=> pc[r] \in Held
    BY DEF Holders
  <2> QED
    BY <1>1, <1>2, <1>3, <2>1, <2>2, FS_AddElement
<1>4. CASE to \notin Held
  <2>1. Holders' = Holders \ {r}
    BY <1>4 DEF Shape, Holders
  <2>2. r \in Holders <=> pc[r] \in Held
    BY DEF Holders
  <2> QED
    BY <1>1, <1>2, <1>4, <2>1, <2>2, FS_RemoveElement
<1> QED
  BY <1>2, <1>3, <1>4

(* A step of the thread of r keeps the invariant when it keeps r's books,   *)
(* moves the count as it moves r, and lets r past the gate only while the   *)
(* flag is down.                                                            *)
LEMMA MoveKeeps ==
  ASSUME ShellInv, NEW r \in Requests, NEW to \in Places,
         pc' = [pc EXCEPT ![r] = to],
         UNCHANGED <<profile, shuttingDown, drain>>,
         status' \in [Requests -> Nat],
         finalized' \in [Requests -> Nat],
         lines' \in [Requests -> Nat],
         DOMAIN retryAfter' = Requests,
         \A q \in Requests \ {r} :
            /\ status'[q] = status[q] /\ retryAfter'[q] = retryAfter[q]
            /\ finalized'[q] = finalized[q] /\ lines'[q] = lines[q],
         inflight' = IF to \in Held
                     THEN IF pc[r] \in Held THEN inflight ELSE inflight + 1
                     ELSE IF pc[r] \in Held THEN inflight - 1 ELSE inflight,
         to \in Counted => pc[r] \in Counted \/ IsOps(r) \/ ~ shuttingDown,
         Books(r)'
  PROVE  ShellInv'
<1>1. Shape' /\ FlagFirst'
  BY DEF ShellInv, Shape, FlagFirst
<1>2. InflightExact'
  <2> SUFFICES ASSUME drain # "stopped"
               PROVE  inflight' = Cardinality(Holders')
    BY HoldersAre DEF InflightExact
  <2>1. inflight = Cardinality(Holders)
    BY HoldersAre DEF ShellInv, DrainIsExact, InflightExact
  <2> QED
    BY <2>1, MoveCounts DEF ShellInv
<1>3. DrainLosesNothing'
  <2> SUFFICES ASSUME drain = "drained", NEW q \in Requests, ~ IsOps(q)
               PROVE  pc'[q] \notin Counted
    BY DEF DrainLosesNothing, IsOps
  <2>1. pc[q] \notin Counted /\ shuttingDown
    BY DEF ShellInv, DrainIsExact, DrainLosesNothing, FlagFirst
  <2> QED
    BY <2>1 DEF ShellInv, Shape
<1>4. BooksKept'
  <2> SUFFICES ASSUME NEW q \in Requests \ {r} PROVE Books(q)'
    BY DEF BooksKept
  <2>1. Books(q) /\ pc'[q] = pc[q]
    BY DEF ShellInv, BooksKept, Shape
  <2> QED
    BY <2>1 DEF Books, LinesOf, Dispatched, IsOps
<1> QED
  BY <1>1, <1>2, <1>3, <1>4 DEF ShellInv, DrainIsExact

-----------------------------------------------------------------------------
(* The steps.                                                               *)

(* A refused request is told to wait for at least a second.                 *)
LEMMA RetryIsLater ==
  ASSUME NEW at, NEW held
  PROVE  [at |-> at, seconds |-> RetrySeconds(held)] # NotLimited
<1>1. RetrySeconds(held) # 0
  BY DEF RetrySeconds
<1> QED
  BY <1>1 DEF NotLimited

(* No check of the routing answers what the shutdown gate answers.          *)
LEMMA VerdictIs ==
  ASSUME NEW q \in Profile
  PROVE  Verdict(q) \in {200, 400, 401, 403, 404, 405, 413}
BY DEF Verdict, AuthStatus, BodyStatus, Profile

(* The gates.                                                               *)
LEMMA GateKeeps ==
  ASSUME ShellInv, NEW r \in Requests,
         \/ Arrive(r) \/ AdmitOps(r) \/ Admit(r) \/ TurnAway(r)
         \/ Acquire(r) \/ Limit(r) \/ Limited(r)
  PROVE  ShellInv'
<1>0. Shape /\ Books(r) /\ pc \in [Requests -> Places]
  BY DEF ShellInv, BooksKept, Shape
<1>1. CASE Arrive(r)
  <2>1. /\ pc[r] = "out" /\ pc' = [pc EXCEPT ![r] = "called"]
        /\ UNCHANGED <<profile, shuttingDown, drain, status, retryAfter,
                        finalized, lines, inflight>>
    BY <1>1 DEF Arrive, Goes, bucketVars
  <2>2. pc'[r] = "called"
    BY <1>0, <2>1
  <2>3. Books(r)'
    BY <1>0, <2>1, <2>2
       DEF Shape, Books, LinesOf, Dispatched, IsOps, NoStatus
  <2> QED
    BY <1>0, <2>1, <2>3, MoveKeeps DEF Shape, Places, Counted, Held
<1>2. CASE AdmitOps(r)
  <2>1. /\ pc[r] = "called" /\ pc' = [pc EXCEPT ![r] = "routed"]
        /\ IsOps(r)
        /\ inflight' = inflight + 1
        /\ UNCHANGED <<profile, shuttingDown, drain, status, retryAfter,
                        finalized, lines>>
    BY <1>2 DEF AdmitOps, Goes, bucketVars
  <2>2. pc'[r] = "routed"
    BY <1>0, <2>1
  <2>3. Books(r)'
    BY <1>0, <2>1, <2>2
       DEF Shape, Books, LinesOf, Dispatched, IsOps, NoStatus
  <2> QED
    BY <1>0, <2>1, <2>3, MoveKeeps DEF Shape, Places, Counted, Held
<1>3. CASE Admit(r)
  <2>1. /\ pc[r] = "called" /\ pc' = [pc EXCEPT ![r] = "admitted"]
        /\ ~ IsOps(r) /\ ~ shuttingDown
        /\ inflight' = inflight + 1
        /\ UNCHANGED <<profile, shuttingDown, drain, status, retryAfter,
                        finalized, lines>>
    BY <1>3 DEF Admit, Goes, bucketVars
  <2>2. pc'[r] = "admitted"
    BY <1>0, <2>1
  <2>3. Books(r)'
    BY <1>0, <2>1, <2>2
       DEF Shape, Books, LinesOf, Dispatched, IsOps, NoStatus
  <2> QED
    BY <1>0, <2>1, <2>3, MoveKeeps DEF Shape, Places, Counted, Held
<1>4. CASE TurnAway(r)
  <2>1. /\ pc[r] = "called" /\ pc' = [pc EXCEPT ![r] = "finalizing"]
        /\ status' = [status EXCEPT ![r] = 503]
        /\ ~ IsOps(r)
        /\ UNCHANGED <<profile, shuttingDown, drain, retryAfter, finalized,
                        lines, inflight>>
    BY <1>4 DEF TurnAway, Goes, bucketVars, Answers
  <2>2. pc'[r] = "finalizing"
    BY <1>0, <2>1
  <2>3. Books(r)'
    BY <1>0, <2>1, <2>2
       DEF Shape, Books, LinesOf, Dispatched, IsOps, NoStatus
  <2>4. /\ status' \in [Requests -> Nat]
        /\ finalized' \in [Requests -> Nat]
        /\ lines' \in [Requests -> Nat]
        /\ DOMAIN retryAfter' = Requests
    BY <1>0, <2>1 DEF Shape
  <2>5. \A q \in Requests \ {r} :
           /\ status'[q] = status[q] /\ retryAfter'[q] = retryAfter[q]
           /\ finalized'[q] = finalized[q] /\ lines'[q] = lines[q]
    BY <1>0, <2>1 DEF Shape
  <2> QED
    BY <2>1, <2>3, <2>4, <2>5, MoveKeeps DEF Places, Counted, Held
<1>5. CASE Acquire(r)
  <2>1. /\ pc[r] = "admitted" /\ pc' = [pc EXCEPT ![r] = "routed"]
        /\ UNCHANGED <<profile, shuttingDown, drain, status, retryAfter,
                        finalized, lines, inflight>>
    BY <1>5 DEF Acquire, Goes, bucketVars
  <2>2. pc'[r] = "routed"
    BY <1>0, <2>1
  <2>3. Books(r)'
    BY <1>0, <2>1, <2>2
       DEF Shape, Books, LinesOf, Dispatched, IsOps, NoStatus
  <2> QED
    BY <1>0, <2>1, <2>3, MoveKeeps DEF Shape, Places, Counted, Held
<1>6. CASE Limit(r)
  <2>1. /\ pc[r] = "admitted" /\ pc' = [pc EXCEPT ![r] = "limited"]
        /\ retryAfter' = [retryAfter EXCEPT ![r] = [at |-> clock, seconds |-> RetrySeconds(Refilled)]]
        /\ UNCHANGED <<profile, shuttingDown, drain, status, finalized,
                        lines, inflight>>
    BY <1>6 DEF Limit, Goes, bucketVars
  <2>2. pc'[r] = "limited"
    BY <1>0, <2>1
  <2>3. Books(r)'
    BY <1>0, <2>1, <2>2, RetryIsLater
       DEF Shape, Books, LinesOf, Dispatched, IsOps, NoStatus
  <2>4. /\ status' \in [Requests -> Nat]
        /\ finalized' \in [Requests -> Nat]
        /\ lines' \in [Requests -> Nat]
        /\ DOMAIN retryAfter' = Requests
    BY <1>0, <2>1 DEF Shape
  <2>5. \A q \in Requests \ {r} :
           /\ status'[q] = status[q] /\ retryAfter'[q] = retryAfter[q]
           /\ finalized'[q] = finalized[q] /\ lines'[q] = lines[q]
    BY <1>0, <2>1 DEF Shape
  <2> QED
    BY <2>1, <2>3, <2>4, <2>5, MoveKeeps DEF Places, Counted, Held
<1>7. CASE Limited(r)
  <2>1. /\ pc[r] = "limited" /\ pc' = [pc EXCEPT ![r] = "finalizing"]
        /\ status' = [status EXCEPT ![r] = 429]
        /\ inflight' = inflight - 1
        /\ UNCHANGED <<profile, shuttingDown, drain, retryAfter, finalized,
                        lines>>
    BY <1>7 DEF Limited, Goes, bucketVars, Answers
  <2>2. pc'[r] = "finalizing"
    BY <1>0, <2>1
  <2>3. Books(r)'
    BY <1>0, <2>1, <2>2
       DEF Shape, Books, LinesOf, Dispatched, IsOps, NoStatus
  <2>4. /\ status' \in [Requests -> Nat]
        /\ finalized' \in [Requests -> Nat]
        /\ lines' \in [Requests -> Nat]
        /\ DOMAIN retryAfter' = Requests
    BY <1>0, <2>1 DEF Shape
  <2>5. \A q \in Requests \ {r} :
           /\ status'[q] = status[q] /\ retryAfter'[q] = retryAfter[q]
           /\ finalized'[q] = finalized[q] /\ lines'[q] = lines[q]
    BY <1>0, <2>1 DEF Shape
  <2> QED
    BY <2>1, <2>3, <2>4, <2>5, MoveKeeps DEF Places, Counted, Held
<1> QED
  BY <1>1, <1>2, <1>3, <1>4, <1>5, <1>6, <1>7

(* Routing and the handlers.                                                *)
LEMMA DispatchKeeps ==
  ASSUME ShellInv, NEW r \in Requests,
         \/ Reject(r) \/ Probe(r) \/ Handle(r) \/ HandlerEnds(r)
         \/ Leave(r) \/ Finalize(r) \/ Serve(r)
  PROVE  ShellInv'
<1>0. Shape /\ Books(r) /\ pc \in [Requests -> Places]
  BY DEF ShellInv, BooksKept, Shape
<1>a. Verdict(profile[r]) \in {200, 400, 401, 403, 404, 405, 413}
  BY <1>0, VerdictIs DEF Shape
<1>1. CASE Reject(r)
  <2>1. /\ pc[r] = "routed" /\ pc' = [pc EXCEPT ![r] = "leaving"]
        /\ status' = [status EXCEPT ![r] = Verdict(profile[r])]
        /\ lines' = [lines EXCEPT ![r] = lines[r] + 1]
        /\ UNCHANGED <<profile, shuttingDown, drain, retryAfter, finalized,
                        inflight>>
    BY <1>1 DEF Reject, Goes, bucketVars, Answers, Logs
  <2>2. pc'[r] = "leaving"
    BY <1>0, <2>1
  <2>3. Books(r)'
    BY <1>0, <2>1, <2>2, <1>a
       DEF Shape, Books, LinesOf, Dispatched, IsOps, NoStatus
  <2>4. /\ status' \in [Requests -> Nat]
        /\ finalized' \in [Requests -> Nat]
        /\ lines' \in [Requests -> Nat]
        /\ DOMAIN retryAfter' = Requests
    BY <1>0, <2>1, <1>a DEF Shape
  <2>5. \A q \in Requests \ {r} :
           /\ status'[q] = status[q] /\ retryAfter'[q] = retryAfter[q]
           /\ finalized'[q] = finalized[q] /\ lines'[q] = lines[q]
    BY <1>0, <2>1 DEF Shape
  <2> QED
    BY <2>1, <2>3, <2>4, <2>5, MoveKeeps DEF Places, Counted, Held
<1>2. CASE Probe(r)
  <2>1. /\ pc[r] = "routed" /\ pc' = [pc EXCEPT ![r] = "leaving"]
        /\ \E code \in {200, 503} : status' = [status EXCEPT ![r] = code]
        /\ lines' = [lines EXCEPT ![r] = lines[r] + 1]
        /\ IsOps(r)
        /\ UNCHANGED <<profile, shuttingDown, drain, retryAfter, finalized,
                        inflight>>
    BY <1>2 DEF Probe, Goes, bucketVars, Answers, Logs
  <2>2. pc'[r] = "leaving"
    BY <1>0, <2>1
  <2>3. Books(r)'
    BY <1>0, <2>1, <2>2
       DEF Shape, Books, LinesOf, Dispatched, IsOps, NoStatus
  <2>4. /\ status' \in [Requests -> Nat]
        /\ finalized' \in [Requests -> Nat]
        /\ lines' \in [Requests -> Nat]
        /\ DOMAIN retryAfter' = Requests
    BY <1>0, <2>1 DEF Shape
  <2>5. \A q \in Requests \ {r} :
           /\ status'[q] = status[q] /\ retryAfter'[q] = retryAfter[q]
           /\ finalized'[q] = finalized[q] /\ lines'[q] = lines[q]
    BY <1>0, <2>1 DEF Shape
  <2> QED
    BY ZenonT(60), <2>1, <2>3, <2>4, <2>5, MoveKeeps DEF Places, Counted, Held
<1>3. CASE Handle(r)
  <2>1. /\ pc[r] = "routed" /\ pc' = [pc EXCEPT ![r] = "running"]
        /\ UNCHANGED <<profile, shuttingDown, drain, status, retryAfter,
                        finalized, lines, inflight>>
    BY <1>3 DEF Handle, Goes, bucketVars
  <2>2. pc'[r] = "running"
    BY <1>0, <2>1
  <2>3. Books(r)'
    BY <1>0, <2>1, <2>2
       DEF Shape, Books, LinesOf, Dispatched, IsOps, NoStatus
  <2> QED
    BY <1>0, <2>1, <2>3, MoveKeeps DEF Shape, Places, Counted, Held
<1>4. CASE HandlerEnds(r)
  <2>1. /\ pc[r] = "running" /\ pc' = [pc EXCEPT ![r] = "leaving"]
        /\ status' = [status EXCEPT ![r] = 200]
        /\ lines' = [lines EXCEPT ![r] = lines[r] + 1]
        /\ UNCHANGED <<profile, shuttingDown, drain, retryAfter, finalized,
                        inflight>>
    BY <1>4 DEF HandlerEnds, Goes, bucketVars, Answers, Logs
  <2>2. pc'[r] = "leaving"
    BY <1>0, <2>1
  <2>3. Books(r)'
    BY <1>0, <2>1, <2>2
       DEF Shape, Books, LinesOf, Dispatched, IsOps, NoStatus
  <2>4. /\ status' \in [Requests -> Nat]
        /\ finalized' \in [Requests -> Nat]
        /\ lines' \in [Requests -> Nat]
        /\ DOMAIN retryAfter' = Requests
    BY <1>0, <2>1 DEF Shape
  <2>5. \A q \in Requests \ {r} :
           /\ status'[q] = status[q] /\ retryAfter'[q] = retryAfter[q]
           /\ finalized'[q] = finalized[q] /\ lines'[q] = lines[q]
    BY <1>0, <2>1 DEF Shape
  <2> QED
    BY <2>1, <2>3, <2>4, <2>5, MoveKeeps DEF Places, Counted, Held
<1>5. CASE Leave(r)
  <2>1. /\ pc[r] = "leaving" /\ pc' = [pc EXCEPT ![r] = "finalizing"]
        /\ inflight' = inflight - 1
        /\ UNCHANGED <<profile, shuttingDown, drain, status, retryAfter,
                        finalized, lines>>
    BY <1>5 DEF Leave, Goes, bucketVars
  <2>2. pc'[r] = "finalizing"
    BY <1>0, <2>1
  <2>3. Books(r)'
    BY <1>0, <2>1, <2>2
       DEF Shape, Books, LinesOf, Dispatched, IsOps, NoStatus
  <2> QED
    BY <1>0, <2>1, <2>3, MoveKeeps DEF Shape, Places, Counted, Held
<1>6. CASE Finalize(r)
  <2>1. /\ pc[r] = "finalizing" /\ pc' = [pc EXCEPT ![r] = "returned"]
        /\ finalized' = [finalized EXCEPT ![r] = finalized[r] + 1]
        /\ UNCHANGED <<profile, shuttingDown, drain, status, retryAfter,
                        lines, inflight>>
    BY <1>6 DEF Finalize, Goes, bucketVars
  <2>2. pc'[r] = "returned"
    BY <1>0, <2>1
  <2>3. Books(r)'
    BY <1>0, <2>1, <2>2
       DEF Shape, Books, LinesOf, Dispatched, IsOps, NoStatus
  <2>4. /\ status' \in [Requests -> Nat]
        /\ finalized' \in [Requests -> Nat]
        /\ lines' \in [Requests -> Nat]
        /\ DOMAIN retryAfter' = Requests
    BY <1>0, <2>1 DEF Shape
  <2>5. \A q \in Requests \ {r} :
           /\ status'[q] = status[q] /\ retryAfter'[q] = retryAfter[q]
           /\ finalized'[q] = finalized[q] /\ lines'[q] = lines[q]
    BY <1>0, <2>1 DEF Shape
  <2> QED
    BY <2>1, <2>3, <2>4, <2>5, MoveKeeps DEF Places, Counted, Held
<1>7. CASE Serve(r)
  <2>1. /\ pc[r] = "returned" /\ pc' = [pc EXCEPT ![r] = "served"]
        /\ UNCHANGED <<profile, shuttingDown, drain, status, retryAfter,
                        finalized, lines, inflight>>
    BY <1>7 DEF Serve, Goes, bucketVars
  <2>2. pc'[r] = "served"
    BY <1>0, <2>1
  <2>3. Books(r)'
    BY <1>0, <2>1, <2>2
       DEF Shape, Books, LinesOf, Dispatched, IsOps, NoStatus
  <2> QED
    BY <1>0, <2>1, <2>3, MoveKeeps DEF Shape, Places, Counted, Held
<1> QED
  BY <1>1, <1>2, <1>3, <1>4, <1>5, <1>6, <1>7

(* The streams.                                                             *)
LEMMA StreamKeeps ==
  ASSUME ShellInv, NEW r \in Requests,
         \/ Open(r) \/ FirstChunk(r) \/ StreamEnds(r)
         \/ CloseExhausted(r) \/ CloseStream(r) \/ CloseUnstarted(r)
  PROVE  ShellInv'
<1>0. Shape /\ Books(r) /\ pc \in [Requests -> Places]
  BY DEF ShellInv, BooksKept, Shape
<1>1. CASE Open(r)
  <2>1. /\ pc[r] = "routed" /\ pc' = [pc EXCEPT ![r] = "opened"]
        /\ status' = [status EXCEPT ![r] = 200]
        /\ UNCHANGED <<profile, shuttingDown, drain, retryAfter, finalized,
                        lines, inflight>>
    BY <1>1 DEF Open, Goes, bucketVars, Answers
  <2>2. pc'[r] = "opened"
    BY <1>0, <2>1
  <2>3. Books(r)'
    BY <1>0, <2>1, <2>2
       DEF Shape, Books, LinesOf, Dispatched, IsOps, NoStatus
  <2>4. /\ status' \in [Requests -> Nat]
        /\ finalized' \in [Requests -> Nat]
        /\ lines' \in [Requests -> Nat]
        /\ DOMAIN retryAfter' = Requests
    BY <1>0, <2>1 DEF Shape
  <2>5. \A q \in Requests \ {r} :
           /\ status'[q] = status[q] /\ retryAfter'[q] = retryAfter[q]
           /\ finalized'[q] = finalized[q] /\ lines'[q] = lines[q]
    BY <1>0, <2>1 DEF Shape
  <2> QED
    BY <2>1, <2>3, <2>4, <2>5, MoveKeeps DEF Places, Counted, Held
<1>2. CASE FirstChunk(r)
  <2>1. /\ pc[r] = "opened" /\ pc' = [pc EXCEPT ![r] = "streaming"]
        /\ UNCHANGED <<profile, shuttingDown, drain, status, retryAfter,
                        finalized, lines, inflight>>
    BY <1>2 DEF FirstChunk, Goes, bucketVars
  <2>2. pc'[r] = "streaming"
    BY <1>0, <2>1
  <2>3. Books(r)'
    BY <1>0, <2>1, <2>2
       DEF Shape, Books, LinesOf, Dispatched, IsOps, NoStatus
  <2> QED
    BY <1>0, <2>1, <2>3, MoveKeeps DEF Shape, Places, Counted, Held
<1>3. CASE StreamEnds(r)
  <2>1. /\ pc[r] = "streaming" /\ pc' = [pc EXCEPT ![r] = "exhausted"]
        /\ finalized' = IF finalized[r] = 0
                        THEN [finalized EXCEPT ![r] = 1] ELSE finalized
        /\ lines' = [lines EXCEPT ![r] = lines[r] + 1]
        /\ inflight' = inflight - 1
        /\ UNCHANGED <<profile, shuttingDown, drain, status, retryAfter>>
    BY <1>3 DEF StreamEnds, Goes, bucketVars, Logs, Done
  <2>2. pc'[r] = "exhausted"
    BY <1>0, <2>1
  <2>3. Books(r)'
    BY <1>0, <2>1, <2>2
       DEF Shape, Books, LinesOf, Dispatched, IsOps, NoStatus
  <2>4. /\ status' \in [Requests -> Nat]
        /\ finalized' \in [Requests -> Nat]
        /\ lines' \in [Requests -> Nat]
        /\ DOMAIN retryAfter' = Requests
    BY <1>0, <2>1 DEF Shape
  <2>5. \A q \in Requests \ {r} :
           /\ status'[q] = status[q] /\ retryAfter'[q] = retryAfter[q]
           /\ finalized'[q] = finalized[q] /\ lines'[q] = lines[q]
    BY <1>0, <2>1 DEF Shape
  <2> QED
    BY <2>1, <2>3, <2>4, <2>5, MoveKeeps DEF Places, Counted, Held
<1>4. CASE CloseExhausted(r)
  <2>1. /\ pc[r] = "exhausted" /\ pc' = [pc EXCEPT ![r] = "served"]
        /\ finalized' = IF finalized[r] = 0
                        THEN [finalized EXCEPT ![r] = 1] ELSE finalized
        /\ UNCHANGED <<profile, shuttingDown, drain, status, retryAfter,
                        lines, inflight>>
    BY <1>4, <1>0 DEF CloseExhausted, Goes, bucketVars, Done
  <2>2. pc'[r] = "served"
    BY <1>0, <2>1
  <2>3. Books(r)'
    BY <1>0, <2>1, <2>2
       DEF Shape, Books, LinesOf, Dispatched, IsOps, NoStatus
  <2>4. /\ status' \in [Requests -> Nat]
        /\ finalized' \in [Requests -> Nat]
        /\ lines' \in [Requests -> Nat]
        /\ DOMAIN retryAfter' = Requests
    BY <1>0, <2>1 DEF Shape
  <2>5. \A q \in Requests \ {r} :
           /\ status'[q] = status[q] /\ retryAfter'[q] = retryAfter[q]
           /\ finalized'[q] = finalized[q] /\ lines'[q] = lines[q]
    BY <1>0, <2>1 DEF Shape
  <2> QED
    BY <2>1, <2>3, <2>4, <2>5, MoveKeeps DEF Places, Counted, Held
<1>5. CASE CloseStream(r)
  <2>1. /\ pc[r] = "streaming" /\ pc' = [pc EXCEPT ![r] = "served"]
        /\ finalized' = IF finalized[r] = 0
                        THEN [finalized EXCEPT ![r] = 1] ELSE finalized
        /\ lines' = [lines EXCEPT ![r] = lines[r] + 1]
        /\ inflight' = inflight - 1
        /\ UNCHANGED <<profile, shuttingDown, drain, status, retryAfter>>
    BY <1>5 DEF CloseStream, Goes, bucketVars, Logs, Done
  <2>2. pc'[r] = "served"
    BY <1>0, <2>1
  <2>3. Books(r)'
    BY <1>0, <2>1, <2>2
       DEF Shape, Books, LinesOf, Dispatched, IsOps, NoStatus
  <2>4. /\ status' \in [Requests -> Nat]
        /\ finalized' \in [Requests -> Nat]
        /\ lines' \in [Requests -> Nat]
        /\ DOMAIN retryAfter' = Requests
    BY <1>0, <2>1 DEF Shape
  <2>5. \A q \in Requests \ {r} :
           /\ status'[q] = status[q] /\ retryAfter'[q] = retryAfter[q]
           /\ finalized'[q] = finalized[q] /\ lines'[q] = lines[q]
    BY <1>0, <2>1 DEF Shape
  <2> QED
    BY <2>1, <2>3, <2>4, <2>5, MoveKeeps DEF Places, Counted, Held
<1>6. CASE CloseUnstarted(r)
  <2>1. /\ pc[r] = "opened" /\ pc' = [pc EXCEPT ![r] = "leaked"]
        /\ finalized' = IF finalized[r] = 0
                        THEN [finalized EXCEPT ![r] = 1] ELSE finalized
        /\ UNCHANGED <<profile, shuttingDown, drain, status, retryAfter,
                        lines, inflight>>
    BY <1>6 DEF CloseUnstarted, Goes, bucketVars, Done
  <2>2. pc'[r] = "leaked"
    BY <1>0, <2>1
  <2>3. Books(r)'
    BY <1>0, <2>1, <2>2
       DEF Shape, Books, LinesOf, Dispatched, IsOps, NoStatus
  <2>4. /\ status' \in [Requests -> Nat]
        /\ finalized' \in [Requests -> Nat]
        /\ lines' \in [Requests -> Nat]
        /\ DOMAIN retryAfter' = Requests
    BY <1>0, <2>1 DEF Shape
  <2>5. \A q \in Requests \ {r} :
           /\ status'[q] = status[q] /\ retryAfter'[q] = retryAfter[q]
           /\ finalized'[q] = finalized[q] /\ lines'[q] = lines[q]
    BY <1>0, <2>1 DEF Shape
  <2> QED
    BY <2>1, <2>3, <2>4, <2>5, MoveKeeps DEF Places, Counted, Held
<1> QED
  BY <1>1, <1>2, <1>3, <1>4, <1>5, <1>6

-----------------------------------------------------------------------------
(* The drain thread and the clock.                                          *)

(* The count the drain waits for is zero only when nobody is counted.       *)
LEMMA DrainedKeeps ==
  ASSUME ShellInv, Drained
  PROVE  ShellInv'
<1>0. /\ drain = "waiting" /\ inflight = 0 /\ drain' = "drained"
      /\ UNCHANGED <<pc, profile, status, inflight, shuttingDown, retryAfter,
                     finalized, lines>>
  BY DEF Drained, bucketVars
<1>1. Holders = {}
  <2>1. Cardinality(Holders) = 0
    BY <1>0, HoldersAre DEF ShellInv, DrainIsExact, InflightExact
  <2>2. IsFiniteSet(Holders)
    BY ShellAssumption, FS_Subset DEF Holders
  <2> QED
    BY <2>1, <2>2, FS_EmptySet
<1>2. Shape' /\ FlagFirst'
  BY <1>0 DEF ShellInv, Shape, FlagFirst
<1>3. InflightExact'
  BY <1>0 DEF ShellInv, DrainIsExact, InflightExact, InFlight, Leaked
<1>4. DrainLosesNothing'
  BY <1>0, <1>1 DEF DrainLosesNothing, Holders, Held
<1>5. BooksKept'
  BY <1>0 DEF ShellInv, BooksKept, Books, LinesOf, Dispatched, IsOps
<1> QED
  BY <1>2, <1>3, <1>4, <1>5 DEF ShellInv, DrainIsExact

(* The other steps of the shutdown leave every request where it is or kill *)
(* its thread.                                                              *)
LEMMA ShutdownKeeps ==
  ASSUME ShellInv, Sigterm \/ GraceEnds \/ Exit
  PROVE  ShellInv'
<1>0. UNCHANGED <<profile, status, inflight, retryAfter, finalized, lines>>
  BY DEF Sigterm, GraceEnds, Exit, bucketVars
<1>1. CASE Sigterm \/ GraceEnds
  <2>1. /\ UNCHANGED pc
        /\ \/ drain = "none" /\ drain' = "waiting" /\ shuttingDown' = TRUE
           \/ drain = "waiting" /\ drain' = "exceeded" /\ UNCHANGED shuttingDown
    BY <1>1 DEF Sigterm, GraceEnds
  <2>2. Shape' /\ FlagFirst'
    BY <1>0, <2>1 DEF ShellInv, Shape, FlagFirst
  <2>3. DrainIsExact'
    BY <1>0, <2>1
       DEF ShellInv, DrainIsExact, DrainLosesNothing, InflightExact, InFlight, Leaked
  <2>4. BooksKept'
    BY <1>0, <2>1 DEF ShellInv, BooksKept, Books, LinesOf, Dispatched, IsOps
  <2> QED
    BY <2>2, <2>3, <2>4 DEF ShellInv
<1>2. CASE Exit
  <2>1. /\ drain \in {"drained", "exceeded"} /\ drain' = "stopped"
        /\ UNCHANGED shuttingDown
        /\ pc' = [r \in Requests |->
                    IF pc[r] \in {"out", "served", "leaked"} THEN pc[r]
                    ELSE "killed"]
    BY <1>2 DEF Exit
  <2>2. Shape' /\ FlagFirst'
    BY <1>0, <2>1 DEF ShellInv, Shape, FlagFirst, Places
  <2>3. DrainIsExact'
    BY <2>1 DEF DrainIsExact, DrainLosesNothing, InflightExact, InFlight, Leaked
  <2>4. BooksKept'
    <3> SUFFICES ASSUME NEW r \in Requests PROVE Books(r)'
      BY DEF BooksKept
    <3>1. Books(r)
      BY DEF ShellInv, BooksKept
    <3>2. pc'[r] = pc[r] \/ pc'[r] = "killed"
      BY <2>1
    <3> QED
      BY <1>0, <3>1, <3>2 DEF Books, LinesOf, Dispatched, IsOps
  <2> QED
    BY <2>2, <2>3, <2>4 DEF ShellInv
<1> QED
  BY <1>1, <1>2

LEMMA IdleKeeps ==
  ASSUME ShellInv, Tick \/ UNCHANGED vars
  PROVE  ShellInv'
<1>1. UNCHANGED <<pc, profile, status, inflight, shuttingDown, drain, retryAfter,
                  finalized, lines>>
  BY DEF Tick, vars
<1> QED
  BY <1>1 DEF ShellInv, Shape, FlagFirst, DrainIsExact, DrainLosesNothing,
              InflightExact, InFlight, Leaked, BooksKept, Books, LinesOf, Dispatched, IsOps

-----------------------------------------------------------------------------

LEMMA InitShellInv ==
  ASSUME Init PROVE ShellInv
<1>1. Shape
  <2>1. \A r \in Requests : profile[r] \in Profile
    BY ShellAssumption DEF Init
  <2> QED
    BY <2>1 DEF Init, Shape, Places, NoStatus
<1>2. InFlight \cup Leaked = {}
  BY DEF Init, Counted, InFlight, Leaked
<1>3. DrainIsExact /\ FlagFirst
  BY <1>2, FS_EmptySet
     DEF Init, DrainIsExact, DrainLosesNothing, InflightExact, FlagFirst
<1>4. BooksKept
  BY DEF Init, BooksKept, Books
<1> QED
  BY <1>1, <1>3, <1>4 DEF ShellInv

LEMMA NextShellInv ==
  ASSUME ShellInv, [Next]_vars PROVE ShellInv'
<1>1. ASSUME NEW r \in Requests,
             Arrive(r) \/ Works(r) \/ CloseStream(r) \/ CloseUnstarted(r)
      PROVE  ShellInv'
  BY <1>1, GateKeeps, DispatchKeeps, StreamKeeps DEF Works
<1>2. CASE Sigterm \/ Drained \/ GraceEnds \/ Exit
  BY <1>2, DrainedKeeps, ShutdownKeeps
<1>3. CASE Tick \/ UNCHANGED vars
  BY <1>3, IdleKeeps
<1> QED
  BY <1>1, <1>2, <1>3 DEF Next

THEOREM ShellInvariant == Spec => []ShellInv
BY InitShellInv, NextShellInv, PTL DEF Spec

(* The shell's books (_inflight, wait_for_drain, _finalize_response), for   *)
(* any number of requests: "drain complete" is said with no admitted        *)
(* request before the end of its handler, the count is what is in flight,   *)
(* and every response leaves one record of each kind.                       *)
THEOREM CountsHold == Spec => []CountsAreExact
<1>1. ShellInv => AccountedOnce
  BY DEF ShellInv, BooksKept, Books, LinesOf, AccountedOnce
<1>2. ShellInv => CountsAreExact
  BY <1>1 DEF ShellInv, CountsAreExact
<1> QED
  BY <1>2, ShellInvariant, PTL

-----------------------------------------------------------------------------
(* The token bucket.                                                        *)

GrantsIn(from, to) == {g \in grants : g[2] \in from..to}

BucketTypes ==
  /\ tokens \in 0..Capacity /\ last \in Nat /\ clock \in Nat /\ last <= clock
  /\ IsFiniteSet(grants) /\ \A g \in grants : g[2] \in 0..last

(* What was granted since a time and what is left is covered by the burst   *)
(* and what was refilled since.                                             *)
GrantsAreCovered ==
  /\ \A from \in 0..last :
       tokens + Cardinality(GrantsIn(from, last)) * One <= Capacity + (last - from) * Gain
  /\ \A from, to \in 0..clock :
       from <= to => Cardinality(GrantsIn(from, to)) * One <= Capacity + (to - from) * Gain

(* A client that was told to wait is owed what is refilled from then on, as *)
(* long as nobody is granted a token after it.                              *)
Owed(r) ==
  LET told == retryAfter[r]
  IN  Least(Capacity, One - told.seconds * Capacity + (clock - told.at) * Gain)

WaitIsPaid ==
  /\ retryAfter \in [Requests -> [at : Nat, seconds : Nat]]
  /\ \A r \in Requests :
       /\ retryAfter[r].at <= clock
       /\ retryAfter[r] # NotLimited =>
            /\ clock = retryAfter[r].at => Refilled < One
            /\ (\E g \in grants : g[2] > retryAfter[r].at) \/ Owed(r) <= Refilled

BucketInv == BucketTypes /\ GrantsAreCovered /\ WaitIsPaid

LEMMA BucketFacts ==
  /\ One \in Nat \ {0} /\ Gain \in Nat \ {0} /\ TicksPerSecond \in Nat \ {0}
  /\ Capacity \in Nat \ {0} /\ Capacity = Gain * TicksPerSecond
BY ShellAssumption DEF Capacity

(* Time passed between two moments, in what it refills.                     *)
LEMMA GainAdds ==
  ASSUME NEW a \in Nat, NEW b \in Nat, NEW c \in Nat, a <= b, b <= c
  PROVE  /\ (b - a) * Gain \in Nat /\ (c - b) * Gain \in Nat
         /\ (c - a) * Gain = (b - a) * Gain + (c - b) * Gain
BY BucketFacts

(* Retry-After is long enough for the deficit.                              *)
LEMMA RetryCovers ==
  ASSUME NEW held \in Nat, held < One
  PROVE  /\ RetrySeconds(held) \in Nat \ {0}
         /\ One - RetrySeconds(held) * Capacity <= held
<1> DEFINE d == One - held
           q == (d + Capacity - 1) \div Capacity
<1>1. d \in Nat \ {0} /\ d + Capacity - 1 \in Nat
  BY BucketFacts
<1>2. q \in Nat /\ d <= q * Capacity
  BY <1>1, BucketFacts
<1>3. RetrySeconds(held) = IF q < 1 THEN 1 ELSE q
  BY DEF RetrySeconds
<1> HIDE DEF q
<1>4. q >= 1
  BY <1>1, <1>2, BucketFacts
<1> QED
  BY <1>1, <1>2, <1>3, <1>4, BucketFacts

LEMMA RefilledIs ==
  ASSUME BucketTypes
  PROVE  /\ Refilled \in Nat /\ Refilled <= Capacity
         /\ (clock - last) * Gain \in Nat
         /\ Refilled <= tokens + (clock - last) * Gain
         /\ Refilled = Capacity \/ Refilled = tokens + (clock - last) * Gain
BY BucketFacts DEF BucketTypes, Refilled, Least

LEMMA GrantsAreFinite ==
  ASSUME BucketTypes, NEW from, NEW to
  PROVE  IsFiniteSet(GrantsIn(from, to)) /\ Cardinality(GrantsIn(from, to)) \in Nat
<1>1. IsFiniteSet(grants) /\ GrantsIn(from, to) \subseteq grants
  BY DEF BucketTypes, GrantsIn
<1> QED
  BY <1>1, FS_Subset, FS_CardinalityType

(* The first grant of an interval is covered by the burst.                  *)
LEMMA FirstAdds ==
  ASSUME NEW held \in Nat, NEW left, NEW is \in Nat, NEW whole \in Nat,
         held >= One, left = held - One, held <= Capacity, is <= One
  PROVE  left + is <= Capacity + whole
BY BucketFacts

LEMMA AcquireCovered ==
  ASSUME BucketInv, NEW r \in Requests, Acquire(r)
  PROVE  BucketTypes' /\ GrantsAreCovered'
<1> DEFINE g0 == <<r, clock>>
<1>1. /\ Refilled >= One /\ tokens' = Refilled - One /\ last' = clock /\ clock' = clock
      /\ grants' = grants \cup {g0} /\ g0[2] = clock
  BY DEF Acquire
<1>2. /\ last \in Nat /\ clock \in Nat /\ last <= clock /\ tokens \in Nat
      /\ IsFiniteSet(grants) /\ \A g \in grants : g[2] \in 0..last
  BY BucketFacts DEF BucketInv, BucketTypes
<1>3. /\ Refilled \in Nat /\ Refilled <= Capacity
      /\ Refilled <= tokens + (clock - last) * Gain
  BY RefilledIs DEF BucketInv
<1>4. BucketTypes'
  <2>1. IsFiniteSet(grants')
    BY <1>1, <1>2, FS_AddElement
  <2>2. tokens' \in 0..Capacity
    BY <1>1, <1>3, BucketFacts
  <2> QED
    BY <1>1, <1>2, <2>1, <2>2 DEF BucketTypes
<1>5. ASSUME NEW from \in 0..clock
      PROVE  /\ Cardinality(GrantsIn(from, clock)') \in Nat
             /\ tokens' + Cardinality(GrantsIn(from, clock)') * One
                  <= Capacity + (clock - from) * Gain
  <2> DEFINE n == Cardinality(GrantsIn(from, last))
  <2>1. GrantsIn(from, clock)' = GrantsIn(from, last) \cup {g0}
    BY <1>1, <1>2 DEF GrantsIn
  <2>0. from \in Nat /\ IsFiniteSet(GrantsIn(from, last)) /\ n \in Nat
    BY <1>2, GrantsAreFinite DEF BucketInv
  <2>2. Cardinality(GrantsIn(from, clock)') \in {n, n + 1}
    BY <2>0, <2>1, FS_AddElement
  <2>3. Cardinality(GrantsIn(from, clock)') \in Nat
    BY <2>0, <2>2
  <2>4. Cardinality(GrantsIn(from, clock)') * One <= n * One + One
    BY <2>0, <2>2, <2>3, BucketFacts
  <2>5. CASE from <= last
    <3>1. tokens + n * One <= Capacity + (last - from) * Gain
      BY <1>2, <2>5 DEF BucketInv, GrantsAreCovered
    <3>2. /\ (last - from) * Gain \in Nat /\ (clock - last) * Gain \in Nat
          /\ (clock - from) * Gain = (last - from) * Gain + (clock - last) * Gain
      <4>1. from \in Nat /\ last \in Nat /\ clock \in Nat /\ from <= last /\ last <= clock
        BY <1>2, <2>0, <2>5
      <4> QED
        BY ZenonT(60), <4>1, GainAdds
    <3>3. n * One \in Nat /\ Cardinality(GrantsIn(from, clock)') * One \in Nat
      BY <2>0, <2>3, BucketFacts
    <3> QED
      <4> DEFINE was == n * One
                 is == Cardinality(GrantsIn(from, clock)') * One
                 before == (last - from) * Gain
                 since == (clock - last) * Gain
                 whole == (clock - from) * Gain
      <4>1. /\ Refilled \in Nat /\ tokens \in Nat /\ Refilled >= One
            /\ tokens' = Refilled - One /\ Refilled <= tokens + since
        BY <1>1, <1>2, <1>3
      <4>2. /\ is <= was + One /\ tokens + was <= Capacity + before
            /\ whole = before + since
            /\ before \in Nat /\ since \in Nat /\ was \in Nat /\ is \in Nat
        BY <2>4, <3>1, <3>2, <3>3
      <4> HIDE DEF was, is, before, since, whole
      <4>3. tokens' + is <= Capacity + whole
        BY <4>1, <4>2, BucketFacts
      <4> QED
        BY <4>3, <2>3 DEF is, whole
  <2>6. CASE from > last
    <3>1. GrantsIn(from, last) = {}
      BY <1>2, <2>6 DEF GrantsIn
    <3>2. n = 0
      BY <3>1, FS_EmptySet
    <3>3. (clock - from) * Gain \in Nat /\ Cardinality(GrantsIn(from, clock)') * One \in Nat
      BY <1>2, <2>0, <2>3, BucketFacts
    <3>4. Cardinality(GrantsIn(from, clock)') * One <= One
      BY <2>2, <2>3, <3>2, BucketFacts
    <3> QED
      <4>1. /\ Refilled \in Nat /\ Refilled >= One /\ Refilled <= Capacity
            /\ tokens' = Refilled - One
        BY <1>1, <1>3
      <4> QED
        BY <4>1, <2>3, <3>3, <3>4, FirstAdds
  <2> QED
    BY <1>2, <2>0, <2>3, <2>5, <2>6
<1>6. ASSUME NEW from \in 0..clock, NEW to \in 0..clock, from <= to
      PROVE  Cardinality(GrantsIn(from, to)') * One <= Capacity + (to - from) * Gain
  <2>1. CASE to < clock
    <3>1. GrantsIn(from, to)' = GrantsIn(from, to)
      BY <1>1, <1>2, <2>1 DEF GrantsIn
    <3> QED
      BY <1>6, <3>1 DEF BucketInv, GrantsAreCovered
  <2>2. CASE to = clock
    <3>1. Cardinality(GrantsIn(from, clock)') \in Nat
      BY <1>5
    <3>2. /\ tokens' \in Nat /\ Cardinality(GrantsIn(from, clock)') * One \in Nat
          /\ Capacity + (clock - from) * Gain \in Nat
      BY <1>1, <1>2, <1>3, <3>1, BucketFacts
    <3>3. tokens' + Cardinality(GrantsIn(from, clock)') * One <= Capacity + (clock - from) * Gain
      BY <1>5
    <3>4. Cardinality(GrantsIn(from, clock)') * One <= Capacity + (clock - from) * Gain
      BY <3>2, <3>3
    <3>5. GrantsIn(from, to)' = GrantsIn(from, clock)'
      BY <1>1, <2>2 DEF GrantsIn
    <3> QED
      BY <2>2, <3>4, <3>5
  <2> QED
    BY <1>2, <2>1, <2>2
<1> QED
  BY <1>1, <1>4, <1>5, <1>6 DEF GrantsAreCovered

LEMMA RefillCovered ==
  ASSUME BucketInv, tokens' = Refilled, last' = clock, UNCHANGED <<clock, grants>>
  PROVE  BucketTypes' /\ GrantsAreCovered' /\ Refilled' = Refilled
<1>1. /\ last \in Nat /\ clock \in Nat /\ last <= clock /\ tokens \in Nat
      /\ \A g \in grants : g[2] \in 0..last
  BY BucketFacts DEF BucketInv, BucketTypes
<1>2. /\ Refilled \in Nat /\ Refilled <= Capacity
      /\ Refilled <= tokens + (clock - last) * Gain
  BY RefilledIs DEF BucketInv
<1>3. BucketTypes'
  BY <1>1, <1>2, BucketFacts DEF BucketInv, BucketTypes
<1>4. ASSUME NEW from \in 0..clock
      PROVE  tokens' + Cardinality(GrantsIn(from, clock)) * One <= Capacity + (clock - from) * Gain
  <2> DEFINE n == Cardinality(GrantsIn(from, last))
  <2>1. GrantsIn(from, clock) = GrantsIn(from, last)
    BY <1>1 DEF GrantsIn
  <2>2. from \in Nat /\ n \in Nat /\ n * One \in Nat /\ (clock - from) * Gain \in Nat
    BY <1>1, GrantsAreFinite, BucketFacts DEF BucketInv
  <2>3. CASE from <= last
    <3>1. tokens + n * One <= Capacity + (last - from) * Gain
      BY <1>1, <2>3 DEF BucketInv, GrantsAreCovered
    <3>2. /\ (clock - from) * Gain = (last - from) * Gain + (clock - last) * Gain
          /\ (last - from) * Gain \in Nat /\ (clock - last) * Gain \in Nat
      <4>1. from \in Nat /\ last \in Nat /\ clock \in Nat /\ from <= last /\ last <= clock
        BY <1>1, <2>2, <2>3
      <4> QED
        BY ZenonT(60), <4>1, GainAdds
    <3> HIDE DEF n
    <3> QED
      BY <1>1, <1>2, <2>1, <2>2, <3>1, <3>2, BucketFacts DEF n
  <2>4. CASE from > last
    <3>1. GrantsIn(from, last) = {}
      BY <1>1, <2>4 DEF GrantsIn
    <3>2. n = 0
      BY <3>1, FS_EmptySet
    <3> QED
      BY <1>2, <2>1, <2>2, <3>2, BucketFacts
  <2> QED
    BY <1>1, <2>2, <2>3, <2>4
<1>5. GrantsAreCovered'
  BY <1>4 DEF BucketInv, GrantsAreCovered, GrantsIn
<1>6. Refilled' = Refilled
  BY <1>1, <1>2, BucketFacts DEF Refilled, Least
<1> QED
  BY <1>3, <1>5, <1>6

LEMMA TickCovered ==
  ASSUME BucketInv, Tick
  PROVE  BucketTypes' /\ GrantsAreCovered'
<1>1. /\ clock' = clock + 1 /\ UNCHANGED <<tokens, last, grants>>
      /\ last \in Nat /\ clock \in Nat /\ last <= clock
      /\ \A g \in grants : g[2] \in 0..last
  BY DEF Tick, BucketInv, BucketTypes
<1>2. BucketTypes'
  BY <1>1 DEF BucketInv, BucketTypes
<1>3. ASSUME NEW from \in 0..(clock + 1), NEW to \in 0..(clock + 1), from <= to
      PROVE  Cardinality(GrantsIn(from, to)) * One <= Capacity + (to - from) * Gain
  <2>1. CASE to <= clock
    BY <1>1, <1>3, <2>1 DEF BucketInv, GrantsAreCovered
  <2>2. CASE to = clock + 1 /\ from <= clock
    <3>1. GrantsIn(from, to) = GrantsIn(from, clock)
      BY <1>1, <2>2 DEF GrantsIn
    <3>2. Cardinality(GrantsIn(from, clock)) * One <= Capacity + (clock - from) * Gain
      BY <1>1, <2>2 DEF BucketInv, GrantsAreCovered
    <3>3. from \in Nat /\ Cardinality(GrantsIn(from, clock)) * One \in Nat
      BY <1>1, GrantsAreFinite, BucketFacts DEF BucketInv
    <3>0. from \in Nat /\ to \in Nat /\ clock \in Nat /\ from <= clock /\ clock <= to
      BY <1>1, <2>2, <3>3
    <3>4. /\ (to - from) * Gain = (clock - from) * Gain + (to - clock) * Gain
          /\ (clock - from) * Gain \in Nat /\ (to - clock) * Gain \in Nat
      BY ZenonT(60), <3>0, GainAdds
    <3> QED
      BY <3>1, <3>2, <3>3, <3>4, BucketFacts
  <2>3. CASE from = clock + 1
    <3>1. GrantsIn(from, to) = {}
      BY <1>1, <2>3 DEF GrantsIn
    <3>2. Cardinality(GrantsIn(from, to)) * One = 0
      BY <3>1, FS_EmptySet, BucketFacts
    <3>3. (to - from) * Gain \in Nat
      BY <1>1, <1>3, BucketFacts
    <3> QED
      BY <3>2, <3>3, BucketFacts
  <2> QED
    BY <1>1, <2>1, <2>2, <2>3
<1>4. GrantsAreCovered'
  BY <1>1, <1>3 DEF BucketInv, GrantsAreCovered, GrantsIn
<1> QED
  BY <1>2, <1>4

(* What a client is owed does not run ahead of what is refilled. *)
LEMMA OwedFollows ==
  ASSUME NEW x \in Int, NEW y \in Int, Least(Capacity, x) <= Least(Capacity, y)
  PROVE  Least(Capacity, x + Gain) <= Least(Capacity, y + Gain)
BY BucketFacts DEF Least

LEMMA ToldTypes ==
  ASSUME BucketInv, NEW r \in Requests
  PROVE  /\ retryAfter[r].at \in Nat /\ retryAfter[r].seconds \in Nat
         /\ retryAfter[r].at <= clock /\ clock \in Nat
         /\ One - retryAfter[r].seconds * Capacity + (clock - retryAfter[r].at) * Gain \in Int
<1>1. /\ retryAfter[r].at \in Nat /\ retryAfter[r].seconds \in Nat
      /\ retryAfter[r].at <= clock /\ clock \in Nat
  BY DEF BucketInv, BucketTypes, WaitIsPaid
<1>2. retryAfter[r].seconds * Capacity \in Nat /\ (clock - retryAfter[r].at) * Gain \in Int
  BY <1>1, BucketFacts
<1> QED
  BY <1>1, <1>2, BucketFacts

LEMMA AcquirePays ==
  ASSUME BucketInv, NEW r \in Requests, Acquire(r)
  PROVE  WaitIsPaid'
<1>1. Refilled >= One /\ clock' = clock /\ retryAfter' = retryAfter
      /\ grants' = grants \cup {<<r, clock>>}
  BY DEF Acquire
<1>2. Refilled \in Nat /\ One \in Nat /\ clock \in Nat
  BY RefilledIs, BucketFacts DEF BucketInv, BucketTypes
<1>3. ASSUME NEW q \in Requests, retryAfter[q] # NotLimited
      PROVE  retryAfter[q].at < clock
  <2>1. retryAfter[q].at \in Nat /\ retryAfter[q].at <= clock
    BY ToldTypes
  <2>2. retryAfter[q].at # clock
    BY <1>1, <1>2, <1>3 DEF BucketInv, WaitIsPaid
  <2> QED
    BY <1>2, <2>1, <2>2
<1>4. ASSUME NEW q \in Requests, retryAfter[q] # NotLimited
      PROVE  /\ clock # retryAfter[q].at
             /\ \E g \in grants' : g[2] > retryAfter[q].at
  <2>1. <<r, clock>> \in grants' /\ <<r, clock>>[2] = clock
    BY <1>1
  <2>2. retryAfter[q].at < clock /\ retryAfter[q].at \in Nat
    BY <1>3, <1>4, ToldTypes
  <2>3. clock > retryAfter[q].at /\ clock # retryAfter[q].at
    BY <1>2, <2>2
  <2> QED
    BY <2>1, <2>3
<1>5. ASSUME NEW q \in Requests
      PROVE  /\ (retryAfter[q].at <= clock)'
             /\ (retryAfter[q] # NotLimited =>
                  /\ clock = retryAfter[q].at => Refilled < One
                  /\ (\E g \in grants : g[2] > retryAfter[q].at) \/ Owed(q) <= Refilled)'
  <2>1. (retryAfter[q].at <= clock)'
    BY <1>1, ToldTypes
  <2>2. CASE retryAfter[q] = NotLimited
    BY <1>1, <2>1, <2>2 DEF NotLimited
  <2>3. CASE retryAfter[q] # NotLimited
    BY <1>1, <1>4, <2>1, <2>3
  <2> QED
    BY <2>2, <2>3
<1>6. retryAfter' \in [Requests -> [at : Nat, seconds : Nat]]
  BY <1>1 DEF BucketInv, WaitIsPaid
<1> QED
  BY <1>5, <1>6 DEF WaitIsPaid

LEMMA LimitPays ==
  ASSUME BucketInv, NEW r \in Requests, Limit(r)
  PROVE  WaitIsPaid'
<1> DEFINE told == [at |-> clock, seconds |-> RetrySeconds(Refilled)]
<1>1. /\ Refilled < One /\ clock' = clock /\ grants' = grants
      /\ tokens' = Refilled /\ last' = clock
      /\ retryAfter' = [retryAfter EXCEPT ![r] = told]
  BY DEF Limit
<1>2. Refilled' = Refilled
  BY <1>1, RefillCovered
<1>3. Refilled \in Nat /\ clock \in Nat /\ One \in Nat /\ Capacity \in Nat
  BY RefilledIs, BucketFacts DEF BucketInv, BucketTypes
<1>4. /\ RetrySeconds(Refilled) \in Nat
      /\ One - RetrySeconds(Refilled) * Capacity <= Refilled
  BY <1>1, <1>3, RetryCovers
<1>5. retryAfter \in [Requests -> [at : Nat, seconds : Nat]]
  BY DEF BucketInv, WaitIsPaid
<1>6. told \in [at : Nat, seconds : Nat] /\ told.at = clock
      /\ told.seconds = RetrySeconds(Refilled)
  BY <1>3, <1>4
<1>7. retryAfter' \in [Requests -> [at : Nat, seconds : Nat]]
  BY <1>1, <1>5, <1>6
<1>8. retryAfter'[r] = told /\ \A q \in Requests : q # r => retryAfter'[q] = retryAfter[q]
  BY <1>1, <1>5
<1> HIDE DEF told
<1>9. ASSUME NEW q \in Requests
      PROVE  /\ (retryAfter[q].at <= clock)'
             /\ (retryAfter[q] # NotLimited =>
                  /\ clock = retryAfter[q].at => Refilled < One
                  /\ (\E g \in grants : g[2] > retryAfter[q].at) \/ Owed(q) <= Refilled)'
  <2>1. CASE q = r
    <3>1. (clock - clock) * Gain = 0
      BY <1>3, BucketFacts
    <3>2. Owed(q)' = Least(Capacity, One - RetrySeconds(Refilled) * Capacity + 0)
      BY <1>1, <1>6, <1>8, <2>1, <3>1 DEF Owed
    <3>3. RetrySeconds(Refilled) * Capacity \in Nat
      BY <1>3, <1>4
    <3>4. Owed(q)' <= Refilled'
      BY <1>2, <1>3, <1>4, <3>2, <3>3 DEF Least
    <3> QED
      BY <1>1, <1>2, <1>3, <1>6, <1>8, <2>1, <3>4
  <2>2. CASE q # r
    <3>1. retryAfter'[q] = retryAfter[q]
      BY <1>8, <2>2
    <3>2. Owed(q)' = Owed(q)
      BY <1>1, <3>1 DEF Owed
    <3> QED
      BY <1>1, <1>2, <3>1, <3>2 DEF BucketInv, WaitIsPaid
  <2> QED
    BY <2>1, <2>2
<1> QED
  BY <1>7, <1>9 DEF WaitIsPaid

LEMMA TickPays ==
  ASSUME BucketInv, Tick
  PROVE  WaitIsPaid'
<1>1. clock' = clock + 1 /\ UNCHANGED <<tokens, last, grants, retryAfter>>
  BY DEF Tick
<1>2. /\ clock \in Nat /\ last \in Nat /\ tokens \in Nat /\ Gain \in Nat /\ Capacity \in Nat
      /\ (clock - last) * Gain \in Nat
  BY RefilledIs, BucketFacts DEF BucketInv, BucketTypes
<1>3. ((clock + 1) - last) * Gain = (clock - last) * Gain + Gain
  BY <1>2
<1>4. Refilled' = Least(Capacity, (tokens + (clock - last) * Gain) + Gain)
  BY <1>1, <1>2, <1>3 DEF Refilled
<1>5. ASSUME NEW q \in Requests
      PROVE  /\ (retryAfter[q].at <= clock)'
             /\ (retryAfter[q] # NotLimited =>
                  /\ clock = retryAfter[q].at => Refilled < One
                  /\ (\E g \in grants : g[2] > retryAfter[q].at) \/ Owed(q) <= Refilled)'
  <2> DEFINE at == retryAfter[q].at
             x == One - retryAfter[q].seconds * Capacity + (clock - at) * Gain
             y == tokens + (clock - last) * Gain
  <2>1. at \in Nat /\ at <= clock /\ retryAfter[q].seconds \in Nat /\ x \in Int
    BY ToldTypes
  <2>2. ((clock + 1) - at) * Gain = (clock - at) * Gain + Gain /\ (clock - at) * Gain \in Int
        /\ retryAfter[q].seconds * Capacity \in Int /\ One \in Int
    BY <1>2, <2>1, BucketFacts
  <2>3. Owed(q)' = Least(Capacity, x + Gain)
    <3>1. One - retryAfter[q].seconds * Capacity + ((clock + 1) - at) * Gain = x + Gain
      BY <1>2, <2>2
    <3> QED
      BY <1>1, <3>1 DEF Owed
  <2>4. y \in Int /\ Refilled = Least(Capacity, y) /\ Owed(q) = Least(Capacity, x)
    BY <1>2 DEF Refilled, Owed
  <2>5. Refilled' = Least(Capacity, y + Gain)
    BY <1>4
  <2>6. ASSUME Owed(q) <= Refilled  PROVE Owed(q)' <= Refilled'
    <3> HIDE DEF x, y
    <3> QED
      BY <2>1, <2>3, <2>4, <2>5, <2>6, OwedFollows
  <2>7. /\ clock' # retryAfter'[q].at /\ retryAfter'[q].at <= clock'
        /\ retryAfter'[q] = retryAfter[q]
    BY <1>1, <1>2, <2>1
  <2>8. retryAfter[q] # NotLimited =>
          (\E g \in grants : g[2] > retryAfter[q].at) \/ Owed(q) <= Refilled
    BY DEF BucketInv, WaitIsPaid
  <2> HIDE DEF x, y
  <2> QED
    BY <1>1, <2>6, <2>7, <2>8
<1>6. retryAfter' \in [Requests -> [at : Nat, seconds : Nat]]
  BY <1>1 DEF BucketInv, WaitIsPaid
<1> QED
  BY <1>5, <1>6 DEF WaitIsPaid

LEMMA BucketStart == Init => BucketInv
<1> SUFFICES ASSUME Init PROVE BucketInv
  OBVIOUS
<1>1. /\ tokens = Capacity /\ last = 0 /\ clock = 0 /\ grants = {}
      /\ retryAfter = [r \in Requests |-> NotLimited]
  BY DEF Init
<1>2. BucketTypes
  BY <1>1, BucketFacts, FS_EmptySet DEF BucketTypes
<1>3. \A from, to : Cardinality(GrantsIn(from, to)) = 0
  BY <1>1, FS_EmptySet DEF GrantsIn
<1>4. GrantsAreCovered
  BY <1>1, <1>3, BucketFacts DEF GrantsAreCovered
<1>5. WaitIsPaid
  BY <1>1 DEF WaitIsPaid, NotLimited
<1> QED
  BY <1>2, <1>4, <1>5 DEF BucketInv

(* Only the bucket and the clock move what the bucket's invariant is about. *)
LEMMA BucketSteps ==
  ASSUME Next
  PROVE  \/ \E r \in Requests : Acquire(r) \/ Limit(r)
         \/ Tick \/ UNCHANGED bucketVars
<1>1. ASSUME NEW r \in Requests, Arrive(r) \/ Works(r) \/ CloseStream(r) \/ CloseUnstarted(r)
      PROVE  Acquire(r) \/ Limit(r) \/ UNCHANGED bucketVars
  BY <1>1 DEF Works, Arrive, AdmitOps, Admit, TurnAway, Limited, Reject, Probe,
      Handle,
     HandlerEnds, Leave, Finalize, Serve, Open, FirstChunk, StreamEnds, CloseExhausted,
     CloseStream, CloseUnstarted
<1>2. ASSUME Sigterm \/ Drained \/ GraceEnds \/ Exit
      PROVE  UNCHANGED bucketVars
  BY <1>2 DEF Sigterm, Drained, GraceEnds, Exit
<1> QED
  BY <1>1, <1>2 DEF Next

LEMMA BucketStep ==
  ASSUME BucketInv, [Next]_vars
  PROVE  BucketInv'
<1>1. CASE UNCHANGED bucketVars
  BY <1>1 DEF bucketVars, BucketInv, BucketTypes, GrantsAreCovered, GrantsIn,
      WaitIsPaid,
     Owed, Refilled
<1>2. CASE Tick
  BY <1>2, TickCovered, TickPays DEF BucketInv
<1>3. ASSUME NEW r \in Requests, Acquire(r)
      PROVE  BucketInv'
  BY <1>3, AcquireCovered, AcquirePays DEF BucketInv
<1>4. ASSUME NEW r \in Requests, Limit(r)
      PROVE  BucketInv'
  <2>1. tokens' = Refilled /\ last' = clock /\ UNCHANGED <<clock, grants>>
    BY <1>4 DEF Limit
  <2> QED
    BY <1>4, <2>1, RefillCovered, LimitPays DEF BucketInv
<1>5. CASE UNCHANGED vars
  BY <1>1, <1>5 DEF vars, bucketVars
<1> QED
  BY <1>1, <1>2, <1>3, <1>4, <1>5, BucketSteps

(* The inductive invariant of the token bucket (wsgi.py TokenBucket): what  *)
(* was granted since any time, with what is left, is covered by the burst   *)
(* and what was refilled since; and a client told to wait is owed what is   *)
(* refilled from then on.                                                   *)
THEOREM BucketInvariant == Spec => []BucketInv
<1>1. Init => BucketInv
  BY BucketStart
<1>2. BucketInv /\ [Next]_vars => BucketInv'
  BY BucketStep
<1> QED
  BY <1>1, <1>2, PTL DEF Spec

LEMMA BoundedHolds == BucketInv => RateBounded
BY DEF BucketInv, GrantsAreCovered, GrantsIn, RateBounded

(* After the wait it was told, a client is owed a whole token.              *)
LEMMA HonestHolds ==
  ASSUME BucketInv, One <= Capacity
  PROVE  RetryAfterHonest
<1> SUFFICES ASSUME NEW r \in Requests,
                    retryAfter[r] # NotLimited,
                    clock >= retryAfter[r].at + retryAfter[r].seconds * TicksPerSecond,
                    ~\E g \in grants : g[2] > retryAfter[r].at
             PROVE  Refilled >= One
  BY DEF RetryAfterHonest
<1> DEFINE at == retryAfter[r].at
           s == retryAfter[r].seconds
           waited == clock - at
<1>1. at \in Nat /\ s \in Nat /\ clock \in Nat /\ at <= clock
  BY ToldTypes
<1>2. Owed(r) <= Refilled
  BY DEF BucketInv, WaitIsPaid
<1>3. Owed(r) = Least(Capacity, One - s * Capacity + waited * Gain)
  BY DEF Owed
<1>4. waited \in Nat /\ waited >= s * TicksPerSecond
  <2>1. s * TicksPerSecond \in Nat
    BY <1>1, BucketFacts
  <2> QED
    BY <1>1, <2>1
<1>5. s * Capacity = (s * TicksPerSecond) * Gain
  BY <1>1, BucketFacts
<1>6. waited * Gain >= s * Capacity /\ waited * Gain \in Nat /\ s * Capacity \in Nat
  <2> DEFINE n == s * TicksPerSecond
  <2>1. n \in Nat /\ waited >= n /\ s * Capacity = n * Gain
    BY <1>1, <1>4, <1>5, BucketFacts
  <2> HIDE DEF n, waited
  <2> QED
    BY <1>4, <2>1, BucketFacts
<1>7. Refilled \in Nat
  BY RefilledIs DEF BucketInv
<1> HIDE DEF waited
<1> DEFINE credit == waited * Gain
           due == s * Capacity
<1>8. /\ credit >= due /\ credit \in Nat /\ due \in Nat
      /\ Owed(r) = Least(Capacity, One - due + credit)
  BY <1>3, <1>6
<1> HIDE DEF credit, due
<1> QED
  BY <1>2, <1>7, <1>8, BucketFacts DEF Least

(* Between any two moments no more tokens are granted than the burst and    *)
(* what the rate gives for the time between them; and a client that waits   *)
(* as long as `Retry-After` told it finds a token, unless another request   *)
(* has taken one since.  For every rate of at least one request a second:   *)
(* below that the bucket, whose capacity is the rate, never holds a token.  *)
THEOREM RateIsHonoured ==
  ASSUME One <= Capacity
  PROVE  Spec => []RateHonoured
<1>1. BucketInv => RateHonoured
  BY BoundedHolds, HonestHolds DEF RateHonoured
<1> QED
  BY <1>1, BucketInvariant, PTL

(* The first half holds at every rate.                                      *)
THEOREM RateIsBounded == Spec => []RateBounded
BY BoundedHolds, BucketInvariant, PTL

-----------------------------------------------------------------------------
(* The rotating keys.                                                       *)

Kept(k) == k \in {keyPair.current, keyPair.previous}
Stored(k) == k \in {keyStore.current, keyStore.previous}

KeyTypes ==
    /\ keyNow \in Nat /\ keyRotated \in Nat /\ keyReadAt \in Nat
    /\ keyRotated <= keyNow /\ keyReadAt <= keyNow
    /\ keyStore \in Rotating!Pair /\ keyPair \in Rotating!Pair
    /\ keyIssuer \in [key : Rotating!Keys, since : Nat]
    /\ keyReadOk \in BOOLEAN
    /\ keyLock \in Rotating!Threads \cup {Nobody} /\ keyRead \in Rotating!Keys \cup {NoKey}
    /\ keyStep \in [Rotating!Threads ->
                      {"idle", "stale", "stamp", "current", "previous", "verify"}]
    /\ keyToken \in [Verifiers -> Rotating!Keys] /\ keyStaleAt \in [Rotating!Threads -> Nat]
    /\ keyExcuse \in [Verifiers -> BOOLEAN]

(* The documented procedure: the provider has every key a valid token can   *)
(* be signed with, and the issuer is one rotation behind at most.           *)
StoreHasTheKeys ==
    /\ \/ keyStore.current = keyIssuer.key
       \/ keyStore.current = keyIssuer.key + 1 /\ Rotating!OldTokensGone
    /\ \A k \in Rotating!Keys : Rotating!Valid(k) => Stored(k)

(* The lock is held by the thread that reads.                               *)
OneReads ==
    \A t \in Rotating!Threads :
      keyLock = t <=> keyStep[t] \in {"stamp", "current", "previous"}

(* A pair (or the `current` of one being read) is the provider's of a time  *)
(* after the stamp: what the issuer has that it lacks came Refresh later.   *)
ReadSince(current) ==
    /\ current <= keyStore.current
    /\ current < keyStore.current => keyReadAt <= keyRotated
    /\ current < keyIssuer.key => keyReadAt + RefreshTicks <= keyNow

PairIsKnown ==
    /\ keyPair.current <= keyStore.current
    /\ \A k \in Rotating!Keys : Rotating!Valid(k) /\ k <= keyPair.current => Kept(k)
    /\ keyLock = Nobody /\ keyReadOk => ReadSince(keyPair.current)
    /\ \A t \in Rotating!Threads :
         keyStep[t] = "previous" =>
           keyRead \in Rotating!Keys /\ keyPair.current <= keyRead /\ ReadSince(keyRead)

(* A token is no newer than the provider, and one that is checked without   *)
(* an excuse no newer than the pair it is checked with.                     *)
TokensAreKnown ==
    \A v \in Verifiers :
      /\ keyToken[v] <= keyStore.current
      /\ keyStep[v] = "previous" => keyToken[v] <= keyRead
      /\ keyStep[v] = "verify" /\ ~ keyExcuse[v] => keyToken[v] <= keyPair.current

(* A thread that is to read has found a stamp a floor old.                  *)
StaleIsOld ==
    \A t \in Rotating!Threads :
      keyStep[t] \in {"stale", "stamp"} => keyStaleAt[t] + FloorTicks <= keyNow

KeysInv == /\ KeyTypes /\ StoreHasTheKeys /\ OneReads /\ PairIsKnown /\ TokensAreKnown
           /\ StaleIsOld /\ RotationIsSmooth

LEMMA KeyFacts ==
    /\ RefreshTicks \in Nat /\ FloorTicks \in Nat \ {0} /\ Lifetime \in Nat
    /\ FloorTicks <= RefreshTicks
    /\ MaxKey \in Nat /\ Rotating!Keys = 0..MaxKey /\ NoKey \notin Rotating!Keys
    /\ Rotating!Threads = Verifiers \cup Probes /\ Nobody \notin Rotating!Threads
    /\ Rotating!Pair = [current : Rotating!Keys, previous : Rotating!Keys \cup {NoKey}]
BY InboundAssumption DEF Rotating!KeysAssumption, Rotating!Threads, Rotating!Keys,
    Rotating!Pair

LEMMA RotateKeepsKeys ==
    ASSUME KeysInv, Rotating!Rotate PROVE KeysInv'
<1> USE KeyFacts DEF KeysInv, Rotating!Rotate, Rotating!Goes, Rotating!storeVars,
    Rotating!readVars, Rotating!histVars
<1>1. KeyTypes'
  BY DEF KeyTypes
<1>2. StoreHasTheKeys'
  BY DEF KeyTypes, StoreHasTheKeys, Stored, Rotating!Valid, Rotating!OldTokensGone
<1>3. OneReads'
  BY DEF KeyTypes, OneReads
<1>4. PairIsKnown'
  BY DEF KeyTypes, StoreHasTheKeys, PairIsKnown, ReadSince, Kept, Stored, OneReads,
         Rotating!Valid, Rotating!OldTokensGone
<1>5. TokensAreKnown'
  BY DEF KeyTypes, StoreHasTheKeys, PairIsKnown, ReadSince, TokensAreKnown,
      OneReads,
         Rotating!Valid, Rotating!OldTokensGone
<1>6. StaleIsOld'
  BY DEF KeyTypes, StaleIsOld
<1>7. RotationIsSmooth'
  BY DEF KeyTypes, StaleIsOld, TokensAreKnown, PairIsKnown, Kept, RotationIsSmooth,
         Rotating!RotationIsSmooth, Rotating!RefusedOnlyWhileRefreshing, Rotating!ReadsAreSpaced
<1> QED
  BY <1>1, <1>2, <1>3, <1>4, <1>5, <1>6, <1>7

LEMMA IssuerSwitchesKeepsKeys ==
    ASSUME KeysInv, Rotating!IssuerSwitches PROVE KeysInv'
<1> USE KeyFacts DEF KeysInv, Rotating!IssuerSwitches, Rotating!Goes,
    Rotating!storeVars, Rotating!readVars, Rotating!histVars
<1>1. KeyTypes'
  BY DEF KeyTypes
<1>2. StoreHasTheKeys'
  BY DEF KeyTypes, StoreHasTheKeys, Stored, Rotating!Valid, Rotating!OldTokensGone
<1>3. OneReads'
  BY DEF KeyTypes, OneReads
<1>4. PairIsKnown'
  BY DEF KeyTypes, StoreHasTheKeys, PairIsKnown, ReadSince, Kept, Stored, OneReads,
         Rotating!Valid, Rotating!OldTokensGone
<1>5. TokensAreKnown'
  BY DEF KeyTypes, StoreHasTheKeys, PairIsKnown, ReadSince, TokensAreKnown,
      OneReads,
         Rotating!Valid, Rotating!OldTokensGone
<1>6. StaleIsOld'
  BY DEF KeyTypes, StaleIsOld
<1>7. RotationIsSmooth'
  BY DEF KeyTypes, StaleIsOld, TokensAreKnown, PairIsKnown, Kept, RotationIsSmooth,
         Rotating!RotationIsSmooth, Rotating!RefusedOnlyWhileRefreshing, Rotating!ReadsAreSpaced
<1> QED
  BY <1>1, <1>2, <1>3, <1>4, <1>5, <1>6, <1>7

LEMMA DeletePreviousKeepsKeys ==
    ASSUME KeysInv, Rotating!DeletePrevious PROVE KeysInv'
<1> USE KeyFacts DEF KeysInv, Rotating!DeletePrevious, Rotating!Goes,
    Rotating!storeVars, Rotating!readVars, Rotating!histVars
<1>1. KeyTypes'
  BY DEF KeyTypes
<1>2. StoreHasTheKeys'
  BY DEF KeyTypes, StoreHasTheKeys, Stored, Rotating!Valid, Rotating!OldTokensGone
<1>3. OneReads'
  BY DEF KeyTypes, OneReads
<1>4. PairIsKnown'
  BY DEF KeyTypes, StoreHasTheKeys, PairIsKnown, ReadSince, Kept, Stored, OneReads,
         Rotating!Valid, Rotating!OldTokensGone
<1>5. TokensAreKnown'
  BY DEF KeyTypes, StoreHasTheKeys, PairIsKnown, ReadSince, TokensAreKnown,
      OneReads,
         Rotating!Valid, Rotating!OldTokensGone
<1>6. StaleIsOld'
  BY DEF KeyTypes, StaleIsOld
<1>7. RotationIsSmooth'
  BY DEF KeyTypes, StaleIsOld, TokensAreKnown, PairIsKnown, Kept, RotationIsSmooth,
         Rotating!RotationIsSmooth, Rotating!RefusedOnlyWhileRefreshing, Rotating!ReadsAreSpaced
<1> QED
  BY <1>1, <1>2, <1>3, <1>4, <1>5, <1>6, <1>7

LEMMA TickKeepsKeys ==
    ASSUME KeysInv, Rotating!Tick PROVE KeysInv'
<1> USE KeyFacts DEF KeysInv, Rotating!Tick, Rotating!Goes, Rotating!storeVars,
    Rotating!readVars, Rotating!histVars
<1>1. KeyTypes'
  BY DEF KeyTypes
<1>2. StoreHasTheKeys'
  BY DEF KeyTypes, StoreHasTheKeys, Stored, Rotating!Valid, Rotating!OldTokensGone
<1>3. OneReads'
  BY DEF KeyTypes, OneReads
<1>4. PairIsKnown'
  BY DEF KeyTypes, StoreHasTheKeys, PairIsKnown, ReadSince, Kept, Stored, OneReads,
         Rotating!Valid, Rotating!OldTokensGone
<1>5. TokensAreKnown'
  BY DEF KeyTypes, StoreHasTheKeys, PairIsKnown, ReadSince, TokensAreKnown,
      OneReads,
         Rotating!Valid, Rotating!OldTokensGone
<1>6. StaleIsOld'
  BY DEF KeyTypes, StaleIsOld
<1>7. RotationIsSmooth'
  BY DEF KeyTypes, StaleIsOld, TokensAreKnown, PairIsKnown, Kept, RotationIsSmooth,
         Rotating!RotationIsSmooth, Rotating!RefusedOnlyWhileRefreshing, Rotating!ReadsAreSpaced
<1> QED
  BY <1>1, <1>2, <1>3, <1>4, <1>5, <1>6, <1>7

LEMMA VerifyKeepsKeys ==
    ASSUME KeysInv, NEW v \in Verifiers, Rotating!Verify(v) PROVE KeysInv'
<1> USE KeyFacts DEF KeysInv, Rotating!Verify, Rotating!Goes, Rotating!storeVars,
    Rotating!readVars, Rotating!histVars, Rotating!Unsettled
<1>1. KeyTypes'
  <2>1. v \in Rotating!Threads
    OBVIOUS
  <2>2. keyStep' \in [Rotating!Threads ->
                       {"idle", "stale", "stamp", "current", "previous", "verify"}]
    BY ZenonT(60), <2>1 DEF KeyTypes
  <2>3. keyStaleAt' \in [Rotating!Threads -> Nat]
    BY ZenonT(60), <2>1 DEF KeyTypes
  <2>4. keyExcuse' \in [Verifiers -> BOOLEAN] /\ keyToken' \in [Verifiers -> Rotating!Keys]
    BY DEF KeyTypes
  <2>5. keyPair' \in Rotating!Pair /\ keyLock' \in Rotating!Threads \cup {Nobody}
    BY <2>1 DEF KeyTypes, PairIsKnown
  <2> QED
    BY <2>2, <2>3, <2>4, <2>5 DEF KeyTypes
<1>2. StoreHasTheKeys'
  BY DEF KeyTypes, StoreHasTheKeys, Stored, Rotating!Valid, Rotating!OldTokensGone
<1>3. OneReads'
  BY DEF KeyTypes, OneReads
<1>4. PairIsKnown'
  BY DEF KeyTypes, StoreHasTheKeys, PairIsKnown, ReadSince, Kept, Stored, OneReads,
         Rotating!Valid, Rotating!OldTokensGone
<1>5. TokensAreKnown'
  <2>1. PICK k \in Rotating!Keys : Rotating!Valid(k) /\ keyToken' = [keyToken EXCEPT ![v] = k]
    OBVIOUS
  <2>2. k \in Nat /\ k <= keyIssuer.key /\ keyIssuer.key <= keyStore.current
    BY <2>1 DEF KeyTypes, StoreHasTheKeys, Rotating!Valid
  <2>3. keyStep'[v] = "verify" /\ ~ keyExcuse'[v] => k <= keyPair.current
    <3>1. SUFFICES ASSUME keyStep'[v] = "verify", ~ keyExcuse'[v] PROVE k <= keyPair.current
      OBVIOUS
    <3>2. keyLock = Nobody /\ keyReadOk /\ ~ (keyReadAt + RefreshTicks <= keyNow)
      <4>1. keyExcuse'[v] = Rotating!Unsettled
        BY DEF KeyTypes
      <4>2. ~ Rotating!Unsettled
        BY <3>1, <4>1
      <4>3. keyNow - keyReadAt < RefreshTicks
        BY <3>1 DEF KeyTypes
      <4> QED
        BY <4>2, <4>3 DEF KeyTypes
    <3>3. ~ (keyPair.current < keyIssuer.key)
      BY <3>2 DEF PairIsKnown, ReadSince
    <3> QED
      BY <2>2, <3>3 DEF KeyTypes
  <2>4. keyStep'[v] # "previous"
    BY DEF KeyTypes
  <2>5. ASSUME NEW w \in Verifiers, w # v
        PROVE  /\ keyToken'[w] = keyToken[w] /\ keyStep'[w] = keyStep[w]
               /\ keyExcuse'[w] = keyExcuse[w]
    BY <2>1, <2>5 DEF KeyTypes
  <2>6. keyToken'[v] = k /\ k <= keyStore.current
    BY <2>1, <2>2 DEF KeyTypes
  <2> QED
    BY <2>3, <2>4, <2>5, <2>6 DEF TokensAreKnown
<1>6. StaleIsOld'
  BY SMTT(60) DEF KeyTypes, StaleIsOld
<1>7. RotationIsSmooth'
  BY DEF KeyTypes, StaleIsOld, TokensAreKnown, PairIsKnown, Kept, RotationIsSmooth,
         Rotating!RotationIsSmooth, Rotating!RefusedOnlyWhileRefreshing, Rotating!ReadsAreSpaced
<1> QED
  BY <1>1, <1>2, <1>3, <1>4, <1>5, <1>6, <1>7

LEMMA TryLockKeepsKeys ==
    ASSUME KeysInv, NEW v \in Verifiers, Rotating!TryLock(v) PROVE KeysInv'
<1> USE KeyFacts DEF KeysInv, Rotating!TryLock, Rotating!Goes, Rotating!storeVars,
    Rotating!readVars, Rotating!histVars
<1>1. KeyTypes'
  <2>1. v \in Rotating!Threads
    OBVIOUS
  <2>2. /\ \/ keyStep' = [keyStep EXCEPT ![v] = "stamp"]
           \/ keyStep' = [keyStep EXCEPT ![v] = "verify"]
        /\ keyStaleAt' = keyStaleAt \/ keyStaleAt' = [keyStaleAt EXCEPT ![v] = 0]
    OBVIOUS
  <2> HIDE DEF Rotating!TryLock
  <2>6. keyStep' \in [Rotating!Threads ->
                       {"idle", "stale", "stamp", "current", "previous", "verify"}]
    BY <2>1, <2>2 DEF KeyTypes
  <2>3. keyStaleAt' \in [Rotating!Threads -> Nat]
    <3>1. keyStaleAt \in [Rotating!Threads -> Nat] /\ 0 \in Nat
      BY DEF KeyTypes
    <3>2. CASE keyStaleAt' = keyStaleAt
      BY <3>1, <3>2
    <3>3. CASE keyStaleAt' = [keyStaleAt EXCEPT ![v] = 0]
      BY <2>1, <3>1, <3>3
    <3> QED
      BY <2>2, <3>2, <3>3
  <2> USE DEF Rotating!TryLock
  <2>4. keyExcuse' \in [Verifiers -> BOOLEAN] /\ keyToken' \in [Verifiers -> Rotating!Keys]
    BY DEF KeyTypes
  <2>5. keyPair' \in Rotating!Pair /\ keyLock' \in Rotating!Threads \cup {Nobody}
    BY <2>1 DEF KeyTypes, PairIsKnown
  <2> QED
    BY <2>6, <2>3, <2>4, <2>5 DEF KeyTypes
<1>2. StoreHasTheKeys'
  BY DEF KeyTypes, StoreHasTheKeys, Stored, Rotating!Valid, Rotating!OldTokensGone
<1>3. OneReads'
  BY DEF KeyTypes, OneReads
<1>4. PairIsKnown'
  BY DEF KeyTypes, StoreHasTheKeys, PairIsKnown, ReadSince, Kept, Stored, OneReads,
         Rotating!Valid, Rotating!OldTokensGone
<1>5. TokensAreKnown'
  BY DEF KeyTypes, StoreHasTheKeys, PairIsKnown, ReadSince, TokensAreKnown,
      OneReads,
         Rotating!Valid, Rotating!OldTokensGone
<1>6. StaleIsOld'
  BY ZenonT(60) DEF KeyTypes, StaleIsOld
<1>7. RotationIsSmooth'
  BY DEF KeyTypes, StaleIsOld, TokensAreKnown, PairIsKnown, Kept, RotationIsSmooth,
         Rotating!RotationIsSmooth, Rotating!RefusedOnlyWhileRefreshing, Rotating!ReadsAreSpaced
<1> QED
  BY <1>1, <1>2, <1>3, <1>4, <1>5, <1>6, <1>7

LEMMA AnswerKeepsKeys ==
    ASSUME KeysInv, NEW v \in Verifiers, Rotating!Answer(v) PROVE KeysInv'
<1> USE KeyFacts DEF KeysInv, Rotating!Answer, Rotating!Goes, Rotating!storeVars,
    Rotating!readVars, Rotating!histVars, Rotating!Accepts
<1>1. KeyTypes'
  BY DEF KeyTypes
<1>2. StoreHasTheKeys'
  BY DEF KeyTypes, StoreHasTheKeys, Stored, Rotating!Valid, Rotating!OldTokensGone
<1>3. OneReads'
  BY DEF KeyTypes, OneReads
<1>4. PairIsKnown'
  BY DEF KeyTypes, StoreHasTheKeys, PairIsKnown, ReadSince, Kept, Stored, OneReads,
         Rotating!Valid, Rotating!OldTokensGone
<1>5. TokensAreKnown'
  BY DEF KeyTypes, StoreHasTheKeys, PairIsKnown, ReadSince, TokensAreKnown,
      OneReads,
         Rotating!Valid, Rotating!OldTokensGone
<1>6. StaleIsOld'
  BY DEF KeyTypes, StaleIsOld
<1>7. RotationIsSmooth'
  BY DEF KeyTypes, StaleIsOld, TokensAreKnown, PairIsKnown, Kept, RotationIsSmooth,
         Rotating!RotationIsSmooth, Rotating!RefusedOnlyWhileRefreshing, Rotating!ReadsAreSpaced
<1> QED
  BY <1>1, <1>2, <1>3, <1>4, <1>5, <1>6, <1>7

LEMMA ProbeKeepsKeys ==
    ASSUME KeysInv, NEW p \in Probes, Rotating!Probe(p) PROVE KeysInv'
<1> USE KeyFacts DEF KeysInv, Rotating!Probe, Rotating!Goes, Rotating!storeVars,
    Rotating!readVars, Rotating!histVars
<1>1. KeyTypes'
  <2>1. p \in Rotating!Threads
    OBVIOUS
  <2>2. keyStep' = keyStep \/ keyStep' = [keyStep EXCEPT ![p] = "stamp"]
    OBVIOUS
  <2>6. keyStep' \in [Rotating!Threads ->
                       {"idle", "stale", "stamp", "current", "previous", "verify"}]
    BY <2>1, <2>2 DEF KeyTypes
  <2>3. keyStaleAt' \in [Rotating!Threads -> Nat]
    BY ZenonT(60), <2>1 DEF KeyTypes
  <2>4. keyExcuse' \in [Verifiers -> BOOLEAN] /\ keyToken' \in [Verifiers -> Rotating!Keys]
    BY DEF KeyTypes
  <2>5. keyPair' \in Rotating!Pair /\ keyLock' \in Rotating!Threads \cup {Nobody}
    BY <2>1 DEF KeyTypes, PairIsKnown
  <2> QED
    BY <2>6, <2>3, <2>4, <2>5 DEF KeyTypes
<1>2. StoreHasTheKeys'
  BY DEF KeyTypes, StoreHasTheKeys, Stored, Rotating!Valid, Rotating!OldTokensGone
<1>3. OneReads'
  BY DEF KeyTypes, OneReads
<1>4. PairIsKnown'
  BY DEF KeyTypes, StoreHasTheKeys, PairIsKnown, ReadSince, Kept, Stored, OneReads,
         Rotating!Valid, Rotating!OldTokensGone
<1>5. TokensAreKnown'
  BY DEF KeyTypes, StoreHasTheKeys, PairIsKnown, ReadSince, TokensAreKnown,
      OneReads,
         Rotating!Valid, Rotating!OldTokensGone
<1>6. StaleIsOld'
  BY SMTT(60) DEF KeyTypes, StaleIsOld
<1>7. RotationIsSmooth'
  BY DEF KeyTypes, StaleIsOld, TokensAreKnown, PairIsKnown, Kept, RotationIsSmooth,
         Rotating!RotationIsSmooth, Rotating!RefusedOnlyWhileRefreshing, Rotating!ReadsAreSpaced
<1> QED
  BY <1>1, <1>2, <1>3, <1>4, <1>5, <1>6, <1>7

LEMMA StampKeepsKeys ==
    ASSUME KeysInv, NEW t \in Rotating!Threads, Rotating!Stamp(t) PROVE KeysInv'
<1> USE KeyFacts DEF KeysInv, Rotating!Stamp, Rotating!Goes, Rotating!storeVars,
    Rotating!readVars, Rotating!histVars
<1>1. KeyTypes'
  BY DEF KeyTypes
<1>2. StoreHasTheKeys'
  BY DEF KeyTypes, StoreHasTheKeys, Stored, Rotating!Valid, Rotating!OldTokensGone
<1>3. OneReads'
  BY DEF KeyTypes, OneReads
<1>4. PairIsKnown'
  BY DEF KeyTypes, StoreHasTheKeys, PairIsKnown, ReadSince, Kept, Stored, OneReads,
         Rotating!Valid, Rotating!OldTokensGone
<1>5. TokensAreKnown'
  BY DEF KeyTypes, StoreHasTheKeys, PairIsKnown, ReadSince, TokensAreKnown,
      OneReads,
         Rotating!Valid, Rotating!OldTokensGone
<1>6. StaleIsOld'
  BY DEF KeyTypes, StaleIsOld
<1>7. RotationIsSmooth'
  <2>1. keyStaleAt[t] \in Nat /\ keyStaleAt[t] + FloorTicks <= keyNow /\ keyReadAt \in Nat
    BY DEF KeyTypes, StaleIsOld
  <2>2. ~ (keyStaleAt[t] = keyReadAt /\ keyNow < keyReadAt + FloorTicks)
    BY <2>1 DEF KeyTypes
  <2> QED
    BY <2>2 DEF RotationIsSmooth, Rotating!RotationIsSmooth,
                Rotating!RefusedOnlyWhileRefreshing, Rotating!ReadsAreSpaced
<1> QED
  BY <1>1, <1>2, <1>3, <1>4, <1>5, <1>6, <1>7

LEMMA GetCurrentKeepsKeys ==
    ASSUME KeysInv, NEW t \in Rotating!Threads, Rotating!GetCurrent(t) PROVE KeysInv'
<1> USE KeyFacts DEF KeysInv, Rotating!GetCurrent, Rotating!Goes,
    Rotating!storeVars, Rotating!readVars, Rotating!histVars
<1>1. KeyTypes'
  BY DEF KeyTypes
<1>2. StoreHasTheKeys'
  BY DEF KeyTypes, StoreHasTheKeys, Stored, Rotating!Valid, Rotating!OldTokensGone
<1>3. OneReads'
  BY DEF KeyTypes, OneReads
<1>4. PairIsKnown'
  BY DEF KeyTypes, StoreHasTheKeys, PairIsKnown, ReadSince, Kept, Stored, OneReads,
         Rotating!Valid, Rotating!OldTokensGone
<1>5. TokensAreKnown'
  BY DEF KeyTypes, StoreHasTheKeys, PairIsKnown, ReadSince, TokensAreKnown,
      OneReads,
         Rotating!Valid, Rotating!OldTokensGone
<1>6. StaleIsOld'
  BY DEF KeyTypes, StaleIsOld
<1>7. RotationIsSmooth'
  BY DEF KeyTypes, StaleIsOld, TokensAreKnown, PairIsKnown, Kept, RotationIsSmooth,
         Rotating!RotationIsSmooth, Rotating!RefusedOnlyWhileRefreshing, Rotating!ReadsAreSpaced
<1> QED
  BY <1>1, <1>2, <1>3, <1>4, <1>5, <1>6, <1>7

LEMMA InstallKeepsKeys ==
    ASSUME KeysInv, NEW t \in Rotating!Threads, Rotating!Install(t) PROVE KeysInv'
<1> USE KeyFacts DEF KeysInv, Rotating!Install, Rotating!Goes, Rotating!storeVars,
    Rotating!readVars, Rotating!histVars, Rotating!Release
<1>1. KeyTypes'
  <2>1. t \in Rotating!Threads
    OBVIOUS
  <2>2. keyStep' \in [Rotating!Threads ->
                       {"idle", "stale", "stamp", "current", "previous", "verify"}]
    BY <2>1 DEF KeyTypes
  <2>3. keyStaleAt' \in [Rotating!Threads -> Nat]
    BY <2>1 DEF KeyTypes
  <2>4. keyExcuse' \in [Verifiers -> BOOLEAN] /\ keyToken' \in [Verifiers -> Rotating!Keys]
    BY DEF KeyTypes
  <2>5. keyPair' \in Rotating!Pair /\ keyLock' \in Rotating!Threads \cup {Nobody}
    BY <2>1 DEF KeyTypes, PairIsKnown
  <2> QED
    BY <2>2, <2>3, <2>4, <2>5 DEF KeyTypes
<1>2. StoreHasTheKeys'
  BY DEF KeyTypes, StoreHasTheKeys, Stored, Rotating!Valid, Rotating!OldTokensGone
<1>3. OneReads'
  BY DEF KeyTypes, OneReads
<1>4. PairIsKnown'
  BY DEF KeyTypes, StoreHasTheKeys, PairIsKnown, ReadSince, Kept, Stored, OneReads,
         Rotating!Valid, Rotating!OldTokensGone
<1>5. TokensAreKnown'
  BY DEF KeyTypes, StoreHasTheKeys, PairIsKnown, ReadSince, TokensAreKnown,
      OneReads,
         Rotating!Valid, Rotating!OldTokensGone
<1>6. StaleIsOld'
  BY DEF KeyTypes, StaleIsOld
<1>7. RotationIsSmooth'
  BY DEF KeyTypes, StaleIsOld, TokensAreKnown, PairIsKnown, Kept, RotationIsSmooth,
         Rotating!RotationIsSmooth, Rotating!RefusedOnlyWhileRefreshing, Rotating!ReadsAreSpaced
<1> QED
  BY <1>1, <1>2, <1>3, <1>4, <1>5, <1>6, <1>7

LEMMA ReadFailsKeepsKeys ==
    ASSUME KeysInv, NEW t \in Rotating!Threads, Rotating!ReadFails(t) PROVE KeysInv'
<1> USE KeyFacts DEF KeysInv, Rotating!ReadFails, Rotating!Goes,
    Rotating!storeVars, Rotating!readVars, Rotating!histVars, Rotating!Release
<1>1. KeyTypes'
  BY DEF KeyTypes
<1>2. StoreHasTheKeys'
  BY DEF KeyTypes, StoreHasTheKeys, Stored, Rotating!Valid, Rotating!OldTokensGone
<1>3. OneReads'
  BY DEF KeyTypes, OneReads
<1>4. PairIsKnown'
  BY DEF KeyTypes, StoreHasTheKeys, PairIsKnown, ReadSince, Kept, Stored, OneReads,
         Rotating!Valid, Rotating!OldTokensGone
<1>5. TokensAreKnown'
  BY DEF KeyTypes, StoreHasTheKeys, PairIsKnown, ReadSince, TokensAreKnown,
      OneReads,
         Rotating!Valid, Rotating!OldTokensGone
<1>6. StaleIsOld'
  BY DEF KeyTypes, StaleIsOld
<1>7. RotationIsSmooth'
  BY DEF KeyTypes, StaleIsOld, TokensAreKnown, PairIsKnown, Kept, RotationIsSmooth,
         Rotating!RotationIsSmooth, Rotating!RefusedOnlyWhileRefreshing, Rotating!ReadsAreSpaced
<1> QED
  BY <1>1, <1>2, <1>3, <1>4, <1>5, <1>6, <1>7

LEMMA KeysInit == Rotating!Init => KeysInv
<1> SUFFICES ASSUME Rotating!Init PROVE KeysInv
  OBVIOUS
<1> USE KeyFacts DEF Rotating!Init
<1>1. KeyTypes
  BY DEF KeyTypes
<1>2. StoreHasTheKeys
  BY DEF StoreHasTheKeys, Stored, Rotating!Valid, Rotating!OldTokensGone
<1>3. OneReads /\ TokensAreKnown /\ StaleIsOld
  BY DEF OneReads, TokensAreKnown, StaleIsOld
<1>4. PairIsKnown
  BY DEF PairIsKnown, ReadSince, Kept
<1>5. RotationIsSmooth
  BY DEF RotationIsSmooth, Rotating!RotationIsSmooth,
      Rotating!RefusedOnlyWhileRefreshing,
         Rotating!ReadsAreSpaced
<1> QED
  BY <1>1, <1>2, <1>3, <1>4, <1>5 DEF KeysInv

LEMMA KeysStutter == KeysInv /\ UNCHANGED rotatingVars => KeysInv'
<1> SUFFICES ASSUME KeysInv, UNCHANGED rotatingVars PROVE KeysInv'
  OBVIOUS
<1> USE DEF KeysInv, rotatingVars
<1>1. KeyTypes' /\ OneReads' /\ StaleIsOld'
  BY DEF KeyTypes, OneReads, StaleIsOld
<1>2. StoreHasTheKeys'
  BY DEF StoreHasTheKeys, Stored, Rotating!Valid, Rotating!OldTokensGone
<1>3. PairIsKnown'
  BY DEF PairIsKnown, ReadSince, Kept, Rotating!Valid, Rotating!OldTokensGone
<1>4. TokensAreKnown' /\ RotationIsSmooth'
  BY DEF TokensAreKnown, RotationIsSmooth, Rotating!RotationIsSmooth,
         Rotating!RefusedOnlyWhileRefreshing, Rotating!ReadsAreSpaced
<1> QED
  BY <1>1, <1>2, <1>3, <1>4

LEMMA KeysStep == KeysInv /\ Rotating!Next => KeysInv'
BY RotateKeepsKeys, IssuerSwitchesKeepsKeys, DeletePreviousKeepsKeys, TickKeepsKeys,
   VerifyKeepsKeys, TryLockKeepsKeys, AnswerKeepsKeys, ProbeKeepsKeys, StampKeepsKeys,
   GetCurrentKeepsKeys, InstallKeepsKeys, ReadFailsKeepsKeys DEF Rotating!Next

(* A rotation by the documented procedure is noticed by nobody: a token that *)
(* has not expired is refused only by a thread that found a re-read under    *)
(* way, or after one failed, although the two reads of the provider may      *)
(* straddle the rotation; and a re-read begins a floor after the stamp that  *)
(* its thread found (drivers.py, RotatingHmacTokenProvider): for any number  *)
(* of threads, rotations, and any refresh, floor and lifetime.               *)
THEOREM RotationGoesUnnoticed == MCSpec => []RotationIsSmooth
<1>1. MCInit => KeysInv
  BY KeysInit DEF MCInit
<1>2. KeysInv /\ [MCNext]_allVars => KeysInv'
  BY KeysStep, KeysStutter DEF MCNext, ShellNext, KeysNext, McpNext, RowsNext,
      allVars
<1>3. KeysInv => RotationIsSmooth
  BY DEF KeysInv
<1> QED
  BY <1>1, <1>2, <1>3, PTL DEF MCSpec

-----------------------------------------------------------------------------
(* The MCP server, as MCInbound instantiates it, and as the theorems of     *)
(* McpHttpProofs know it.                                                   *)

McpProved == INSTANCE McpHttpProofs WITH Calls <- MCCalls, CallProfiles <- MCCallProfiles

LEMMA McpAssumptionHolds == McpProved!McpAssumption
BY InboundAssumption DEF Mcp!McpAssumption, McpProved!McpAssumption, Mcp!Request,
   McpProved!Request, Mcp!Checks, McpProved!Checks, Mcp!Prelude, McpProved!Prelude,
   Mcp!ReadMessage, McpProved!ReadMessage, Mcp!Range, McpProved!Range

LEMMA CallsAreFinite == McpProved!IsFiniteSet(MCCalls)
<1>1. IsFiniteSet({c1})
  BY FS_EmptySet, FS_AddElement, {c1} = {} \cup {c1}
<1>2. IsFiniteSet({c1, c2})
  BY <1>1, FS_AddElement, {c1, c2} = {c1} \cup {c2}
<1>3. IsFiniteSet({c1, c2, c3})
  BY <1>2, FS_AddElement, {c1, c2, c3} = {c1, c2} \cup {c3}
<1>4. IsFiniteSet(MCCalls)
  BY <1>3, FS_AddElement, {c1, c2, c3, c4} = {c1, c2, c3} \cup {c4} DEF MCCalls
<1> QED
  BY <1>4 DEF IsFiniteSet, McpProved!IsFiniteSet

LEMMA SameChecks ==
  /\ \A r, from, to : Mcp!Goes(r, from, to) <=> McpProved!Goes(r, from, to)
  /\ \A r, what : Mcp!Gets(r, what) <=> McpProved!Gets(r, what)
  /\ \A r : Mcp!HasSession(r) <=> McpProved!HasSession(r)
  /\ \A p : Mcp!IsToolCall(p) <=> McpProved!IsToolCall(p)
  /\ \A p : Mcp!NeedsSession(p) <=> McpProved!NeedsSession(p)
BY DEF Mcp!Goes, McpProved!Goes, Mcp!Gets, McpProved!Gets, Mcp!HasSession,
   McpProved!HasSession, Mcp!Range, McpProved!Range, Mcp!IsToolCall,
   McpProved!IsToolCall, Mcp!NeedsSession, McpProved!NeedsSession

LEMMA SameRefusal == \A p : Mcp!RefusedAs(p) = McpProved!RefusedAs(p)
<1>1. \A p, checks : Mcp!FirstFailing(p, checks) = McpProved!FirstFailing(p, checks)
  BY DEF Mcp!FirstFailing, McpProved!FirstFailing
<1>2. Mcp!Prelude = McpProved!Prelude /\ Mcp!ReadMessage = McpProved!ReadMessage
  BY DEF Mcp!Prelude, McpProved!Prelude, Mcp!ReadMessage, McpProved!ReadMessage
<1> QED
  BY <1>1, <1>2, SameChecks DEF Mcp!RefusedAs, McpProved!RefusedAs

LEMMA SameCall ==
  ASSUME NEW r \in MCCalls
  PROVE  /\ Mcp!Arrive(r) => McpProved!Arrive(r)
         /\ Mcp!ThreadStep(r) => McpProved!ThreadStep(r)
         /\ Mcp!ChildEnds(r) => McpProved!ChildEnds(r)
<1>1. Mcp!Arrive(r) => McpProved!Arrive(r)
  BY SameChecks, SameRefusal DEF Mcp!Arrive, McpProved!Arrive, Mcp!sessionVars,
      McpProved!sessionVars
<1>2. Mcp!FindSession(r) => McpProved!FindSession(r)
  BY SameChecks DEF Mcp!FindSession, McpProved!FindSession, Mcp!sessionVars,
      McpProved!sessionVars
<1>3. Mcp!EndSession(r) => McpProved!EndSession(r)
  BY SameChecks DEF Mcp!EndSession, McpProved!EndSession, Mcp!sessionVars,
      McpProved!sessionVars, Mcp!RemoveAt, McpProved!RemoveAt
<1>4. Mcp!Handle(r) => McpProved!Handle(r)
  BY SameChecks DEF Mcp!Handle, McpProved!Handle, Mcp!sessionVars,
      McpProved!sessionVars
<1>5. Mcp!OpenSession(r) => McpProved!OpenSession(r)
  BY SameChecks DEF Mcp!OpenSession, McpProved!OpenSession, Mcp!sessionVars,
      McpProved!sessionVars, Mcp!Kept, McpProved!Kept
<1>6. Mcp!Acquire(r) => McpProved!Acquire(r)
  BY SameChecks DEF Mcp!Acquire, McpProved!Acquire, Mcp!sessionVars,
      McpProved!sessionVars
<1>7. Mcp!Spawn(r) => McpProved!Spawn(r)
  BY SameChecks DEF Mcp!Spawn, McpProved!Spawn, Mcp!sessionVars,
      McpProved!sessionVars
<1>8. Mcp!SpawnFails(r) => McpProved!SpawnFails(r)
  BY SameChecks DEF Mcp!SpawnFails, McpProved!SpawnFails, Mcp!sessionVars,
      McpProved!sessionVars
<1>9. Mcp!Collect(r) => McpProved!Collect(r)
  BY SameChecks DEF Mcp!Collect, McpProved!Collect, Mcp!sessionVars,
      McpProved!sessionVars, Mcp!Outcomes, McpProved!Outcomes
<1>10. Mcp!TimeOut(r) => McpProved!TimeOut(r)
  BY SameChecks DEF Mcp!TimeOut, McpProved!TimeOut, Mcp!sessionVars,
      McpProved!sessionVars
<1>11. Mcp!Release(r) => McpProved!Release(r)
  BY SameChecks DEF Mcp!Release, McpProved!Release, Mcp!sessionVars,
      McpProved!sessionVars
<1>12. Mcp!ChildEnds(r) => McpProved!ChildEnds(r)
  BY DEF Mcp!ChildEnds, McpProved!ChildEnds, Mcp!sessionVars, McpProved!sessionVars
<1> QED
  BY <1>1, <1>2, <1>3, <1>4, <1>5, <1>6, <1>7, <1>8, <1>9, <1>10, <1>11, <1>12
     DEF Mcp!ThreadStep, McpProved!ThreadStep

LEMMA SameBehaviours == MCSpec => McpProved!Spec
<1>1. MCInit => McpProved!Init
  BY DEF MCInit, Mcp!Init, McpProved!Init
<1>2. [MCNext]_allVars => [McpProved!Next]_(McpProved!callVars)
  <2>1. CASE McpNext
    BY <2>1, SameCall DEF McpNext, Mcp!Next, McpProved!Next
  <2>2. CASE ShellNext \/ KeysNext \/ RowsNext \/ UNCHANGED allVars
    BY <2>2 DEF ShellNext, KeysNext, RowsNext, allVars, callVars,
        McpProved!callVars,
       McpProved!sessionVars
  <2> QED
    BY <2>1, <2>2 DEF MCNext
<1> QED
  BY <1>1, <1>2, PTL DEF MCSpec, McpProved!Spec

(* What the MCP server over HTTP promises, beside whatever else happens:     *)
(* slots, children and calls add up (run_tool_call), and a session's end is  *)
(* final (end_session, has_session, new_session).                           *)
THEOREM SlotsAndSessionsStayExact == MCSpec => []SlotsAndSessionsAreExact
<1>1. MCSpec => []McpProved!SlotsAreExact
  BY SameBehaviours, McpAssumptionHolds, CallsAreFinite, McpProved!SlotsStayExact,
      PTL
<1>2. MCSpec => []McpProved!SessionsAreHonest
  BY SameBehaviours, McpAssumptionHolds, McpProved!SessionsStayHonest, PTL
<1>3. McpProved!SlotsAreExact => Mcp!SlotsAreExact
  <2>1. \A S : McpProved!Cardinality(S) = Mcp!Cardinality(S)
    BY DEF McpProved!Cardinality, Mcp!Cardinality, McpProved!IsFiniteSet,
        Mcp!IsFiniteSet
  <2> QED
    BY <2>1 DEF McpProved!SlotsAreExact, Mcp!SlotsAreExact, McpProved!Holding,
        Mcp!Holding,
       McpProved!ToolPlaces, Mcp!ToolPlaces
<1>4. McpProved!SessionsAreHonest => Mcp!SessionsAreHonest
  BY SameChecks DEF McpProved!SessionsAreHonest, Mcp!SessionsAreHonest,
     McpProved!Outcomes, Mcp!Outcomes
<1> QED
  BY <1>1, <1>2, <1>3, <1>4, PTL DEF SlotsAndSessionsAreExact

-----------------------------------------------------------------------------
(* A conditional request.                                                   *)

RowOf == [value : SortValues \cup {Res!Absent}, version : Nat]

(* While the request is under way and its row is no new one, the row is as  *)
(* the client saw it, or another run wrote to it and it is gone or ahead.   *)
TagIsDated ==
  postAt \in {"holding", "posted", "passed", "read"} =>
    /\ postKey \in ListKeys /\ tag \in Nat \ {0}
    /\ ~reborn /\ ~meddled => rows[postKey].version = tag
    /\ ~reborn /\ meddled => rows[postKey] = Res!Gone \/ rows[postKey].version > tag

Excused == unchecked \/ overtaken \/ reborn

MatchInv ==
  /\ rows \in [ListKeys -> RowOf] /\ bound \in Nat
  /\ \A k \in ListKeys : rows[k] # Res!Gone => rows[k].version # 0
  /\ TagIsDated
  /\ postAt = "idle" => ~meddled
  /\ postAt = "passed" => (meddled => Excused)
  /\ postAt = "read" => (bound # tag => Excused)
  /\ postAt = "ran" => (meddled \/ bound # tag => Excused)

(* Another run's write.                                                     *)
LEMMA WriteMatches ==
  ASSUME MatchInv, NEW k \in ListKeys, NEW row \in RowOf, Res!Writes(k, row),
         row # Res!Gone => row.version # 0,
         rows[k] # Res!Gone => row = Res!Gone \/ row.version = rows[k].version + 1
  PROVE  MatchInv'
<1>1. /\ rows' = [rows EXCEPT ![k] = row]
      /\ meddled' = (meddled \/ (k = postKey /\ postAt \in {"holding", "posted", "passed", "read"}))
      /\ overtaken' = (overtaken \/ (k = postKey /\ postAt = "passed"))
      /\ reborn' = (reborn \/ (k = postKey /\ rows[k] = Res!Gone))
      /\ UNCHANGED <<postAt, postKey, tag, bound, unchecked>>
  BY DEF Res!Writes, Res!Meddles
<1>2. rows' \in [ListKeys -> RowOf] /\ rows'[k] = row
      /\ \A j \in ListKeys : j # k => rows'[j] = rows[j]
  BY <1>1 DEF MatchInv
<1>3. TagIsDated'
  <2> SUFFICES ASSUME postAt \in {"holding", "posted", "passed", "read"}, ~reborn'
               PROVE  /\ postKey \in ListKeys /\ tag \in Nat \ {0}
                      /\ ~meddled' => rows'[postKey].version = tag
                      /\ meddled' => rows'[postKey] = Res!Gone \/ rows'[postKey].version > tag
    BY <1>1 DEF MatchInv, TagIsDated
  <2>1. postKey \in ListKeys /\ tag \in Nat \ {0} /\ ~reborn
    BY <1>1 DEF MatchInv, TagIsDated
  <2>2. CASE k # postKey
    BY <1>1, <1>2, <2>1, <2>2 DEF MatchInv, TagIsDated
  <2>3. CASE k = postKey
    <3>1. meddled' /\ rows[k] # Res!Gone
      BY <1>1, <2>1, <2>3
    <3>2. rows[k].version \in Nat /\ rows[k].version >= tag
      BY <2>1, <2>3, <3>1 DEF MatchInv, TagIsDated, RowOf
    <3>3. row = Res!Gone \/ row.version > tag
      BY <2>1, <3>1, <3>2
    <3> QED
      BY <1>2, <2>1, <2>3, <3>1, <3>3
  <2> QED
    BY <2>2, <2>3
<1>4. \A j \in ListKeys : rows'[j] # Res!Gone => rows'[j].version # 0
  BY <1>2 DEF MatchInv
<1> QED
  BY <1>1, <1>2, <1>3, <1>4 DEF MatchInv, Excused

LEMMA OthersMatch ==
  ASSUME MatchInv, NEW k \in ListKeys, Res!Create(k) \/ Res!SetRow(k) \/ Res!Delete(k)
  PROVE  MatchInv'
<1>1. Res!Gone \in RowOf /\ Res!Gone.version = 0
  BY DEF Res!Gone, RowOf, Res!Absent
<1>2. rows[k] \in RowOf /\ rows[k].version \in Nat
  BY DEF MatchInv, RowOf
<1>3. CASE Res!Create(k)
  <2>1. PICK v \in SortValues \cup {Res!Absent} :
          Res!Writes(k, [value |-> v, version |-> Res!Fresh])
    BY <1>3 DEF Res!Create
  <2>2. [value |-> v, version |-> Res!Fresh] \in RowOf /\ rows[k] = Res!Gone
    BY <1>3 DEF Res!Create, Res!Fresh, RowOf
  <2> QED
    BY <2>1, <2>2, WriteMatches DEF Res!Fresh
<1>4. CASE Res!SetRow(k)
  <2>1. PICK v \in SortValues \cup {Res!Absent} :
          Res!Writes(k, [value |-> v, version |-> rows[k].version + 1])
    BY <1>4 DEF Res!SetRow
  <2>2. [value |-> v, version |-> rows[k].version + 1] \in RowOf
    BY <1>2 DEF RowOf
  <2> QED
    BY <1>2, <2>1, <2>2, WriteMatches
<1>5. CASE Res!Delete(k)
  BY <1>1, <1>5, WriteMatches DEF Res!Delete
<1> QED
  BY <1>3, <1>4, <1>5

LEMMA RequestMatches ==
  ASSUME MatchInv,
         \/ \E k \in ListKeys : Res!GetSingle(k)
         \/ Res!Post \/ Res!CheckPasses \/ Res!CheckRefuses \/ Res!CheckFaults
         \/ Res!RunReads \/ Res!RunWrites
  PROVE  MatchInv'
<1> USE DEF Res!PostGoes, Res!rowVars
<1>1. CASE \E k \in ListKeys : Res!GetSingle(k)
  <2>1. PICK k \in ListKeys : Res!GetSingle(k)
    BY <1>1
  <2>2. /\ postAt = "idle" /\ postAt' = "holding" /\ postKey' = k /\ tag' = rows[k].version
        /\ rows[k] # Res!Gone
        /\ UNCHANGED <<rows, bound, unchecked, meddled, overtaken, reborn>>
    BY <2>1 DEF Res!GetSingle
  <2>3. tag' \in Nat \ {0} /\ rows'[postKey'].version = tag'
    BY <2>2 DEF MatchInv, RowOf
  <2> QED
    BY <2>2, <2>3 DEF MatchInv, TagIsDated
<1>2. CASE Res!Post \/ Res!CheckRefuses
  BY <1>2 DEF Res!Post, Res!CheckRefuses, MatchInv, TagIsDated, Excused
<1>3. CASE Res!CheckPasses
  <2>1. /\ postAt = "posted" /\ postAt' = "passed" /\ rows[postKey].version = tag
        /\ UNCHANGED <<rows, postKey, tag, bound, unchecked, meddled, overtaken, reborn>>
    BY <1>3 DEF Res!CheckPasses, Res!Matches
  <2>2. meddled => Excused
    <3> SUFFICES ASSUME meddled, ~reborn PROVE FALSE
      BY DEF Excused
    <3>1. tag \in Nat \ {0}
      BY <2>1 DEF MatchInv, TagIsDated
    <3>2. rows[postKey] = Res!Gone \/ rows[postKey].version > tag
      BY <2>1 DEF MatchInv, TagIsDated
    <3>3. Res!Gone.version = 0
      BY DEF Res!Gone
    <3> QED
      BY <2>1, <3>1, <3>2, <3>3
  <2> QED
    BY <2>1, <2>2 DEF MatchInv, TagIsDated, Excused
<1>4. CASE Res!CheckFaults
  BY <1>4 DEF Res!CheckFaults, MatchInv, TagIsDated, Excused
<1>5. CASE Res!RunReads
  <2>1. /\ postAt = "passed" /\ postAt' \in {"failed", "read"} /\ bound' = rows[postKey].version
        /\ UNCHANGED <<rows, postKey, tag, unchecked, meddled, overtaken, reborn>>
    BY <1>5 DEF Res!RunReads
  <2>2. bound' \in Nat
    BY <2>1 DEF MatchInv, TagIsDated, RowOf
  <2>3. bound' # tag => Excused
    BY <2>1 DEF MatchInv, TagIsDated, Excused
  <2> QED
    BY <2>1, <2>2, <2>3 DEF MatchInv, TagIsDated, Excused
<1>6. CASE Res!RunWrites
  <2>1. /\ postAt = "read" /\ postAt' \in {"ran", "failed"}
        /\ postAt' = "ran" <=> rows[postKey].version = bound
        /\ rows' = IF rows[postKey].version = bound
                   THEN [rows EXCEPT ![postKey].version = @ + 1] ELSE rows
        /\ UNCHANGED <<postKey, tag, bound, unchecked, meddled, overtaken, reborn>>
    BY <1>6 DEF Res!RunWrites, Res!VersionStillHolds
  <2>2. postKey \in ListKeys /\ tag \in Nat \ {0}
    BY <2>1 DEF MatchInv, TagIsDated
  <2>3. rows' \in [ListKeys -> RowOf]
        /\ \A k \in ListKeys : rows'[k] # Res!Gone => rows'[k].version # 0
    <3>1. CASE rows[postKey].version = bound
      <4> DEFINE row == [rows[postKey] EXCEPT !.version = @ + 1]
      <4>1. rows[postKey] \in RowOf
        BY <2>2 DEF MatchInv
      <4>2. row \in RowOf /\ row.version = rows[postKey].version + 1
        BY <4>1 DEF RowOf
      <4>3. rows' = [rows EXCEPT ![postKey] = row]
        BY <2>1, <2>2, <3>1 DEF MatchInv
      <4>4. rows[postKey].version \in Nat
        BY <4>1 DEF RowOf
      <4> QED
        BY <2>2, <4>2, <4>3, <4>4 DEF MatchInv
    <3>2. CASE rows[postKey].version # bound
      BY <2>1, <3>2 DEF MatchInv
    <3> QED
      BY <3>1, <3>2
  <2>4. postAt' = "ran" => (meddled \/ bound # tag => Excused)
    <3> SUFFICES ASSUME rows[postKey].version = bound, meddled \/ bound # tag, ~Excused
                 PROVE  FALSE
      BY <2>1
    <3>1. bound = tag /\ meddled /\ ~reborn
      BY <2>1 DEF MatchInv, Excused
    <3>2. rows[postKey] = Res!Gone \/ rows[postKey].version > tag
      BY <2>1, <3>1 DEF MatchInv, TagIsDated
    <3>3. Res!Gone.version = 0
      BY DEF Res!Gone
    <3> QED
      BY <2>2, <3>1, <3>2, <3>3
  <2> QED
    BY <2>1, <2>3, <2>4 DEF MatchInv, TagIsDated, Excused
<1> QED
  BY <1>1, <1>2, <1>3, <1>4, <1>5, <1>6

LEMMA InitMatchInv == MCInit => MatchInv
<1> SUFFICES ASSUME Res!Init, which # "rows" => rows = [k \in ListKeys |-> Res!Gone]
             PROVE  MatchInv
  BY DEF MCInit
<1>1. rows \in [ListKeys -> RowOf]
      /\ \A k \in ListKeys : rows[k] # Res!Gone => rows[k].version # 0
  BY DEF Res!Init, Res!Gone, Res!Fresh, Res!Absent, RowOf
<1> QED
  BY <1>1 DEF Res!Init, MatchInv, TagIsDated

(* If-Match (`_check_if_match` and `_UPDATE_ROW_VERSIONED`): the `set` of a  *)
(* request that named an ETag lands on no version but the one the client    *)
(* saw, unless the check's read failed, another run wrote between the check *)
(* and the run's own read, or the row was deleted and created again.        *)
THEOREM MatchStaysProtective == MCSpec => []Res!MatchProtects
<1>1. MatchInv /\ [MCNext]_allVars => MatchInv'
  <2> SUFFICES ASSUME MatchInv, [MCNext]_allVars PROVE MatchInv'
    OBVIOUS
  <2>1. ASSUME UNCHANGED <<rows, postAt, postKey, tag, bound, unchecked, meddled, overtaken,
                           reborn>>
        PROVE  MatchInv'
    BY <2>1 DEF MatchInv, TagIsDated, Excused
  <2>2. CASE RowsNext
    <3>1. CASE Res!StartWalk \/ Res!GetList
      BY <2>1, <3>1 DEF Res!StartWalk, Res!GetList, Res!rowVars, Res!postVars
    <3> QED
      BY <2>2, <3>1, OthersMatch, RequestMatches DEF RowsNext, Res!Next
  <2>3. CASE ShellNext \/ KeysNext \/ McpNext \/ UNCHANGED allVars
    BY <2>1, <2>3 DEF ShellNext, KeysNext, McpNext, allVars, rowVars
  <2> QED
    BY <2>2, <2>3 DEF MCNext
<1>2. MatchInv => Res!MatchProtects
  BY DEF MatchInv, Excused, Res!MatchProtects
<1> QED
  BY <1>1, <1>2, InitMatchInv, PTL DEF MCSpec

-----------------------------------------------------------------------------
(* The instance has finite sets and cardinalities of its own.                *)
LEMMA SameFinite == \A S : Res!IsFiniteSet(S) <=> IsFiniteSet(S)
BY DEF IsFiniteSet, Res!IsFiniteSet

LEMMA SameCardinality == \A S : Res!Cardinality(S) = Cardinality(S)
BY DEF Cardinality, Res!Cardinality, IsFiniteSet, Res!IsFiniteSet

LEMMA ResFacts ==
  /\ ListKeys \subseteq Nat \ {0} /\ IsFiniteSet(ListKeys)
  /\ SortValues \subseteq Nat \ {0} /\ Limits \subseteq Nat \ {0}
  /\ \A k \in ListKeys : k \in Nat /\ k # 0
  /\ \A v \in SortValues : v \in Nat /\ v # 0
BY InboundAssumption, SameFinite DEF Res!ResourceAssumption

(* A walk. *)

Positions == [value : SortValues \cup {Res!Absent}, key : ListKeys]

(* The walker has what it was sent in the store's order, up to its cursor:   *)
(* of a row that has been there all along, it has the place the row is at,   *)
(* if the walk has come past it.                                             *)
HasComePast(k) ==
  walkAt = "over" \/ (walked # <<>> /\ ~Res!Behind(after, Res!Position(k)))

WalkedSteadily ==
  \A k \in steady :
    /\ k \in ListKeys /\ rows[k] # Res!Gone
    /\ \A i \in DOMAIN walked : walked[i].key = k => walked[i] = Res!Position(k)
    /\ HasComePast(k) => \E i \in DOMAIN walked : walked[i].key = k

WalkInv ==
  /\ rows \in [ListKeys -> RowOf]
  /\ walked \in Seq(Positions)
  /\ \A i, j \in DOMAIN walked : i < j => Res!InStoreOrder(walked[i], walked[j])
  /\ IF walked = <<>> THEN after = Res!Start ELSE walkAt = "walking" => after = walked[Len(walked)]
  /\ walkAt = "idle" => walked = <<>> /\ steady = {}
  /\ walkAt = "walking" => limit \in Limits
  /\ WalkedSteadily

(* The order of the statement and that of the cursor are one strict order.   *)
LEMMA OneOrder ==
  ASSUME NEW p \in Positions, NEW q \in Positions
  PROVE  /\ Res!Behind(p, q) <=> Res!InStoreOrder(p, q)
         /\ ~Res!InStoreOrder(p, p)
         /\ ~Res!InStoreOrder(p, q) /\ ~Res!InStoreOrder(q, p) => p = q
         /\ \A r \in Positions :
               Res!InStoreOrder(p, q) /\ Res!InStoreOrder(q, r) => Res!InStoreOrder(p, r)
<1>1. p = [value |-> p.value, key |-> p.key] /\ q = [value |-> q.value, key |-> q.key]
  BY DEF Positions
<1>2. \A r \in Positions : r.value \in Nat /\ r.key \in Nat
  <2> SUFFICES ASSUME NEW r \in Positions PROVE r.value \in Nat /\ r.key \in Nat
    OBVIOUS
  <2>1. r.value \in SortValues \cup {0} /\ r.key \in ListKeys
    BY DEF Positions, Res!Absent
  <2>2. r.key \in Nat
    BY <2>1, ResFacts
  <2>3. r.value \in SortValues => r.value \in Nat
    BY ResFacts
  <2>4. r.value \in {0} => r.value \in Nat
    OBVIOUS
  <2> QED
    BY <2>1, <2>2, <2>3, <2>4
<1>3. /\ ~Res!InStoreOrder(p, p)
      /\ ~Res!InStoreOrder(p, q) /\ ~Res!InStoreOrder(q, p) => p = q
  BY <1>1, <1>2 DEF Res!InStoreOrder, Res!Absent
<1>4. Res!Behind(p, q) <=> Res!InStoreOrder(p, q)
  BY <1>2 DEF Res!InStoreOrder, Res!Absent, Res!Behind
<1>5. \A r \in Positions :
         Res!InStoreOrder(p, q) /\ Res!InStoreOrder(q, r) => Res!InStoreOrder(p, r)
  BY <1>2 DEF Res!InStoreOrder, Res!Absent
<1> QED
  BY <1>3, <1>4, <1>5

(* A sorted read is a sequence, and a page is what it begins with.           *)
LEMMA SortedIsSequence ==
  ASSUME NEW S, IsFiniteSet(S), NEW left \in Res!Sorted(S)
  PROVE  left \in Seq(S) /\ DOMAIN left = 1..Len(left) /\ Len(left) \in Nat
<1>1. Cardinality(S) \in Nat /\ left \in [1..Cardinality(S) -> S]
  BY FS_CardinalityType, SameCardinality DEF Res!Sorted
<1> QED
  BY <1>1

LEMMA PageIsPrefix ==
  ASSUME NEW S, NEW left \in Seq(S), NEW n \in Nat, n <= Len(left)
  PROVE  /\ SubSeq(left, 1, n) \in Seq(S) /\ Len(SubSeq(left, 1, n)) = n
         /\ \A i \in 1..n : SubSeq(left, 1, n)[i] = left[i]
  BY SubSeqProperties

(* What is read: the places of rows there are, behind the cursor if there is *)
(* one, finitely many.                                                       *)
Ahead == {p \in Res!Stored : after = Res!Start \/ Res!Behind(after, p)}

LEMMA AheadIsFinite ==
  ASSUME rows \in [ListKeys -> RowOf]
  PROVE  IsFiniteSet(Ahead) /\ Ahead \subseteq Positions
<1>1. IsFiniteSet(ListKeys)
  BY ResFacts
<1>2. IsFiniteSet({Res!Position(k) : k \in ListKeys})
  <2> DEFINE f == [k \in ListKeys |-> Res!Position(k)]
             R == {Res!Position(k) : k \in ListKeys}
  <2>1. f \in Surjection(ListKeys, R)
    BY DEF Surjection
  <2> QED
    BY <1>1, <2>1, FS_Surjection
<1>3. Ahead \subseteq {Res!Position(k) : k \in ListKeys}
  BY DEF Ahead, Res!Stored
<1>4. Ahead \subseteq Positions
  BY DEF Ahead, Res!Stored, Res!Position, Positions, RowOf
<1> QED
  BY <1>2, <1>3, <1>4, FS_Subset

(* One page more, or the last one.                                           *)
LEMMA PageKeepsWalk ==
  ASSUME WalkInv, walkAt = "walking", NEW left \in Res!Sorted(Ahead),
         NEW n \in Nat, n <= Len(left), n = Len(left) \/ n > 0,
         walked' = walked \o SubSeq(left, 1, n),
         IF n = Len(left) /\ walkAt' = "over" THEN after' = after
         ELSE walkAt' = "walking" /\ n > 0 /\ after' = left[n],
         UNCHANGED <<rows, limit, steady>>
  PROVE  WalkInv'
<1> DEFINE page == SubSeq(left, 1, n)
           m == Len(walked)
<1>1. /\ Ahead \subseteq Positions /\ left \in Seq(Positions) /\ Len(left) \in Nat
      /\ \A i \in 1..Len(left) : left[i] \in Ahead
      /\ \A i, j \in 1..Len(left) : i < j => Res!InStoreOrder(left[i], left[j])
      /\ \A p \in Ahead : \E i \in 1..Len(left) : left[i] = p
  <2>1. IsFiniteSet(Ahead) /\ Ahead \subseteq Positions
    BY AheadIsFinite DEF WalkInv
  <2>2. left \in Seq(Ahead) /\ DOMAIN left = 1..Len(left) /\ Len(left) \in Nat
    BY <2>1, SortedIsSequence
  <2>3. \A i \in 1..Len(left) : left[i] \in Ahead
    BY <2>2, ElementOfSeq
  <2>4. left \in Seq(Positions)
    BY <2>1, <2>2, SeqMonotonic
  <2>5. /\ \A i, j \in DOMAIN left : i < j => Res!InStoreOrder(left[i], left[j])
        /\ \A p \in Ahead : \E i \in DOMAIN left : left[i] = p
    BY DEF Res!Sorted
  <2> QED
    BY <2>1, <2>2, <2>3, <2>4, <2>5
<1>2. /\ page \in Seq(Positions) /\ Len(page) = n
      /\ \A i \in 1..n : page[i] = left[i]
  BY <1>1, PageIsPrefix
<1>3. /\ walked' \in Seq(Positions) /\ Len(walked') = m + n /\ m \in Nat
      /\ DOMAIN walked = 1..m /\ DOMAIN walked' = 1..(m + n)
      /\ \A i \in 1..m : walked'[i] = walked[i] /\ walked[i] \in Positions
      /\ \A i \in (m + 1)..(m + n) : walked'[i] = left[i - m]
      /\ \A i \in 1..n : walked'[m + i] = left[i]
  <2>1. walked \in Seq(Positions)
    BY DEF WalkInv
  <2>2. walked' \in Seq(Positions) /\ Len(walked') = m + n /\ m \in Nat
        /\ \A i \in 1..(m + n) : walked'[i] = IF i <= m THEN walked[i] ELSE page[i - m]
    BY <1>2, <2>1, ConcatProperties
  <2> QED
    BY <1>2, <2>1, <2>2
(* What it was sent before comes before what is read behind its cursor.      *)
<1>4. \A i \in 1..m, p \in Ahead : Res!InStoreOrder(walked[i], p)
  <2> SUFFICES ASSUME NEW i \in 1..m, NEW p \in Ahead PROVE Res!InStoreOrder(walked[i], p)
    OBVIOUS
  <2>1. walked # <<>> /\ after = walked[m] /\ m \in DOMAIN walked /\ after \in Positions
    BY <1>3 DEF WalkInv
  <2>2. after # Res!Start
    BY <2>1, InboundAssumption DEF Positions, Res!Start, Res!ResourceAssumption
  <2>3. Res!InStoreOrder(after, p) /\ p \in Positions
    BY <1>1, <2>1, <2>2, OneOrder DEF Ahead
  <2>4. i = m \/ Res!InStoreOrder(walked[i], walked[m])
    <3>1. \A a, b \in DOMAIN walked : a < b => Res!InStoreOrder(walked[a], walked[b])
      BY DEF WalkInv
    <3>2. i \in DOMAIN walked /\ m \in DOMAIN walked /\ i <= m /\ i \in Nat /\ m \in Nat
      BY <1>3, <2>1
    <3> QED
      BY <3>1, <3>2
  <2> QED
    BY <1>3, <2>1, <2>3, <2>4, OneOrder
<1>5. \A i, j \in DOMAIN walked' : i < j => Res!InStoreOrder(walked'[i], walked'[j])
  <2> SUFFICES ASSUME NEW i \in 1..(m + n), NEW j \in 1..(m + n), i < j
               PROVE  Res!InStoreOrder(walked'[i], walked'[j])
    BY <1>3
  <2>1. CASE j <= m
    BY <1>3, <2>1 DEF WalkInv
  <2>2. CASE i <= m /\ j > m
    <3>1. walked'[j] \in Ahead
      BY <1>1, <1>3, <2>2
    <3> QED
      BY <1>3, <1>4, <2>2, <3>1
  <2>3. CASE i > m
    <3>1. i - m \in 1..Len(left) /\ j - m \in 1..Len(left) /\ i - m < j - m
      BY <1>1, <1>3, <2>3
    <3>2. walked'[i] = left[i - m] /\ walked'[j] = left[j - m]
      BY <1>1, <1>3, <2>3
    <3> QED
      BY <1>1, <3>1, <3>2
  <2> QED
    BY <2>1, <2>2, <2>3, <1>3
<1>6. IF walked' = <<>> THEN after' = Res!Start
      ELSE walkAt' = "walking" => after' = walked'[Len(walked')]
  <2>1. CASE walkAt' = "walking"
    <3>1. n > 0 /\ after' = left[n] /\ n \in 1..n
      BY <2>1
    <3>2. walked' # <<>> /\ walked'[m + n] = left[n]
      BY <1>3, <3>1
    <3> QED
      BY <1>3, <3>1, <3>2
  <2>2. CASE walkAt' # "walking"
    BY <1>3, <2>2 DEF WalkInv
  <2> QED
    BY <2>1, <2>2
<1>7. WalkedSteadily'
  <2> SUFFICES ASSUME NEW k \in steady
               PROVE  /\ k \in ListKeys /\ rows'[k] # Res!Gone
                      /\ \A i \in DOMAIN walked' : walked'[i].key = k =>
                            walked'[i] = Res!Position(k)
                      /\ HasComePast(k)' => \E i \in DOMAIN walked' : walked'[i].key = k
    BY DEF WalkedSteadily, Res!Position
  <2>1. /\ k \in ListKeys /\ rows[k] # Res!Gone
        /\ \A i \in DOMAIN walked : walked[i].key = k => walked[i] = Res!Position(k)
        /\ HasComePast(k) => \E i \in DOMAIN walked : walked[i].key = k
    BY DEF WalkInv, WalkedSteadily
  <2> DEFINE P == Res!Position(k)
  <2>2. P \in Res!Stored /\ P.key = k /\ P \in Positions
    BY <2>1 DEF Res!Stored, Res!Position, WalkInv, RowOf, Positions
  <2>3. \A p \in Ahead : p.key = k => p = P
    BY DEF Ahead, Res!Stored, Res!Position
  <2>4. \A i \in DOMAIN walked' : walked'[i].key = k => walked'[i] = P
    BY <1>1, <1>3, <2>1, <2>3
  <2>5. HasComePast(k)' => \E i \in DOMAIN walked' : walked'[i].key = k
    <3>1. CASE HasComePast(k)
      BY <1>3, <2>1, <3>1
    <3>2. CASE ~HasComePast(k) /\ HasComePast(k)'
      <4>1. P \in Ahead
        BY <2>2, <3>2 DEF HasComePast, Ahead, WalkInv
      <4>2. PICK i \in 1..Len(left) : left[i] = P
        BY <1>1, <4>1
      <4>3. i <= n
        <5>1. CASE walkAt' = "over"
          BY <1>1, <4>2, <5>1
        <5>2. CASE walkAt' # "over"
          <6>1. ~Res!Behind(left[n], P) /\ n \in 1..Len(left)
            BY <1>1, <3>2, <5>2 DEF HasComePast, Res!Position, Res!Behind, Res!Absent
          <6> QED
            BY <1>1, <2>2, <4>2, <6>1, OneOrder
        <5> QED
          BY <5>1, <5>2
      <4> QED
        <5>1. i \in 1..n /\ m + i \in DOMAIN walked'
          BY <1>3, <4>2, <4>3
        <5>2. walked'[m + i] = P
          BY <1>3, <4>2, <5>1
        <5> QED
          BY <2>2, <5>1, <5>2
    <3> QED
      BY <3>1, <3>2
  <2> QED
    BY <2>1, <2>4, <2>5
<1> QED
  BY <1>3, <1>5, <1>6, <1>7 DEF WalkInv

LEMMA GetListKeepsWalk ==
  ASSUME WalkInv, Res!GetList PROVE WalkInv'
<1>1. PICK left \in Res!Sorted(Ahead) :
        \/ /\ Len(left) > limit
           /\ walked' = walked \o SubSeq(left, 1, limit)
           /\ after' = left[limit] /\ UNCHANGED walkAt
        \/ /\ Len(left) <= limit
           /\ walked' = walked \o left
           /\ walkAt' = "over" /\ UNCHANGED after
  BY DEF Res!GetList, Ahead
<1>2. walkAt = "walking" /\ UNCHANGED <<rows, limit, steady>>
  BY DEF Res!GetList, Res!rowVars
<1>3. left \in Seq(Ahead) /\ Len(left) \in Nat
  BY AheadIsFinite, SortedIsSequence DEF WalkInv
<1>4. limit \in Nat \ {0}
  BY <1>2, ResFacts DEF WalkInv
<1>5. SubSeq(left, 1, Len(left)) = left
  BY <1>3, SubSeqFull
<1>6. CASE Len(left) > limit
  BY <1>1, <1>2, <1>3, <1>4, <1>6, PageKeepsWalk
<1>7. CASE Len(left) <= limit
  <2>1. walked' = walked \o SubSeq(left, 1, Len(left)) /\ walkAt' = "over" /\ after' = after
    BY <1>1, <1>3, <1>4, <1>5, <1>7
  <2> QED
    BY <1>2, <1>3, <2>1, PageKeepsWalk
<1> QED
  BY <1>3, <1>4, <1>6, <1>7

LEMMA StartKeepsWalk ==
  ASSUME WalkInv, Res!StartWalk PROVE WalkInv'
<1>1. /\ walkAt = "idle" /\ walkAt' = "walking" /\ limit' \in Limits
      /\ steady' = {k \in ListKeys : rows[k] # Res!Gone}
      /\ UNCHANGED <<rows, after, walked>>
  BY DEF Res!StartWalk, Res!rowVars
<1>2. walked = <<>> /\ after = Res!Start /\ DOMAIN walked = {}
  BY <1>1 DEF WalkInv
<1> QED
  BY <1>1, <1>2 DEF WalkInv, WalkedSteadily, HasComePast

(* A write leaves what counts as steady where it was.                        *)
LEMMA RowsKeepWalk ==
  ASSUME WalkInv, rows' \in [ListKeys -> RowOf], steady' \subseteq steady,
         \A k \in steady' : rows'[k] # Res!Gone /\ rows'[k].value = rows[k].value,
         UNCHANGED <<walkAt, limit, after, walked>>
  PROVE  WalkInv'
<1>1. \A k \in steady' : Res!Position(k)' = Res!Position(k)
  BY DEF Res!Position
<1>2. WalkedSteadily'
  BY <1>1 DEF WalkInv, WalkedSteadily, HasComePast, Res!Behind
<1> QED
  BY <1>2 DEF WalkInv

LEMMA WriteKeepsWalk ==
  ASSUME WalkInv, NEW k \in ListKeys, NEW row \in RowOf \cup {Res!Gone}, Res!Writes(k, row)
  PROVE  WalkInv'
<1>1. /\ rows' = [rows EXCEPT ![k] = row]
      /\ steady' = IF row # Res!Gone /\ row.value = rows[k].value THEN steady ELSE steady \ {k}
      /\ UNCHANGED <<walkAt, limit, after, walked>>
  BY DEF Res!Writes
<1>2. Res!Gone \in RowOf
  BY DEF Res!Gone, RowOf, Res!Absent
<1>3. rows' \in [ListKeys -> RowOf]
  BY <1>1, <1>2 DEF WalkInv
<1>4. \A j \in steady' : rows'[j] # Res!Gone /\ rows'[j].value = rows[j].value
  BY <1>1 DEF WalkInv, WalkedSteadily
<1> QED
  BY <1>1, <1>3, <1>4, RowsKeepWalk

LEMMA OthersKeepWalk ==
  ASSUME WalkInv, NEW k \in ListKeys, Res!Create(k) \/ Res!SetRow(k) \/ Res!Delete(k)
  PROVE  WalkInv'
<1> USE DEF RowOf, Res!Absent, Res!Fresh
<1>1. CASE Res!Create(k)
  BY <1>1, WriteKeepsWalk DEF Res!Create
<1>2. CASE Res!SetRow(k)
  <2>1. rows[k].version + 1 \in Nat
    BY DEF WalkInv
  <2> QED
    BY <1>2, <2>1, WriteKeepsWalk DEF Res!SetRow
<1>3. CASE Res!Delete(k)
  BY <1>3, WriteKeepsWalk DEF Res!Delete
<1> QED
  BY <1>1, <1>2, <1>3

LEMMA RunWritesKeepsWalk ==
  ASSUME WalkInv, Res!RunWrites PROVE WalkInv'
<1>1. /\ rows' = IF Res!VersionStillHolds THEN [rows EXCEPT ![postKey].version = @ + 1] ELSE rows
      /\ UNCHANGED <<walkAt, limit, after, walked, steady>>
  BY DEF Res!RunWrites, Res!walkVars
<1>2. \A k \in ListKeys : /\ rows'[k].value = rows[k].value
                          /\ rows[k] # Res!Gone => rows'[k] # Res!Gone
                          /\ rows'[k] \in RowOf
  BY <1>1 DEF WalkInv, RowOf, Res!Gone, Res!Absent
<1>3. rows' \in [ListKeys -> RowOf]
  BY <1>1, <1>2 DEF WalkInv
<1> QED
  BY <1>1, <1>2, <1>3, RowsKeepWalk DEF WalkInv, WalkedSteadily

LEMMA InitWalkInv == MCInit => WalkInv
<1> SUFFICES ASSUME Res!Init, which # "rows" => rows = [k \in ListKeys |-> Res!Gone]
             PROVE  WalkInv
  BY DEF MCInit
<1>1. rows \in [ListKeys -> RowOf]
  BY DEF Res!Init, Res!Gone, Res!Fresh, Res!Absent, RowOf
<1> QED
  BY <1>1 DEF Res!Init, WalkInv, WalkedSteadily

(* A row that was there all the time has come once: it has come, and nothing *)
(* comes twice at one place.                                                 *)
LEMMA OnceEach == WalkInv => Res!WalkIsWhole
<1> SUFFICES ASSUME WalkInv PROVE Res!WalkIsWhole
  OBVIOUS
<1>1. \A i, j \in DOMAIN walked : i < j => Res!InStoreOrder(walked[i], walked[j])
  BY DEF WalkInv
<1>2. ASSUME walkAt = "over", NEW k \in steady
      PROVE  Res!Cardinality({i \in DOMAIN walked : walked[i].key = k}) = 1
  <2> DEFINE Comes == {i \in DOMAIN walked : walked[i].key = k}
  <2>1. PICK i \in DOMAIN walked : walked[i].key = k
    BY <1>2 DEF WalkInv, WalkedSteadily, HasComePast
  <2>2. \A j \in Comes : walked[j] = Res!Position(k) /\ walked[j] \in Positions /\ j \in Nat
    BY DEF WalkInv, WalkedSteadily
  <2>3. ASSUME NEW j \in Comes PROVE j = i
    BY <1>1, <2>1, <2>2, <2>3, OneOrder
  <2>4. Comes = {i}
    BY <2>1, <2>3
  <2> QED
    BY <2>4, FS_Singleton, SameCardinality
<1> QED
  BY <1>1, <1>2 DEF Res!WalkIsWhole

(* The read side of the HTTP surface (`_get_list` and `paginate`, the ETags *)
(* of `_get_single`): whatever other runs commit between the pages, a walk   *)
(* goes forward only, and every row that was there all the time, its field   *)
(* unchanged, comes exactly once; and If-Match protects what it names.  For  *)
(* any table, page sizes and number of writes.                               *)
THEOREM ReadsStayHonest == MCSpec => []ReadsAreHonest
<1>1. WalkInv /\ [MCNext]_allVars => WalkInv'
  <2> SUFFICES ASSUME WalkInv, [MCNext]_allVars PROVE WalkInv'
    OBVIOUS
  <2>1. ASSUME UNCHANGED <<rows, walkAt, limit, after, walked, steady>>
        PROVE  WalkInv'
    BY <2>1 DEF WalkInv, WalkedSteadily, HasComePast, Res!Position, Res!Behind
  <2>2. CASE RowsNext
    <3>1. CASE Res!StartWalk \/ Res!GetList \/ Res!RunWrites
      BY <3>1, StartKeepsWalk, GetListKeepsWalk, RunWritesKeepsWalk
    <3>2. CASE \E k \in ListKeys : Res!Create(k) \/ Res!SetRow(k) \/ Res!Delete(k)
      BY <3>2, OthersKeepWalk
    <3>3. CASE \/ \E k \in ListKeys : Res!GetSingle(k)
               \/ Res!Post \/ Res!CheckPasses \/ Res!CheckRefuses \/ Res!CheckFaults
               \/ Res!RunReads
      BY <2>1, <3>3 DEF Res!GetSingle, Res!Post, Res!CheckPasses, Res!CheckRefuses,
         Res!CheckFaults, Res!RunReads, Res!rowVars, Res!walkVars
    <3> QED
      BY <2>2, <3>1, <3>2, <3>3 DEF RowsNext, Res!Next
  <2>3. CASE ShellNext \/ KeysNext \/ McpNext \/ UNCHANGED allVars
    BY <2>1, <2>3 DEF ShellNext, KeysNext, McpNext, allVars, rowVars
  <2> QED
    BY <2>2, <2>3 DEF MCNext
<1>2. MCSpec => []Res!WalkIsWhole
  BY <1>1, InitWalkInv, OnceEach, PTL DEF MCSpec
<1>3. Res!WalkIsWhole /\ Res!MatchProtects => ReadsAreHonest
  BY DEF ReadsAreHonest, Res!ReadsAreHonest
<1> QED
  BY <1>2, <1>3, MatchStaysProtective, PTL
=============================================================================
