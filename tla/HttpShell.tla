----------------------------- MODULE HttpShell -----------------------------
(***************************************************************************)
(* The HTTP shell of `lnpl serve` (impl/lnpl/wsgi.py, serve.py): what      *)
(* happens to a request between the socket and the run of its workflow.    *)
(* Threads pass the shutdown gate, the token bucket, routing and           *)
(* authentication, are counted while they are in flight, and leave one     *)
(* metric sample and one audit decision behind; a SIGTERM starts a thread  *)
(* that waits for the count to fall to zero and stops the server.          *)
(*                                                                         *)
(* One step is what a thread does under `_inflight_cv`, under the bucket's *)
(* lock, or between two of them.  Tokens are counted in units, `One` of    *)
(* which make a token, and time in ticks, so that fractions of both occur. *)
(***************************************************************************)
EXTENDS Naturals, FiniteSets

CONSTANTS
  Requests,        \* requests that reach the server, each on its own thread
  Profiles,        \* per request, what it may look like: see Profile
  One,             \* units in a token
  Gain,            \* units refilled per tick
  TicksPerSecond,
  MaxTime          \* bound of the clock

Capacity == Gain * TicksPerSecond     \* `TokenBucket(rate_limit, rate_limit)`

(* A request: its method, the kind of the route its path names ("none" for *)
(* no route), what its token is worth there, and its body.                 *)
Profile == [method : {"GET", "POST", "PUT"},
            route  : {"ops-health", "ops-ready", "workflow", "get-single",
                      "sse-subscribe", "none"},
            token  : {"missing", "rejected", "wrong-role", "accepted"},
            body   : {"object", "unreadable", "too-large"}]

ASSUME ShellAssumption ==
  /\ IsFiniteSet(Requests)
  /\ Profiles \in [Requests -> SUBSET Profile]
  /\ {One, Gain, TicksPerSecond} \subseteq Nat \ {0}
  /\ MaxTime \in Nat

VARIABLES
  pc, profile, status,   \* per request: where its thread is, what it asks, what it got
  inflight,              \* `_inflight`
  shuttingDown,          \* `shutting_down`
  drain,                 \* the drain thread
  tokens, last, clock,   \* the bucket: `_tokens`, `_last`; and the time
  retryAfter,            \* per request: the Retry-After it was sent, and when
  finalized, lines,      \* per request: calls of `_finalize_response`, log lines
  grants                 \* history: requests granted a token, with the time

vars == <<pc, profile, status, inflight, shuttingDown, drain, tokens, last, clock,
          retryAfter, finalized, lines, grants>>
bucketVars == <<tokens, last, clock, retryAfter, grants>>

NoStatus == 0
NotLimited == [at |-> 0, seconds |-> 0]

(* Where a thread may be.  Counted: between the increment and the decrement. *)
Counted == {"admitted", "limited", "routed", "running", "leaving", "opened", "streaming"}
Places == {"out", "called", "returned", "finalizing", "exhausted", "leaked",
           "served", "killed"} \cup Counted

IsOps(r) == profile[r].route \in {"ops-health", "ops-ready"}

Init ==
  /\ pc = [r \in Requests |-> "out"]
  /\ profile \in {f \in [Requests -> UNION {Profiles[r] : r \in Requests}] :
                   \A r \in Requests : f[r] \in Profiles[r]}
  /\ status = [r \in Requests |-> NoStatus]
  /\ inflight = 0 /\ shuttingDown = FALSE /\ drain = "none"
  /\ tokens = Capacity /\ last = 0 /\ clock = 0
  /\ retryAfter = [r \in Requests |-> NotLimited]
  /\ finalized = [r \in Requests |-> 0] /\ lines = [r \in Requests |-> 0]
  /\ grants = {}

Goes(r, from, to) == pc[r] = from /\ pc' = [pc EXCEPT ![r] = to]
Answers(r, code) == status' = [status EXCEPT ![r] = code]
Logs(r) == lines' = [lines EXCEPT ![r] = @ + 1]

---------------------------------------------------------------------------
(* The gates. *)

(* `__call__`: the server accepts until `shutdown()`. *)
Arrive(r) ==
  /\ Goes(r, "out", "called") /\ drain # "stopped"
  /\ UNCHANGED <<profile, status, inflight, shuttingDown, drain, bucketVars, finalized, lines>>

(* `/-/` paths pass both gates, counted all the same. *)
AdmitOps(r) ==
  /\ IsOps(r) /\ Goes(r, "called", "routed")
  /\ inflight' = inflight + 1
  /\ UNCHANGED <<profile, status, shuttingDown, drain, bucketVars, finalized, lines>>

(* Mutant: the gate does not look at the flag. *)
AdmitDuringShutdown(r) ==
  /\ ~IsOps(r) /\ Goes(r, "called", "admitted")
  /\ inflight' = inflight + 1
  /\ UNCHANGED <<profile, status, shuttingDown, drain, bucketVars, finalized, lines>>

(* `_admit`: the flag and the count in one hold of the lock. *)
Admit(r) ==
  /\ ~IsOps(r) /\ ~shuttingDown /\ Goes(r, "called", "admitted")
  /\ inflight' = inflight + 1
  /\ UNCHANGED <<profile, status, shuttingDown, drain, bucketVars, finalized, lines>>

TurnAway(r) ==
  /\ ~IsOps(r) /\ shuttingDown /\ Goes(r, "called", "finalizing")
  /\ Answers(r, 503)
  /\ UNCHANGED <<profile, inflight, shuttingDown, drain, bucketVars, finalized, lines>>

Least(a, b) == IF a < b THEN a ELSE b

Refilled == Least(Capacity, tokens + (clock - last) * Gain)

(* `TokenBucket.acquire`, first half: a token is there. *)
Acquire(r) ==
  /\ Goes(r, "admitted", "routed")
  /\ Refilled >= One
  /\ tokens' = Refilled - One /\ last' = clock
  /\ grants' = grants \cup {<<r, clock>>}
  /\ UNCHANGED <<profile, status, inflight, shuttingDown, drain, clock, retryAfter,
                 finalized, lines>>

(* max(1, ceil(deficit / rate)) with a rate of Capacity units per second. *)
RetrySeconds(held) == LET deficit == One - held
                          ceil == (deficit + Capacity - 1) \div Capacity
                      IN  IF ceil < 1 THEN 1 ELSE ceil

(* Mutant: a refusal moves `_last` without crediting what was refilled. *)
LimitForfeits(r) ==
  /\ Goes(r, "admitted", "limited")
  /\ Refilled < One
  /\ last' = clock
  /\ retryAfter' = [retryAfter EXCEPT ![r] = [at |-> clock, seconds |-> RetrySeconds(Refilled)]]
  /\ UNCHANGED <<profile, status, inflight, shuttingDown, drain, tokens, clock, grants,
                 finalized, lines>>

(* Second half: the bucket is credited up to now, and the client told when. *)
Limit(r) ==
  /\ Goes(r, "admitted", "limited")
  /\ Refilled < One
  /\ tokens' = Refilled /\ last' = clock
  /\ retryAfter' = [retryAfter EXCEPT ![r] = [at |-> clock, seconds |-> RetrySeconds(Refilled)]]
  /\ UNCHANGED <<profile, status, inflight, shuttingDown, drain, clock, grants, finalized, lines>>

(* The 429.  An exception of `start_response` while it is sent backs out   *)
(* the count and is finalized in the same way.                             *)
Limited(r) ==
  /\ Goes(r, "limited", "finalizing")
  /\ inflight' = inflight - 1
  /\ Answers(r, 429)
  /\ UNCHANGED <<profile, shuttingDown, drain, bucketVars, finalized, lines>>

---------------------------------------------------------------------------
(* Routing and authentication. *)

(* `_check_auth`, `_role_accepted`: operational routes carry no auth. *)
AuthStatus(q) ==
  IF q.route \in {"ops-health", "ops-ready"} \/ q.token = "accepted" THEN 200
  ELSE IF q.token = "wrong-role" THEN 403 ELSE 401

(* `_read_json_body` *)
BodyStatus(q) == CASE q.body = "object" -> 200
                   [] q.body = "unreadable" -> 400
                   [] q.body = "too-large" -> 413

(* `_do_post`, `_do_get`, `_reject_non_post`: the first check that fails   *)
(* decides; 200 lets the request through to its handler.                   *)
Verdict(q) ==
  IF q.route = "none" THEN 404
  ELSE IF \/ q.method = "PUT"
          \/ q.method = "POST" /\ q.route # "workflow"
          \/ q.method = "GET" /\ q.route = "workflow" THEN 405
  ELSE IF AuthStatus(q) # 200 THEN AuthStatus(q)
  ELSE IF q.method = "POST" THEN BodyStatus(q) ELSE 200

Reject(r) ==
  /\ Goes(r, "routed", "leaving")
  /\ Verdict(profile[r]) # 200
  /\ Answers(r, Verdict(profile[r])) /\ Logs(r)
  /\ UNCHANGED <<profile, inflight, shuttingDown, drain, bucketVars, finalized>>

(* `_healthz` touches nothing; `_readyz` reads the flag outside the lock   *)
(* and may find its store or secret broken.                                *)
Probe(r) ==
  /\ IsOps(r) /\ Verdict(profile[r]) = 200 /\ Goes(r, "routed", "leaving")
  /\ \/ profile[r].route = "ops-health" /\ Answers(r, 200)
     \/ profile[r].route = "ops-ready" /\ shuttingDown /\ Answers(r, 503)
     \/ /\ profile[r].route = "ops-ready" /\ ~shuttingDown
        /\ \E code \in {200, 503} : Answers(r, code)
  /\ Logs(r)
  /\ UNCHANGED <<profile, inflight, shuttingDown, drain, bucketVars, finalized>>

(* A workflow or a read: the store is open from here on. *)
Handle(r) ==
  /\ ~IsOps(r) /\ profile[r].route # "sse-subscribe"
  /\ Verdict(profile[r]) = 200 /\ Goes(r, "routed", "running")
  /\ UNCHANGED <<profile, status, inflight, shuttingDown, drain, bucketVars, finalized, lines>>

(* The handler has its response (200 stands for any), or an exception      *)
(* escapes it: a `finally` logs and the count is given back all the same.  *)
HandlerEnds(r) ==
  /\ Goes(r, "running", "leaving")
  /\ Answers(r, 200)
  /\ Logs(r)
  /\ UNCHANGED <<profile, inflight, shuttingDown, drain, bucketVars, finalized>>

(* Mutant: the body is returned without giving the count back. *)
LeaveStillCounted(r) ==
  /\ Goes(r, "leaving", "finalizing")
  /\ UNCHANGED <<profile, status, inflight, shuttingDown, drain, bucketVars, finalized, lines>>

(* `_inflight_wrap` of a list body, or the `except` of `_dispatch`. *)
Leave(r) ==
  /\ Goes(r, "leaving", "finalizing")
  /\ inflight' = inflight - 1
  /\ UNCHANGED <<profile, status, shuttingDown, drain, bucketVars, finalized, lines>>

(* `_finalize_response`: metric sample and audit record, after the count   *)
(* was given back and before the host has the body.                        *)
Finalize(r) ==
  /\ Goes(r, "finalizing", "returned")
  /\ finalized' = [finalized EXCEPT ![r] = @ + 1]
  /\ UNCHANGED <<profile, status, inflight, shuttingDown, drain, bucketVars, lines>>

(* The host writes the body it was given. *)
Serve(r) ==
  /\ Goes(r, "returned", "served")
  /\ UNCHANGED <<profile, status, inflight, shuttingDown, drain, bucketVars, finalized, lines>>

---------------------------------------------------------------------------
(* Streams: the generators count, log and finalize when they end. *)

Open(r) ==
  /\ profile[r].route = "sse-subscribe" /\ Verdict(profile[r]) = 200
  /\ Goes(r, "routed", "opened") /\ Answers(r, 200)
  /\ UNCHANGED <<profile, inflight, shuttingDown, drain, bucketVars, finalized, lines>>

FirstChunk(r) ==
  /\ Goes(r, "opened", "streaming")
  /\ UNCHANGED <<profile, status, inflight, shuttingDown, drain, bucketVars, finalized, lines>>

(* Mutant: `close()` after the last chunk finalizes again. *)
DoneEveryTime(r) == finalized' = [finalized EXCEPT ![r] = @ + 1]

(* `_FinalizeOnClose._done` *)
Done(r) == finalized' = IF finalized[r] = 0 THEN [finalized EXCEPT ![r] = 1] ELSE finalized

(* The idle timeout ends the frames: StopIteration, and the host closes    *)
(* the body it has exhausted.                                              *)
StreamEnds(r) ==
  /\ Goes(r, "streaming", "exhausted")
  /\ inflight' = inflight - 1 /\ Logs(r) /\ Done(r)
  /\ UNCHANGED <<profile, status, shuttingDown, drain, bucketVars>>

CloseExhausted(r) ==
  /\ Goes(r, "exhausted", "served") /\ Done(r)
  /\ UNCHANGED <<profile, status, inflight, shuttingDown, drain, bucketVars, lines>>

(* The client has gone: the host closes a stream that is running. *)
CloseStream(r) ==
  /\ Goes(r, "streaming", "served")
  /\ inflight' = inflight - 1 /\ Logs(r) /\ Done(r)
  /\ UNCHANGED <<profile, status, shuttingDown, drain, bucketVars>>

(* The host closes a stream it has not begun to read: an unstarted         *)
(* generator has no `finally` to run, so nothing is logged or given back.  *)
CloseUnstarted(r) ==
  /\ Goes(r, "opened", "leaked") /\ Done(r)
  /\ UNCHANGED <<profile, status, inflight, shuttingDown, drain, bucketVars, lines>>

---------------------------------------------------------------------------
(* Shutdown. *)

(* The handler: `begin_shutdown`, then a thread in `wait_for_drain`. *)
Sigterm ==
  /\ drain = "none"
  /\ shuttingDown' = TRUE /\ drain' = "waiting"
  /\ UNCHANGED <<pc, profile, status, inflight, bucketVars, finalized, lines>>

Drained ==
  /\ drain = "waiting" /\ inflight = 0
  /\ drain' = "drained"
  /\ UNCHANGED <<pc, profile, status, inflight, shuttingDown, bucketVars, finalized, lines>>

GraceEnds ==
  /\ drain = "waiting" /\ inflight > 0
  /\ drain' = "exceeded"
  /\ UNCHANGED <<pc, profile, status, inflight, shuttingDown, bucketVars, finalized, lines>>

(* `server.shutdown()` ends `serve_forever`, `cmd_serve` returns, and the  *)
(* daemon threads go with the process.                                     *)
Exit ==
  /\ drain \in {"drained", "exceeded"}
  /\ drain' = "stopped"
  /\ pc' = [r \in Requests |-> IF pc[r] \in {"out", "served", "leaked"} THEN pc[r] ELSE "killed"]
  /\ UNCHANGED <<profile, status, inflight, shuttingDown, bucketVars, finalized, lines>>

Tick ==
  /\ clock < MaxTime /\ clock' = clock + 1
  /\ UNCHANGED <<pc, profile, status, inflight, shuttingDown, drain, tokens, last,
                 retryAfter, finalized, lines, grants>>

Works(r) ==
  \/ AdmitOps(r) \/ Admit(r) \/ TurnAway(r) \/ Acquire(r) \/ Limit(r) \/ Limited(r)
  \/ Reject(r) \/ Probe(r) \/ Handle(r) \/ HandlerEnds(r) \/ Leave(r) \/ Finalize(r)
  \/ Serve(r) \/ Open(r) \/ FirstChunk(r) \/ StreamEnds(r) \/ CloseExhausted(r)

Next == \/ \E r \in Requests : Arrive(r) \/ Works(r) \/ CloseStream(r) \/ CloseUnstarted(r)
        \/ Sigterm \/ Drained \/ GraceEnds \/ Exit \/ Tick

(* Threads are scheduled, handlers end (their calls have timeouts), idle   *)
(* streams time out; the drain thread wakes up.  Nothing else is fair.     *)
Fairness == /\ \A r \in Requests : WF_vars(Works(r))
            /\ WF_vars(Drained)

Spec == Init /\ [][Next]_vars /\ Fairness

---------------------------------------------------------------------------
TypeOK ==
  /\ pc \in [Requests -> Places] /\ \A r \in Requests : profile[r] \in Profiles[r]
  /\ status \in [Requests -> Nat]
  /\ inflight \in 0..Cardinality(Requests) /\ shuttingDown \in BOOLEAN
  /\ drain \in {"none", "waiting", "drained", "exceeded", "stopped"}
  /\ tokens \in 0..Capacity /\ last \in 0..clock /\ clock \in 0..MaxTime
  /\ finalized \in [Requests -> 0..1] /\ lines \in [Requests -> 0..1]
  /\ grants \subseteq Requests \X (0..MaxTime)

(* Shutdown: once the drain thread has reported "drain complete", no       *)
(* request that passed the gate is still before the end of its handler or  *)
(* in its stream; only operational probes may be.  The gate checks the     *)
(* flag and counts in one hold of the lock for exactly this.               *)
DrainLosesNothing ==
  drain = "drained" => \A r \in Requests : ~IsOps(r) => pc[r] \notin Counted

InFlight == {r \in Requests : pc[r] \in Counted}

(* The one way out that keeps the count, against the comments beside it    *)
(* ("decremented on exit", "every path out MUST decrement"): a stream that *)
(* the host closes before its first chunk.                                 *)
Leaked == {r \in Requests : pc[r] = "leaked"}

(* The in-flight count is what is in flight and what has leaked: no other  *)
(* way out of the shell, by an exception, a refusal, the end of a body or  *)
(* of a stream, fails to give the count back, and none does so twice.       *)
InflightExact == drain # "stopped" => inflight = Cardinality(InFlight \cup Leaked)

(* What the drain reports, and the count it takes it from.                 *)
DrainIsExact == DrainLosesNothing /\ InflightExact

(* Neither turned away by the shutdown nor by the bucket. *)
Dispatched(r) == IsOps(r) \/ (status[r] # 503 /\ retryAfter[r] = NotLimited)

(* One sample and one audit decision per response whatever way it ended,   *)
(* and one log line per request that was dispatched.                       *)
AccountedOnce ==
  \A r \in Requests :
    pc[r] = "served" => /\ finalized[r] = 1
                        /\ lines[r] = IF Dispatched(r) THEN 1 ELSE 0

(* The shell's books are right: the drain waits for what is in flight, and *)
(* but for leaked streams for nothing else, and every response leaves one  *)
(* record of each kind.                                                    *)
CountsAreExact == DrainIsExact /\ AccountedOnce

(* The bucket: between any two times no more tokens are granted than the   *)
(* burst and what the rate gives for the time between them.                *)
RateBounded ==
  \A from, to \in 0..clock :
    from <= to =>
      LET granted == {g \in grants : g[2] \in from..to}
      IN  Cardinality(granted) * One <= Capacity + (to - from) * Gain

(* A client that waits as long as Retry-After told it finds a token,       *)
(* unless another request has taken one since.                             *)
RetryAfterHonest ==
  \A r \in Requests :
    /\ retryAfter[r] # NotLimited
    /\ clock >= retryAfter[r].at + retryAfter[r].seconds * TicksPerSecond
    /\ ~\E g \in grants : g[2] > retryAfter[r].at
    => Refilled >= One

(* The bucket grants no more than the rate, and Retry-After holds.         *)
RateHonoured == RateBounded /\ RetryAfterHonest

(* Without new work the drain completes: every admitted request leaves,    *)
(* unless a stream was closed before it began.                             *)
DrainCompletes == shuttingDown ~> drain # "waiting" \/ Leaked # {}
============================================================================
