------------------------- MODULE IdempotentRequest -------------------------
(***************************************************************************)
(* Requests that carry the same Idempotency-Key (wsgi.py, _respond), or    *)
(* deliveries of the same CloudEvents id (_respond_event_consume), each on *)
(* a connection of its own, racing for the row (workflow_id, key) of       *)
(* lnpl_idempotency (drivers.py, idempotency_begin / _finish / _release).  *)
(*                                                                         *)
(* The claim is three separately committed statements around a run that    *)
(* has its own transaction: SELECT, DELETE of an expired row and INSERT    *)
(* before it, UPDATE or DELETE after it.  Any of them may be refused       *)
(* ("database is locked"), and a process may die between any two.          *)
(***************************************************************************)
EXTENDS Integers, FiniteSets

CONSTANTS
    Requests,   \* requests for one (workflow_id, key)
    Events,     \* those of them that came in on the event route
    TTL,        \* idempotency_ttl_ms, in ticks of the wall clock
    MaxTime,    \* bound: the clock stops here
    Wal,        \* the store file is in WAL mode: a COMMIT is never refused
    NoClaim, NoAnswer

RequestAssumption ==
    /\ Events \subseteq Requests
    /\ TTL \in Nat \ {0}
    /\ MaxTime \in Nat
    /\ Wal \in BOOLEAN
    /\ NoClaim \notin [owner : Requests, at : Nat,
                      status : {"in-progress", "completed", "failed"},
                      result : Requests]

VARIABLES
    claim,      \* the row: who inserted it, when, and its disposition
    now,        \* the wall clock
    pc,         \* request -> the statement it executes next
    stamp,      \* request -> now_ms, read before idempotency_begin
    since,      \* request -> the time its INSERT landed (not in the code)
    tx,         \* request -> the run's SQL transaction, once run_workflow ended
    outcome,    \* request -> what its run came to
    applied,    \* requests whose run's writes are in the store
    answer,     \* request -> <<kind, the request whose run it reports>>
    ousted      \* requests whose live claim another one deleted (history)

vars == <<claim, now, pc, stamp, since, tx, outcome, applied, answer, ousted>>

Definite == {"completed", "failed"}

Init ==
    /\ claim = NoClaim
    /\ now = 0
    /\ pc = [r \in Requests |-> "new"]
    /\ stamp = [r \in Requests |-> 0]
    /\ since = [r \in Requests |-> 0]
    /\ tx = [r \in Requests |-> "none"]
    /\ outcome = [r \in Requests |-> "none"]
    /\ applied = {}
    /\ answer = [r \in Requests |-> NoAnswer]
    /\ ousted = {}

-----------------------------------------------------------------------------
(* The response is sent and the connection closed, which discards whatever *)
(* transaction is still open on it.                                         *)
Answer(r, kind, by) ==
    /\ answer' = [answer EXCEPT ![r] = <<kind, by>>]
    /\ pc' = [pc EXCEPT ![r] = "done"]
    /\ tx' = [tx EXCEPT ![r] = "none"]

GoTo(r, label) ==
    /\ pc' = [pc EXCEPT ![r] = label]
    /\ UNCHANGED answer

(* A DELETE that names the key takes away whatever claim is there.          *)
Deleted(r) ==
    /\ claim' = NoClaim
    /\ ousted' = IF claim # NoClaim /\ claim.owner # r /\ now - claim.at < TTL
                 THEN ousted \cup {claim.owner} ELSE ousted

(* Nobody else's transaction holds the write lock.                          *)
CanWrite(r) == \A q \in Requests \ {r} : tx[q] = "none"

(* "database is locked": a transaction of this key's runs, or of any other *)
(* workflow over the same file, outlasted busy_timeout.                     *)
Refused(r) == UNCHANGED <<claim, now, stamp, since, outcome, applied, ousted>>

(* No request spends a whole TTL inside idempotency_begin: its statements  *)
(* wait at most busy_timeout each.                                          *)
BeginIsPrompt ==
    \A r \in Requests :
       pc[r] \in {"select", "clear", "insert"} => now + 1 - stamp[r] < TTL

Tick ==
    /\ now < MaxTime
    /\ BeginIsPrompt
    /\ now' = now + 1
    /\ UNCHANGED <<claim, pc, stamp, since, tx, outcome, applied, answer, ousted>>

Arrive(r) ==
    /\ pc[r] = "new"
    /\ stamp' = [stamp EXCEPT ![r] = now]
    /\ GoTo(r, "select")
    /\ UNCHANGED <<claim, now, since, tx, outcome, applied, ousted>>

(* idempotency_begin, the SELECT.                                           *)
Fresh(r) == stamp[r] - claim.at < TTL

Select(r) ==
    /\ pc[r] = "select"
    /\ \/ /\ claim = NoClaim
          /\ GoTo(r, "insert") /\ UNCHANGED tx
       \/ /\ claim # NoClaim /\ ~ Fresh(r)
          /\ GoTo(r, "clear") /\ UNCHANGED tx
       \/ /\ claim # NoClaim /\ Fresh(r) /\ claim.status = "in-progress"
          /\ Answer(r, "busy", r)
       \/ /\ claim # NoClaim /\ Fresh(r) /\ claim.status # "in-progress"
          /\ Answer(r, claim.status, claim.result)
    /\ UNCHANGED <<claim, now, stamp, since, outcome, applied, ousted>>

(* idempotency_begin, the DELETE of the row the SELECT found expired: it   *)
(* names the key only, so it removes whatever row is there by now.          *)
Clear(r) ==
    /\ pc[r] = "clear"
    /\ CanWrite(r)
    /\ Deleted(r)
    /\ GoTo(r, "insert")
    /\ UNCHANGED <<now, stamp, since, tx, outcome, applied>>

(* Mutant: INSERT OR REPLACE.                                               *)
InsertReplacing(r) ==
    /\ pc[r] = "insert"
    /\ CanWrite(r)
    /\ claim' = [owner |-> r, at |-> stamp[r], status |-> "in-progress",
                 result |-> r]
    /\ since' = [since EXCEPT ![r] = now]
    /\ GoTo(r, "run")
    /\ UNCHANGED <<now, stamp, tx, outcome, applied, ousted>>

(* idempotency_begin, the INSERT: the primary key lets one request win.     *)
Insert(r) ==
    /\ pc[r] = "insert"
    /\ CanWrite(r)
    /\ IF claim = NoClaim
       THEN /\ claim' = [owner |-> r, at |-> stamp[r],
                         status |-> "in-progress", result |-> r]
            /\ since' = [since EXCEPT ![r] = now]
            /\ GoTo(r, "run")
            /\ UNCHANGED tx
       ELSE UNCHANGED <<claim, since>> /\ Answer(r, "busy", r)
    /\ UNCHANGED <<now, stamp, outcome, applied, ousted>>

(* A DriverError out of idempotency_begin leaves the route as a 500.        *)
BeginRefused(r) ==
    /\ pc[r] \in {"clear", "insert"}
    /\ Answer(r, "error", r)
    /\ Refused(r)

-----------------------------------------------------------------------------
(* run_workflow, as the claim sees it.                                      *)

(* An If-Match that does not hold is recorded like a failed run.            *)
PreconditionFails(r) ==
    /\ pc[r] = "run"
    /\ r \notin Events
    /\ outcome' = [outcome EXCEPT ![r] = "failed"]
    /\ GoTo(r, "finish")
    /\ UNCHANGED <<claim, now, stamp, since, tx, applied, ousted>>

(* The run committed and returned `completed`.                              *)
RunCompletes(r) ==
    /\ pc[r] = "run"
    /\ CanWrite(r)
    /\ applied' = applied \cup {r}
    /\ outcome' = [outcome EXCEPT ![r] = "completed"]
    /\ GoTo(r, "finish")
    /\ UNCHANGED <<claim, now, stamp, since, tx, ousted>>

(* A step failed and the run rolled back.  On the event route             *)
(* map_consume_result calls some failures transient.                        *)
RunFails(r) ==
    /\ pc[r] = "run"
    /\ \/ /\ outcome' = [outcome EXCEPT ![r] = "failed"]
          /\ GoTo(r, "finish")
       \/ /\ r \in Events
          /\ outcome' = [outcome EXCEPT ![r] = "transient"]
          /\ GoTo(r, "release")
    /\ UNCHANGED <<claim, now, stamp, since, tx, applied, ousted>>

(* An exception escapes run_workflow: with nothing written or everything   *)
(* rolled back, with the transaction open ("open": the driver's flags say  *)
(* so), or out of commit(), whose `finally` clears the flags although      *)
(* sqlite keeps the transaction ("orphaned").  The HTTP route answers 500  *)
(* and keeps the claim; the event route goes on.                            *)
RunEscapes(r) ==
    /\ pc[r] = "run"
    /\ IF r \in Events
       THEN /\ \/ UNCHANGED <<tx, outcome>>
               \/ CanWrite(r) /\ tx' = [tx EXCEPT ![r] = "open"] /\ UNCHANGED outcome
               \/ /\ CanWrite(r) /\ ~ Wal
                  /\ tx' = [tx EXCEPT ![r] = "orphaned"]
                  /\ outcome' = [outcome EXCEPT ![r] = "refused"]
            /\ GoTo(r, "rollback")
       ELSE Answer(r, "error", r) /\ UNCHANGED outcome
    /\ UNCHANGED <<claim, now, stamp, since, applied, ousted>>

-----------------------------------------------------------------------------
(* After the run.                                                           *)

(* idempotency_finish: an UPDATE of whatever row the key has by now.        *)
Finish(r) ==
    /\ pc[r] = "finish"
    /\ CanWrite(r)
    /\ claim' = IF claim = NoClaim THEN NoClaim
                ELSE [claim EXCEPT !.status = outcome[r], !.result = r]
    /\ Answer(r, outcome[r], r)
    /\ UNCHANGED <<now, stamp, since, outcome, applied, ousted>>

FinishRefused(r) ==
    /\ pc[r] = "finish"
    /\ Answer(r, "error", r)
    /\ Refused(r)

(* Mutant: the open transaction is not closed before the release (#258).    *)
RollsBackNothing(r) ==
    /\ pc[r] = "rollback"
    /\ GoTo(r, "release")
    /\ UNCHANGED <<claim, now, stamp, since, tx, outcome, applied, ousted>>

(* rollback() acts only on a transaction its flags know of.                 *)
RollsBack(r) ==
    /\ pc[r] = "rollback"
    /\ tx' = [tx EXCEPT ![r] = IF @ = "open" THEN "none" ELSE @]
    /\ GoTo(r, "release")
    /\ UNCHANGED <<claim, now, stamp, since, outcome, applied, ousted>>

RollbackFails(r) ==
    /\ pc[r] = "rollback"
    /\ tx[r] = "open"
    /\ Answer(r, "kept", r)
    /\ Refused(r)

(* Mutant: a transient failure leaves the claim as it is (#118, D6).        *)
ReleaseForgotten(r) ==
    /\ pc[r] = "release"
    /\ Answer(r, "retry", r)
    /\ Refused(r)

(* idempotency_release: a DELETE and a commit() on the connection, which   *)
(* commits everything that is still open on it.                             *)
Release(r) ==
    /\ pc[r] = "release"
    /\ CanWrite(r)
    /\ Deleted(r)
    /\ applied' = IF tx[r] = "none" THEN applied ELSE applied \cup {r}
    /\ Answer(r, "retry", r)
    /\ UNCHANGED <<now, stamp, since, outcome>>

ReleaseRefused(r) ==
    /\ pc[r] = "release"
    /\ Answer(r, "kept", r)
    /\ Refused(r)

(* The server process dies; an open transaction is rolled back by sqlite.   *)
Crash(r) ==
    /\ pc[r] \notin {"new", "done", "crashed"}
    /\ GoTo(r, "crashed")
    /\ tx' = [tx EXCEPT ![r] = "none"]
    /\ UNCHANGED <<claim, now, stamp, since, outcome, applied, ousted>>

Step(r) ==
    \/ Arrive(r) \/ Select(r) \/ Clear(r) \/ Insert(r) \/ BeginRefused(r)
    \/ PreconditionFails(r) \/ RunCompletes(r) \/ RunFails(r) \/ RunEscapes(r)
    \/ Finish(r) \/ FinishRefused(r) \/ RollsBack(r) \/ RollbackFails(r)
    \/ Release(r) \/ ReleaseRefused(r) \/ Crash(r)

AllAnswered ==
    /\ \A r \in Requests : pc[r] \in {"done", "crashed"}
    /\ UNCHANGED vars

Next == Tick \/ (\E r \in Requests : Step(r)) \/ AllAnswered

Spec == Init /\ [][Next]_vars

-----------------------------------------------------------------------------
(* Properties.                                                              *)

Claim == [owner : Requests, at : 0..MaxTime,
          status : {"in-progress"} \cup Definite, result : Requests]

Labels == {"new", "select", "clear", "insert", "run", "finish", "rollback",
           "release", "done", "crashed"}

(* Type invariant: a transient outcome is never recorded in the row.        *)
TypeOK ==
    /\ claim \in Claim \cup {NoClaim}
    /\ now \in 0..MaxTime
    /\ pc \in [Requests -> Labels]
    /\ stamp \in [Requests -> 0..MaxTime]
    /\ since \in [Requests -> 0..MaxTime]
    /\ tx \in [Requests -> {"none", "open", "orphaned"}]
    /\ outcome \in [Requests -> Definite \cup {"none", "transient", "refused"}]
    /\ applied \subseteq Requests /\ ousted \subseteq Requests
    /\ answer \in [Requests ->
         ((Definite \cup {"busy", "error", "kept", "retry"}) \X Requests)
           \cup {NoAnswer}]

(* "A same-key retry gets back the SAME result, never a second execution": *)
(* of two runs of one key that take effect, one was claimed when the TTL  *)
(* of the other was over.  Two things can break that, and nothing else: a  *)
(* DELETE by key that hits the live claim of another request, and a commit *)
(* that was refused and is made good by the release.                        *)
OncePerWindow ==
    \A r, q \in applied :
       r # q => \/ since[r] - stamp[q] >= TTL \/ since[q] - stamp[r] >= TTL
                \/ {r, q} \cap ousted # {}
                \/ "refused" \in {outcome[r], outcome[q]}

(* An answer tells the truth about the store, whoever's run it reports:    *)
(* `completed` means that run's writes are there, a definite failure or a  *)
(* 503 ("retry later") means none of them is, unless it was the COMMIT     *)
(* itself that was refused.                                                 *)
TruthfulAnswers ==
    \A r \in Requests : answer[r] # NoAnswer =>
       LET kind == answer[r][1]
           by == answer[r][2]
       IN  /\ kind = "completed" => by \in applied
           /\ kind \in {"failed", "retry", "kept"} /\ outcome[by] # "refused" =>
                 by \notin applied

(* A claim is in progress only while its owner is at work, or when the     *)
(* owner's fate is unknown (it died, or its last statement was refused):   *)
(* no orderly answer leaves a key blocked until the TTL (#118, D6).         *)
NoStuckClaim ==
    claim # NoClaim /\ claim.status = "in-progress" =>
       \/ pc[claim.owner] \in {"run", "finish", "rollback", "release", "crashed"}
       \/ answer[claim.owner][1] \in {"error", "kept"}
=============================================================================
