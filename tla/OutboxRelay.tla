---------------------------- MODULE OutboxRelay ----------------------------
(***************************************************************************)
(* `lnpl relay` (cli.py): processes that drain the outbox, POST every      *)
(* emission to the consuming service and ack what was confirmed.  The      *)
(* outbox rows are numbered by seq, the order in which they were committed *)
(* (SqliteRepository: only the lock holder appends).  In the consuming     *)
(* service every delivery has a thread of its own, and the threads race    *)
(* for the row of the emission's id in lnpl_idempotency, statement by      *)
(* statement as in IdempotentRequest.  Its store is in WAL mode, as the    *)
(* driver creates it: no COMMIT of a run is refused.                        *)
(***************************************************************************)
EXTENDS Integers, FiniteSets

CONSTANTS
    Relays,         \* relay processes over the same store
    Nobody,         \* in place of a relay that no longer waits
    Limit,          \* RELAY_BATCH_LIMIT
    MaxSeq,         \* bound: emissions committed
    MaxThreads,     \* bound: deliveries the consuming service is busy with at once
    Scenarios,      \* how the relays may be started, and against what
    MaxLapses       \* bound: times a row expires while somebody works on it

Seqs == 1..MaxSeq

Threads == 1..MaxThreads

(* once: the relays started with --once; unroutable: the rows whose event  *)
(* the document or the target lacks; the others are bounds: how many relays *)
(* are killed and deliveries fail, whose rows expire while worked on.       *)
Scenario == [once : SUBSET Relays, unroutable : SUBSET Seqs, faults : Nat,
             expiring : SUBSET Seqs]

ASSUME RelayAssumption ==
    /\ Nobody \notin Relays
    /\ Limit \in Nat \ {0}
    /\ MaxSeq \in Nat
    /\ MaxThreads \in Nat \ {0}
    /\ Scenarios \subseteq Scenario
    /\ MaxLapses \in Nat

VARIABLES
    last,           \* the outbox holds the rows 1..last
    delivered,      \* rows with delivered_at set
    mode,           \* relay -> where the process is
    batch,          \* relay -> drained rows not yet posted (oldest first)
    drained,        \* relay -> how many rows its last drain returned
    horizon,        \* relay in `once` -> the youngest row at its drain (history)
    acked,          \* relay -> rows confirmed in this batch (the local list)
    stage,          \* thread -> the statement it executes next
    about,          \* thread -> the emission it was posted
    caller,         \* thread -> the relay that waits for its answer
    claim,          \* seq -> the consumer's row for its id
    aged,           \* seqs whose row is older than its TTL
    runs,           \* seq -> runs of the consuming workflow that committed
    settled,        \* seqs the consumer has answered 200 or 422
    lapses,         \* seq -> how often a row of it has expired (history)
    given,          \* the scenario
    kills, failures

relay    == <<mode, batch, drained, horizon, acked>>
service  == <<stage, about, caller>>
claims   == <<claim, aged, lapses>>
consumer == <<service, claims, runs, settled>>
vars == <<last, delivered, relay, consumer, given, kills, failures>>

Init ==
    /\ last = 0
    /\ delivered = {}
    /\ mode = [p \in Relays |-> "draining"]
    /\ batch = [p \in Relays |-> {}]
    /\ drained = [p \in Relays |-> 0]
    /\ horizon = [p \in Relays |-> 0]
    /\ acked = [p \in Relays |-> {}]
    /\ stage = [t \in Threads |-> "idle"]
    /\ about = [t \in Threads |-> 0]
    /\ caller = [t \in Threads |-> Nobody]
    /\ claim = [s \in Seqs |-> "none"]
    /\ aged = {}
    /\ runs = [s \in Seqs |-> 0]
    /\ settled = {}
    /\ lapses = [s \in Seqs |-> 0]
    /\ given \in Scenarios
    /\ kills = 0
    /\ failures = 0

once == given.once

unroutable == given.unroutable

MoreFaults == kills + failures < given.faults

(* record_emission in a run that commits.                                   *)
Emit ==
    /\ last < MaxSeq
    /\ last' = last + 1
    /\ UNCHANGED <<delivered, relay, consumer, given, kills, failures>>

-----------------------------------------------------------------------------
(* A pass of a relay.                                                       *)

Undelivered == {s \in 1..last : s \notin delivered}

(* ORDER BY seq LIMIT limit.                                                *)
Oldest(rows) ==
    {b \in SUBSET rows :
        /\ Cardinality(b) = IF Cardinality(rows) < Limit THEN Cardinality(rows)
                                                        ELSE Limit
        /\ \A s \in b, t \in rows \ b : s < t}

(* drain_outbox(limit): the oldest undelivered rows, whoever else has them. *)
Drain(p) ==
    /\ mode[p] = "draining"
    /\ \E rows \in Oldest(Undelivered) :
          /\ batch' = [batch EXCEPT ![p] = rows]
          /\ drained' = [drained EXCEPT ![p] = Cardinality(rows)]
    /\ horizon' = [horizon EXCEPT ![p] = IF p \in once THEN last ELSE 0]
    /\ mode' = [mode EXCEPT ![p] = "posting"]
    /\ UNCHANGED <<last, delivered, acked, consumer, given, kills, failures>>

IsNext(p, s) == s \in batch[p] /\ \A t \in batch[p] : s <= t

Posting(p, s) == mode[p] = "posting" /\ IsNext(p, s)

(* The relay has its answer about row s: on to the next row.                *)
Confirmed(p, s) ==
    /\ acked' = [acked EXCEPT ![p] = @ \cup {s}]
    /\ batch' = [batch EXCEPT ![p] = @ \ {s}]
    /\ mode' = [mode EXCEPT ![p] = "posting"]
    /\ UNCHANGED <<drained, horizon>>

(* Mutant: the pass breaks off at the first row that is not confirmed.      *)
LeftUnackedBreaks(p, s) ==
    /\ batch' = [batch EXCEPT ![p] = {}]
    /\ mode' = [mode EXCEPT ![p] = "posting"]
    /\ UNCHANGED <<drained, horizon, acked>>

LeftUnacked(p, s) ==
    /\ batch' = [batch EXCEPT ![p] = @ \ {s}]
    /\ mode' = [mode EXCEPT ![p] = "posting"]
    /\ UNCHANGED <<drained, horizon, acked>>

(* The process is over; what it had confirmed and not acked is forgotten.   *)
Ends(p) ==
    /\ mode' = [mode EXCEPT ![p] = "down"]
    /\ batch' = [batch EXCEPT ![p] = {}]
    /\ drained' = [drained EXCEPT ![p] = 0]
    /\ horizon' = [horizon EXCEPT ![p] = 0]
    /\ acked' = [acked EXCEPT ![p] = {}]

(* A thread of the service takes the delivery.  (Which thread is alike: the *)
(* first one that is idle.)                                                 *)
Free(t) == stage[t] = "idle" /\ \A u \in Threads : stage[u] = "idle" => t <= u

Post(p, s) ==
    /\ Posting(p, s)
    /\ s \notin unroutable
    /\ \E t \in Threads :
          /\ Free(t)
          /\ stage' = [stage EXCEPT ![t] = "select"]
          /\ about' = [about EXCEPT ![t] = s]
          /\ caller' = [caller EXCEPT ![t] = p]
    /\ mode' = [mode EXCEPT ![p] = "waiting"]
    /\ UNCHANGED <<last, delivered, batch, drained, horizon, acked, claims, runs,
                   settled, given, kills, failures>>

(* An event name this document does not declare, or a 404 of the target.    *)
PostUnroutable(p, s) ==
    /\ Posting(p, s)
    /\ s \in unroutable
    /\ LeftUnacked(p, s)
    /\ UNCHANGED <<last, delivered, consumer, given, kills, failures>>

Fails == MoreFaults /\ failures' = failures + 1

(* URLError: no connection.                                                 *)
PostUnreachable(p, s) ==
    /\ Posting(p, s)
    /\ Fails
    /\ LeftUnacked(p, s)
    /\ UNCHANGED <<last, delivered, consumer, given, kills>>

(* The thread that works for a relay that is gone works on for nobody.      *)
Abandoned(p) ==
    /\ caller' = [t \in Threads |-> IF caller[t] = p THEN Nobody ELSE caller[t]]
    /\ UNCHANGED <<stage, about, claims, runs, settled>>

(* No response within the timeout: urlopen raises TimeoutError, which      *)
(* _relay_post does not catch, nor does anyone up to cmd_relay.             *)
ResponseLost(p) ==
    /\ mode[p] = "waiting"
    /\ Fails
    /\ Ends(p)
    /\ Abandoned(p)
    /\ UNCHANGED <<last, delivered, given, kills>>

(* ack_outbox, then the stop rule of _relay_pass: drain again after a full *)
(* batch that acked something, else sleep (or stop, with --once).           *)
PassGoesOn(p) == drained[p] = Limit /\ acked[p] # {}

(* Mutant: --once stops after its first batch.                              *)
NextModeOneBatch(p) == IF p \in once THEN "exited" ELSE "draining"

NextMode(p) == IF p \in once /\ ~ PassGoesOn(p) THEN "exited" ELSE "draining"

AckWhat(p, seqs) ==
    /\ delivered' = delivered \cup seqs
    /\ acked' = [acked EXCEPT ![p] = {}]
    /\ batch' = [batch EXCEPT ![p] = {}]
    /\ mode' = [mode EXCEPT ![p] = NextMode(p)]
    /\ drained' = [drained EXCEPT ![p] = 0]
    /\ UNCHANGED <<last, horizon, consumer, given, kills, failures>>

(* Mutant: the batch is acked without waiting for its answers.              *)
AckEarly(p) ==
    /\ mode[p] = "posting"
    /\ AckWhat(p, acked[p] \cup batch[p])

Ack(p) ==
    /\ mode[p] = "posting"
    /\ batch[p] = {}
    /\ AckWhat(p, acked[p])

(* "database is locked" ends the relay with rc 1; a signal ends it anywhere. *)
RelayKilled(p) ==
    /\ mode[p] \in {"posting", "waiting"}
    /\ MoreFaults
    /\ kills' = kills + 1
    /\ Ends(p)
    /\ Abandoned(p)
    /\ UNCHANGED <<last, delivered, given, failures>>

(* Started again, by somebody, or not.                                      *)
Restart(p) ==
    /\ mode[p] = "down"
    /\ mode' = [mode EXCEPT ![p] = "draining"]
    /\ UNCHANGED <<last, delivered, batch, drained, horizon, acked, consumer,
                   given, kills, failures>>

-----------------------------------------------------------------------------
(* A thread of the consuming service (_respond_event_consume).              *)

Claimed(t) == claim[about[t]]

Expired(t) == about[t] \in aged

GoesTo(t, next) ==
    /\ stage' = [stage EXCEPT ![t] = next]
    /\ UNCHANGED <<about, caller, relay>>

(* The answer is sent, to the relay that waits for it if there is one.      *)
Answers(t) ==
    /\ stage' = [stage EXCEPT ![t] = "idle"]
    /\ about' = [about EXCEPT ![t] = 0]
    /\ caller' = [caller EXCEPT ![t] = Nobody]

AnswersConfirmed(t) ==
    /\ Answers(t)
    /\ IF caller[t] = Nobody THEN UNCHANGED relay ELSE Confirmed(caller[t], about[t])

AnswersUnacked(t) ==
    /\ Answers(t)
    /\ IF caller[t] = Nobody THEN UNCHANGED relay ELSE LeftUnacked(caller[t], about[t])

Deleted(t) ==
    /\ claim' = [claim EXCEPT ![about[t]] = "none"]
    /\ aged' = aged \ {about[t]}

(* idempotency_begin, the SELECT: 409 for a claim in progress, the result  *)
(* (200 or 422) of a finished one, a fresh miss past the TTL.               *)
Select(t) ==
    /\ stage[t] = "select"
    /\ \/ Claimed(t) = "none" /\ GoesTo(t, "insert")
       \/ Claimed(t) # "none" /\ Expired(t) /\ GoesTo(t, "clear")
       \/ Claimed(t) = "in-progress" /\ ~ Expired(t) /\ AnswersUnacked(t)
       \/ Claimed(t) = "done" /\ ~ Expired(t) /\ AnswersConfirmed(t)
    /\ UNCHANGED <<last, delivered, claims, runs, settled, given, kills, failures>>

(* The DELETE of the row the SELECT found expired, by key: it removes      *)
(* whatever row is there by now.                                            *)
Clear(t) ==
    /\ stage[t] = "clear"
    /\ Deleted(t)
    /\ GoesTo(t, "insert")
    /\ UNCHANGED <<last, delivered, runs, settled, lapses, given, kills, failures>>

(* Mutant: INSERT OR REPLACE.                                               *)
InsertReplacing(t) ==
    /\ stage[t] = "insert"
    /\ claim' = [claim EXCEPT ![about[t]] = "in-progress"]
    /\ aged' = aged \ {about[t]}
    /\ GoesTo(t, "run")
    /\ UNCHANGED <<last, delivered, runs, settled, lapses, given, kills, failures>>

(* The INSERT: the primary key lets one delivery win.                       *)
Insert(t) ==
    /\ stage[t] = "insert"
    /\ IF Claimed(t) = "none"
       THEN claim' = [claim EXCEPT ![about[t]] = "in-progress"] /\ GoesTo(t, "run")
       ELSE UNCHANGED claim /\ AnswersUnacked(t)
    /\ UNCHANGED <<last, delivered, aged, runs, settled, lapses, given, kills, failures>>

Commits(t) ==
    /\ stage[t] = "run"
    /\ runs' = [runs EXCEPT ![about[t]] = @ + 1]
    /\ GoesTo(t, "finish")
    /\ UNCHANGED <<last, delivered, claims, settled, given, kills, failures>>

(* idempotency_finish, an UPDATE of whatever row is there by now: 200 after *)
(* the commit, 422 for a permanent rejection, which has rolled back.        *)
Finishes(t) ==
    /\ stage[t] \in {"run", "finish"}
    /\ claim' = IF Claimed(t) = "none" THEN claim
                ELSE [claim EXCEPT ![about[t]] = "done"]
    /\ settled' = settled \cup {about[t]}
    /\ AnswersConfirmed(t)
    /\ UNCHANGED <<last, delivered, aged, runs, lapses, given, kills, failures>>

(* A transient failure: rolled back, the claim released by key, 503.        *)
Releases(t) ==
    /\ stage[t] = "run"
    /\ Fails
    /\ Deleted(t)
    /\ AnswersUnacked(t)
    /\ UNCHANGED <<last, delivered, runs, settled, lapses, given, kills>>

(* "database is locked" out of a statement on the claim: 500 or 503, and a *)
(* claim this delivery has made stays as it is.                             *)
StatementRefused(t) ==
    /\ stage[t] \in {"clear", "insert", "run", "finish"}
    /\ Fails
    /\ AnswersUnacked(t)
    /\ UNCHANGED <<last, delivered, claims, runs, settled, given, kills>>

(* The service dies.  Its claims stay in progress; every relay that waits  *)
(* has its connection dropped, which ends it (RemoteDisconnected).          *)
ServiceDies ==
    /\ \E t \in Threads : stage[t] # "idle"
    /\ Fails
    /\ stage' = [t \in Threads |-> "idle"]
    /\ about' = [t \in Threads |-> 0]
    /\ caller' = [t \in Threads |-> Nobody]
    /\ mode' = [p \in Relays |-> IF mode[p] = "waiting" THEN "down" ELSE mode[p]]
    /\ batch' = [p \in Relays |-> IF mode[p] = "waiting" THEN {} ELSE batch[p]]
    /\ drained' = [p \in Relays |-> IF mode[p] = "waiting" THEN 0 ELSE drained[p]]
    /\ horizon' = [p \in Relays |-> IF mode[p] = "waiting" THEN 0 ELSE horizon[p]]
    /\ acked' = [p \in Relays |-> IF mode[p] = "waiting" THEN {} ELSE acked[p]]
    /\ UNCHANGED <<last, delivered, claims, runs, settled, given, kills>>

(* Nobody works on the claim any more.                                      *)
LeftBehind(s) ==
    /\ claim[s] = "in-progress"
    /\ \A t \in Threads : about[t] = s => stage[t] \notin {"run", "finish"}

(* A row, in progress or done, reaches its TTL: a fresh miss from now on.   *)
Expires(s) ==
    /\ claim[s] # "none"
    /\ s \notin aged
    /\ (s \in given.expiring /\ lapses[s] < MaxLapses) \/ LeftBehind(s)
    /\ aged' = aged \cup {s}
    /\ lapses' = [lapses EXCEPT ![s] = @ + 1]
    /\ UNCHANGED <<last, delivered, relay, service, claim, runs, settled, given,
                   kills, failures>>

RelayStep(p) ==
    \/ Drain(p) \/ Ack(p) \/ ResponseLost(p) \/ RelayKilled(p) \/ Restart(p)
    \/ \E s \in Seqs : Post(p, s) \/ PostUnroutable(p, s) \/ PostUnreachable(p, s)

ThreadStep(t) ==
    \/ Select(t) \/ Clear(t) \/ Insert(t) \/ Commits(t) \/ Finishes(t)
    \/ Releases(t) \/ StatementRefused(t)

Next ==
    \/ Emit
    \/ \E p \in Relays : RelayStep(p)
    \/ \E t \in Threads : ThreadStep(t)
    \/ ServiceDies
    \/ \E s \in Seqs : Expires(s)

Spec == Init /\ [][Next]_vars

(* A running relay keeps working, the service works on what it has begun   *)
(* and a claim nobody works on reaches its TTL.  Nothing starts a relay    *)
(* again and nothing makes faults happen.                                   *)
Fairness ==
    /\ \A p \in Relays :
          /\ WF_vars(Drain(p))
          /\ WF_vars(Ack(p))
          /\ WF_vars(\E s \in Seqs : Post(p, s) \/ PostUnroutable(p, s))
    /\ \A t \in Threads : WF_vars(Select(t) \/ Clear(t) \/ Insert(t) \/ Finishes(t))
    /\ \A s \in Seqs : WF_vars(Expires(s) /\ LeftBehind(s))

FairSpec == Spec /\ Fairness

-----------------------------------------------------------------------------
(* Properties.                                                              *)

(* Type invariant.                                                          *)
TypeOK ==
    /\ last \in 0..MaxSeq
    /\ delivered \subseteq 1..last
    /\ mode \in [Relays -> {"draining", "posting", "waiting", "down", "exited"}]
    /\ \A p \in Relays : /\ batch[p] \subseteq 1..last
                         /\ Cardinality(batch[p]) <= Limit
                         /\ acked[p] \subseteq 1..last
    /\ drained \in [Relays -> 0..Limit]
    /\ horizon \in [Relays -> 0..last]
    /\ stage \in [Threads -> {"idle", "select", "clear", "insert", "run", "finish"}]
    /\ about \in [Threads -> 0..last]
    /\ caller \in [Threads -> Relays \cup {Nobody}]
    /\ claim \in [Seqs -> {"none", "in-progress", "done"}]
    /\ aged \subseteq {s \in Seqs : claim[s] # "none"}
    /\ runs \in [Seqs -> Nat] /\ lapses \in [Seqs -> Nat]
    /\ given \in Scenario
    /\ settled \subseteq 1..last

(* Ack only after confirmation (_relay_drain_once): a row marked delivered *)
(* was answered 200 or 422 by the consumer, whatever died in between.       *)
AckedWasSettled == delivered \subseteq settled

(* At-least-once delivery is effectively once (RFC-0040) for one TTL: until *)
(* the row of an emission's id first expires its workflow commits at most  *)
(* once, however many relays post it and however often.  An expiry admits  *)
(* one more run for EVERY delivery in progress: each of them may have seen *)
(* the expired row, and its DELETE by key takes away the claim the others  *)
(* have made since (idempotency_begin).                                     *)
EffectivelyOnce == \A s \in Seqs : runs[s] <= 1 + lapses[s] * MaxThreads

(* A row the target cannot route stays undelivered.  At the end of a full  *)
(* batch whose other rows another relay is posting it leaves nothing to    *)
(* ack, and the relay stops before the rows behind it.                      *)
HeldUp(s) == \E u \in unroutable : Limit <= u /\ u < s

(* `relay --once` exits with the backlog drained (_relay_pass).  Of several *)
(* relays each may stop early, because the consumer answers 409 for what   *)
(* another is posting; but once all have exited, with no fault on the way, *)
(* every routable row the last drains could see is delivered, unless one   *)
(* nobody can route held it up.                                             *)
OnceDrains ==
    once = Relays /\ kills = 0 /\ failures = 0
    /\ (\A p \in Relays : mode[p] = "exited")
    => \A p \in Relays : \A s \in 1..horizon[p] :
          s \in delivered \cup unroutable \/ HeldUp(s)

(* A full batch of older rows that nobody can route.                        *)
Blocked(s) == Cardinality({u \in unroutable : u < s}) >= Limit

AtWork == \E p \in Relays : mode[p] \notin {"down", "exited"}

(* Durable at-least-once delivery: as long as some relay is at work, every *)
(* committed emission the target can route is some day marked delivered,   *)
(* unless a full batch of older rows cannot be routed (RELAY_BATCH_LIMIT). *)
EventuallyDelivered ==
    \A s \in Seqs :
       <>[]AtWork => (s <= last /\ s \notin unroutable /\ ~ Blocked(s)
                         ~> s \in delivered)

(* _relay_post: a request that got no response at all is left un-acked, and *)
(* "the next drain cycle tries again".  So a relay that runs on and that    *)
(* nobody kills delivers what the target can route, whatever answers are    *)
(* lost.  (They are not: ResponseLost and ServiceDies end the process.)      *)
NextDrainTriesAgain ==
    \A s \in Seqs :
       once = {} /\ [](kills = 0)
       => (s <= last /\ s \notin unroutable /\ ~ Blocked(s) ~> s \in delivered)
=============================================================================
