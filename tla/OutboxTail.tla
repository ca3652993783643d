---------------------------- MODULE OutboxTail -----------------------------
(***************************************************************************)
(* The SSE surface (wsgi.py, _subscribe and _sse_frames): a subscriber     *)
(* tails the emissions of one event, resuming after the last id it got.    *)
(* The rows come from runs that insert them (AUTOINCREMENT numbers them)   *)
(* and commit or roll back later; read_outbox sees committed rows only and *)
(* remembers nothing but the highest seq it has sent.                      *)
(***************************************************************************)
EXTENDS Integers, Sequences, FiniteSets, SequencesExt

CONSTANTS
    Writers,    \* runs that emit
    MaxSeq,     \* bound: rows ever numbered
    MaxBreaks   \* bound: connections that break

TailAssumption == MaxSeq \in Nat /\ MaxBreaks \in Nat

Seqs == 1..MaxSeq

VARIABLES
    rows,       \* committed rows of lnpl_outbox: the seqs
    ours,       \* the rows of the subscribed event, committed or not
    pending,    \* writer -> the rows it has inserted and not committed
    open,       \* whether the stream is up
    after,      \* after_seq of the generator
    fetched,    \* rows read and not yet yielded
    wire,       \* frames yielded and not yet received
    got,        \* what the client has received, in order
    breaks

store  == <<rows, ours, pending>>
stream == <<open, after, fetched, wire>>
vars == <<store, stream, got, breaks>>

Init ==
    /\ rows = {}
    /\ ours = {}
    /\ pending = [w \in Writers |-> {}]
    /\ open = FALSE
    /\ after = 0
    /\ fetched = <<>>
    /\ wire = <<>>
    /\ got = <<>>
    /\ breaks = 0

-----------------------------------------------------------------------------
(* The runs.                                                                *)

Numbered == rows \cup UNION {pending[w] : w \in Writers}

(* AUTOINCREMENT; sqlite_sequence is rolled back with the run.              *)
NextSeq == Max({0} \cup Numbered) + 1

(* Mutant: numbers are handed out without the write lock.                   *)
HoldsLockNever(w) == TRUE

(* sqlite's write lock: a run inserts only while no other has uncommitted  *)
(* rows (SqliteRepository, WriterOnCurrent).                                *)
HoldsLock(w) == \A v \in Writers \ {w} : pending[v] = {}

Insert(w) ==
    /\ HoldsLock(w)
    /\ NextSeq <= MaxSeq
    /\ pending' = [pending EXCEPT ![w] = @ \cup {NextSeq}]
    /\ ours' \in {ours, ours \cup {NextSeq}}
    /\ UNCHANGED <<rows, stream, got, breaks>>

CommitRun(w) ==
    /\ pending[w] # {}
    /\ rows' = rows \cup pending[w]
    /\ pending' = [pending EXCEPT ![w] = {}]
    /\ UNCHANGED <<ours, stream, got, breaks>>

RollbackRun(w) ==
    /\ pending[w] # {}
    /\ ours' = ours \ pending[w]
    /\ pending' = [pending EXCEPT ![w] = {}]
    /\ UNCHANGED <<rows, stream, got, breaks>>

-----------------------------------------------------------------------------
(* The stream.                                                              *)

LastId == IF got = <<>> THEN 0 ELSE Last(got)

(* Mutant: a reconnecting client starts at the present.                     *)
SubscribeAtEnd ==
    /\ ~ open /\ wire = <<>>
    /\ open' = TRUE
    /\ after' = Max({0} \cup rows)
    /\ fetched' = <<>>
    /\ UNCHANGED <<store, wire, got, breaks>>

(* The client (re)connects with the last id it received.                    *)
Subscribe ==
    /\ ~ open /\ wire = <<>>
    /\ open' = TRUE
    /\ after' = LastId
    /\ fetched' = <<>>
    /\ UNCHANGED <<store, wire, got, breaks>>

Since == {s \in rows \cap ours : s > after}

(* ORDER BY seq: the sequences of all elements of S, the lesser first.      *)
InSeqOrder(S) ==
    {q \in [1..Cardinality(S) -> S] : /\ \A i, j \in DOMAIN q : i < j => q[i] < q[j]
                                     /\ \A s \in S : \E i \in DOMAIN q : q[i] = s}

(* read_outbox(event, after_seq), when it returns rows.                     *)
ReadOutbox ==
    /\ open /\ fetched = <<>>
    /\ Since # {}
    /\ fetched' \in InSeqOrder(Since)
    /\ UNCHANGED <<store, open, after, wire, got, breaks>>

(* The frame is written, then the cursor moves.                             *)
YieldFrame ==
    /\ open /\ fetched # <<>>
    /\ wire' = Append(wire, Head(fetched))
    /\ after' = Head(fetched)
    /\ fetched' = Tail(fetched)
    /\ UNCHANGED <<store, open, got, breaks>>

(* No row for SSE_IDLE_TIMEOUT_S: the generator ends, frames on the wire    *)
(* still arrive.                                                            *)
IdleTimeout ==
    /\ open /\ fetched = <<>>
    /\ Since = {}
    /\ open' = FALSE
    /\ UNCHANGED <<store, after, fetched, wire, got, breaks>>

Receive ==
    /\ wire # <<>>
    /\ got' = Append(got, Head(wire))
    /\ wire' = Tail(wire)
    /\ UNCHANGED <<store, open, after, fetched, breaks>>

(* The connection breaks, or a read of the store fails: the generator ends *)
(* and what was under way is lost.                                          *)
Break ==
    /\ open
    /\ breaks < MaxBreaks
    /\ breaks' = breaks + 1
    /\ open' = FALSE
    /\ fetched' = <<>>
    /\ wire' = <<>>
    /\ UNCHANGED <<store, after, got>>

Next ==
    \/ \E w \in Writers : Insert(w) \/ CommitRun(w) \/ RollbackRun(w)
    \/ Subscribe \/ ReadOutbox \/ YieldFrame \/ IdleTimeout \/ Receive \/ Break

Spec == Init /\ [][Next]_vars

(* The client reconnects, the generator polls, TCP delivers.                *)
FairSpec == /\ Spec
            /\ WF_vars(Subscribe) /\ WF_vars(ReadOutbox)
            /\ WF_vars(YieldFrame) /\ WF_vars(Receive)

-----------------------------------------------------------------------------
(* Properties.                                                              *)

(* Type invariant; what is fetched is new to the generator.                 *)
TypeOK ==
    /\ rows \subseteq Seqs /\ ours \subseteq Seqs
    /\ pending \in [Writers -> SUBSET Seqs]
    /\ open \in BOOLEAN
    /\ after \in 0..MaxSeq
    /\ \A i \in DOMAIN fetched : fetched[i] \in Seqs /\ fetched[i] > after
    /\ wire \in Seq(Seqs) /\ got \in Seq(Seqs)
    /\ breaks \in 0..MaxBreaks

(* The stream is the event's part of the outbox: in seq order, no row      *)
(* twice, none skipped, none of a run that did not commit, over any number *)
(* of reconnections and of runs committing meanwhile.                       *)
TailExact ==
    /\ \A i, j \in DOMAIN got : i < j => got[i] < got[j]
    /\ {got[i] : i \in DOMAIN got} = {s \in rows \cap ours : s <= LastId}

(* Every committed emission of the event reaches the subscriber.            *)
TailComplete ==
    \A s \in Seqs : s \in rows \cap ours ~> \E i \in DOMAIN got : got[i] = s
=============================================================================
