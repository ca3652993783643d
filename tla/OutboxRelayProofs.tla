------------------------- MODULE OutboxRelayProofs --------------------------
(***************************************************************************)
(* Theorems about OutboxRelay, for any number of relays, threads of the    *)
(* service and emissions, any batch limit and any number of faults.         *)
(***************************************************************************)
EXTENDS OutboxRelay, FiniteSetTheorems, TLAPS

Stage == {"idle", "select", "clear", "insert", "run", "finish"}

ClaimState == {"none", "in-progress", "done"}

(* The service, as far as types go: a busy thread works on an emission, and *)
(* only a row that is there can be past its TTL.                            *)
ServiceShape ==
    /\ stage \in [Threads -> Stage]
    /\ about \in [Threads -> Seqs \cup {0}]
    /\ caller \in [Threads -> Relays \cup {Nobody}]
    /\ \A t \in Threads : stage[t] # "idle" => about[t] \in Seqs
    /\ claim \in [Seqs -> ClaimState]
    /\ \A s \in aged : s \in Seqs => claim[s] # "none"

(* What the invariants below need of the types.                             *)
Shape ==
    /\ acked \in [Relays -> SUBSET Seqs]
    /\ ServiceShape
    /\ runs \in [Seqs -> Nat]
    /\ lapses \in [Seqs -> Nat]

(* A confirmation a relay holds, and a result the consumer would replay,    *)
(* are of an emission the consumer has settled.                             *)
AnswersAreSettled ==
    /\ AckedWasSettled
    /\ \A p \in Relays : acked[p] \subseteq settled
    /\ \A s \in Seqs : claim[s] = "done" => s \in settled

(* The runs an emission may still come to: those in progress, one for an   *)
(* absent row, and one for every thread that is about to delete the row.  An *)
(* expired row lets any thread become one of those.                         *)
Running(s) == {t \in Threads : stage[t] = "run" /\ about[t] = s}

Clearing(s) == {t \in Threads : stage[t] = "clear" /\ about[t] = s}

Admits(s) ==
    IF s \in aged THEN MaxThreads
    ELSE Cardinality(Clearing(s)) + IF claim[s] = "none" THEN 1 ELSE 0

Budgeted(s) ==
    runs[s] + Cardinality(Running(s)) + Admits(s) <= 1 + lapses[s] * MaxThreads

RunsAreBudgeted == \A s \in Seqs : Budgeted(s)

RelayInv == Shape /\ AnswersAreSettled /\ RunsAreBudgeted

-----------------------------------------------------------------------------
(* Counting threads.                                                        *)

LEMMA ThreadsCount ==
    ASSUME NEW S \in SUBSET Threads
    PROVE  /\ IsFiniteSet(S)
           /\ Cardinality(S) \in Nat
           /\ Cardinality(S) <= MaxThreads
<1>1. MaxThreads \in Nat
  BY RelayAssumption
<1>2. IsFiniteSet(Threads) /\ Cardinality(Threads) = MaxThreads
  BY <1>1, FS_Interval DEF Threads
<1>3. IsFiniteSet(S) /\ Cardinality(S) <= Cardinality(Threads)
  BY <1>2, FS_Subset
<1> QED
  BY <1>2, <1>3, FS_CardinalityType

LEMMA ThreadJoins ==
    ASSUME NEW S \in SUBSET Threads, NEW t \in Threads, t \notin S
    PROVE  Cardinality(S \cup {t}) = Cardinality(S) + 1
BY ThreadsCount, FS_AddElement

LEMMA ThreadLeaves ==
    ASSUME NEW S \in SUBSET Threads, NEW t \in Threads
    PROVE  /\ Cardinality(S \ {t}) <= Cardinality(S)
           /\ t \in S => Cardinality(S \ {t}) = Cardinality(S) - 1
<1>1. IsFiniteSet(S) /\ Cardinality(S) \in Nat
  BY ThreadsCount
<1>2. CASE t \in S
  <2>1. Cardinality(S \ {t}) = Cardinality(S) - 1
    BY <1>1, <1>2, FS_RemoveElement
  <2> QED
    BY <1>1, <2>1
<1>3. CASE t \notin S
  <2>1. S \ {t} = S
    BY <1>3
  <2> QED
    BY <1>1, <1>3, <2>1
<1> QED
  BY <1>2, <1>3

(* A thread that takes a step changes no group but its own emission's.      *)
Moves(t, next) ==
    /\ stage[t] # "idle"
    /\ stage' = [stage EXCEPT ![t] = next]
    /\ \/ about' = about
       \/ next = "idle" /\ about' = [about EXCEPT ![t] = 0]

LEMMA MovesGroups ==
    ASSUME ServiceShape, NEW t \in Threads, NEW next \in Stage, Moves(t, next),
           NEW s \in Seqs, s = about[t]
    PROVE  /\ \A y \in Seqs : y # s =>
                 Running(y)' = Running(y) /\ Clearing(y)' = Clearing(y)
           /\ Running(s)' = IF next = "run" THEN Running(s) \cup {t}
                                            ELSE Running(s) \ {t}
           /\ Clearing(s)' = IF next = "clear" THEN Clearing(s) \cup {t}
                                               ELSE Clearing(s) \ {t}
<1>0. /\ stage \in [Threads -> Stage]
      /\ about \in [Threads -> Seqs \cup {0}]
      /\ about[t] \in Seqs /\ 0 \notin Seqs
  BY RelayAssumption DEF ServiceShape, Moves, Seqs
<1>1. stage' = [stage EXCEPT ![t] = next]
  BY DEF Moves
<1>2. CASE about' = about
  BY <1>0, <1>1, <1>2 DEF Running, Clearing
<1>3. CASE next = "idle" /\ about' = [about EXCEPT ![t] = 0]
  BY <1>0, <1>1, <1>3 DEF Running, Clearing
<1> QED
  BY <1>2, <1>3 DEF Moves

(* An emission nothing happens to keeps its budget.                         *)
LEMMA OthersBudgeted ==
    ASSUME NEW y \in Seqs, Budgeted(y),
           Running(y)' = Running(y), Clearing(y)' = Clearing(y),
           claim'[y] = claim[y], y \in aged' <=> y \in aged,
           runs'[y] = runs[y], lapses'[y] = lapses[y]
    PROVE  Budgeted(y)'
BY DEF Budgeted, Admits

(* So does one whose groups shrink.                                         *)
LEMMA FewerBudgeted ==
    ASSUME NEW y \in Seqs, Budgeted(y), Shape,
           Running(y)' \subseteq Running(y), Clearing(y)' \subseteq Clearing(y),
           claim'[y] = "none" => claim[y] = "none", y \in aged' <=> y \in aged,
           runs'[y] = runs[y], lapses'[y] = lapses[y]
    PROVE  Budgeted(y)'
<1>1. Running(y) \in SUBSET Threads /\ Clearing(y) \in SUBSET Threads
  BY DEF Running, Clearing
<1>2. /\ Cardinality(Running(y)') <= Cardinality(Running(y))
      /\ Cardinality(Clearing(y)') <= Cardinality(Clearing(y))
      /\ IsFiniteSet(Running(y)') /\ IsFiniteSet(Clearing(y)')
  BY <1>1, ThreadsCount, FS_Subset
<1>3. /\ Cardinality(Running(y)) \in Nat /\ Cardinality(Clearing(y)) \in Nat
      /\ Cardinality(Running(y)') \in Nat /\ Cardinality(Clearing(y)') \in Nat
  BY <1>1, <1>2, ThreadsCount, FS_CardinalityType
<1>4. runs[y] \in Nat /\ lapses[y] \in Nat /\ MaxThreads \in Nat
  BY RelayAssumption DEF Shape
<1>5. lapses[y] * MaxThreads \in Nat
  BY <1>4
<1>6. Admits(y)' <= Admits(y) /\ Admits(y)' \in Nat /\ Admits(y) \in Nat
  BY <1>2, <1>3, <1>4 DEF Admits
<1>7. /\ runs[y] + Cardinality(Running(y)) + Admits(y) <= 1 + lapses[y] * MaxThreads
      /\ Budgeted(y)' <=> runs[y] + Cardinality(Running(y)') + Admits(y)'
                             <= 1 + lapses[y] * MaxThreads
  BY DEF Budgeted
<1> QED
  BY <1>2, <1>3, <1>4, <1>5, <1>6, <1>7

-----------------------------------------------------------------------------
(* How an answer changes the relay that waited for it: it gains at most the *)
(* row that was answered.                                                   *)

LEMMA AnswerGains ==
    ASSUME Shape, NEW t \in Threads, stage[t] # "idle",
           AnswersConfirmed(t) \/ AnswersUnacked(t)
    PROVE  /\ acked' \in [Relays -> SUBSET Seqs]
           /\ \A q \in Relays : acked'[q] \subseteq acked[q] \cup {about[t]}
           /\ AnswersUnacked(t) => acked' = acked
           /\ Moves(t, "idle")
           /\ caller' \in [Threads -> Relays \cup {Nobody}]
           /\ stage' \in [Threads -> Stage]
           /\ about' \in [Threads -> Seqs \cup {0}]
           /\ \A u \in Threads : stage'[u] # "idle" => about'[u] \in Seqs
<1>0. /\ caller \in [Threads -> Relays \cup {Nobody}]
      /\ stage \in [Threads -> Stage]
      /\ about \in [Threads -> Seqs \cup {0}]
      /\ about[t] \in Seqs /\ caller[t] \in Relays \cup {Nobody}
      /\ acked \in [Relays -> SUBSET Seqs]
      /\ \A u \in Threads : stage[u] # "idle" => about[u] \in Seqs
  BY DEF Shape, ServiceShape
<1>1. /\ stage' = [stage EXCEPT ![t] = "idle"]
      /\ about' = [about EXCEPT ![t] = 0]
      /\ caller' = [caller EXCEPT ![t] = Nobody]
  BY DEF AnswersConfirmed, AnswersUnacked, Answers
<1>2. \/ acked' = acked
      \/ AnswersConfirmed(t) /\ caller[t] # Nobody
         /\ acked' = [acked EXCEPT ![caller[t]] = @ \cup {about[t]}]
  BY DEF AnswersConfirmed, AnswersUnacked, Answers, Confirmed, LeftUnacked, relay
<1>3. AnswersUnacked(t) => acked' = acked
  BY DEF AnswersUnacked, Answers, LeftUnacked, relay
<1>4. /\ acked' \in [Relays -> SUBSET Seqs]
      /\ \A q \in Relays : acked'[q] \subseteq acked[q] \cup {about[t]}
  BY <1>0, <1>2
<1>5. Moves(t, "idle")
  BY <1>1 DEF Moves
<1> QED
  BY <1>0, <1>1, <1>3, <1>4, <1>5 DEF Stage

(* Nothing the invariant speaks of but the relays changes, and whom the    *)
(* threads work for.                                                        *)
LEMMA RelaysOnly ==
    ASSUME RelayInv,
           acked' \in [Relays -> SUBSET Seqs],
           \A q \in Relays : acked'[q] \subseteq settled,
           caller' \in [Threads -> Relays \cup {Nobody}],
           UNCHANGED <<delivered, stage, about, claims, runs, settled>>
    PROVE  RelayInv'
<1>1. Shape' /\ AnswersAreSettled'
  BY DEF RelayInv, Shape, ServiceShape, AnswersAreSettled, AckedWasSettled, claims
<1>2. \A s \in Seqs : Running(s)' = Running(s) /\ Clearing(s)' = Clearing(s)
  BY DEF Running, Clearing
<1>3. RunsAreBudgeted'
  BY <1>2, OthersBudgeted DEF RelayInv, RunsAreBudgeted, claims
<1> QED
  BY <1>1, <1>3 DEF RelayInv

-----------------------------------------------------------------------------
(* A step of a relay.                                                       *)

LEMMA EndsForgets ==
    ASSUME NEW p \in Relays, Shape, Ends(p), Abandoned(p)
    PROVE  /\ acked' \in [Relays -> SUBSET Seqs]
           /\ \A q \in Relays : acked'[q] \subseteq acked[q]
           /\ caller' \in [Threads -> Relays \cup {Nobody}]
BY DEF Shape, ServiceShape, Ends, Abandoned

LEMMA PostKeeps ==
    ASSUME RelayInv, NEW p \in Relays, NEW s \in Seqs, Post(p, s)
    PROVE  RelayInv'
<1>1. PICK t \in Threads : /\ stage[t] = "idle"
                           /\ stage' = [stage EXCEPT ![t] = "select"]
                           /\ about' = [about EXCEPT ![t] = s]
                           /\ caller' = [caller EXCEPT ![t] = p]
  BY DEF Post, Free
<1>2. UNCHANGED <<delivered, acked, claim, aged, lapses, runs, settled>>
  BY DEF Post, claims
<1>3. Shape'
  BY <1>1, <1>2 DEF RelayInv, Shape, ServiceShape, Stage
<1>4. \A y \in Seqs : Running(y)' = Running(y) /\ Clearing(y)' = Clearing(y)
  BY <1>1 DEF Running, Clearing, RelayInv, Shape, ServiceShape
<1>5. RunsAreBudgeted'
  BY <1>2, <1>4, OthersBudgeted DEF RelayInv, RunsAreBudgeted
<1>6. AnswersAreSettled'
  BY <1>2 DEF RelayInv, AnswersAreSettled, AckedWasSettled
<1> QED
  BY <1>3, <1>5, <1>6 DEF RelayInv

(* The ack marks what was confirmed and nothing else.                       *)
LEMMA AckKeeps ==
    ASSUME RelayInv, NEW p \in Relays, Ack(p)
    PROVE  RelayInv'
<1>1. UNCHANGED <<stage, about, caller, claim, aged, lapses, runs, settled>>
  BY DEF Ack, AckWhat, consumer, service, claims
<1>2. delivered' \subseteq settled
  BY DEF Ack, AckWhat, RelayInv, AnswersAreSettled, AckedWasSettled
<1>3. acked' = [acked EXCEPT ![p] = {}]
  BY DEF Ack, AckWhat
<1>4. Shape' /\ AnswersAreSettled'
  BY <1>1, <1>2, <1>3 DEF RelayInv, Shape, ServiceShape, AnswersAreSettled,
                          AckedWasSettled
<1>5. \A y \in Seqs : Running(y)' = Running(y) /\ Clearing(y)' = Clearing(y)
  BY <1>1 DEF Running, Clearing
<1>6. RunsAreBudgeted'
  BY <1>1, <1>5, OthersBudgeted DEF RelayInv, RunsAreBudgeted
<1> QED
  BY <1>4, <1>6 DEF RelayInv

LEMMA RelayStepKeeps ==
    ASSUME RelayInv, NEW p \in Relays, RelayStep(p)
    PROVE  RelayInv'
<1>0. /\ acked \in [Relays -> SUBSET Seqs]
      /\ \A q \in Relays : acked[q] \subseteq settled
      /\ caller \in [Threads -> Relays \cup {Nobody}]
      /\ Shape
  BY DEF RelayInv, Shape, ServiceShape, AnswersAreSettled
<1>1. CASE Drain(p)
  BY <1>0, <1>1, RelaysOnly DEF Drain, consumer, service
<1>2. CASE Ack(p)
  BY <1>2, AckKeeps
<1>3. CASE ResponseLost(p)
  <2>1. /\ Ends(p) /\ Abandoned(p)
        /\ UNCHANGED <<delivered, stage, about, claims, runs, settled>>
    BY <1>3 DEF ResponseLost, Abandoned
  <2> QED
    BY <1>0, <2>1, EndsForgets, RelaysOnly
<1>4. CASE RelayKilled(p)
  <2>1. /\ Ends(p) /\ Abandoned(p)
        /\ UNCHANGED <<delivered, stage, about, claims, runs, settled>>
    BY <1>4 DEF RelayKilled, Abandoned
  <2> QED
    BY <1>0, <2>1, EndsForgets, RelaysOnly
<1>5. CASE Restart(p)
  BY <1>0, <1>5, RelaysOnly DEF Restart, consumer, service
<1>6. ASSUME NEW s \in Seqs, Post(p, s) PROVE RelayInv'
  BY <1>6, PostKeeps
<1>7. ASSUME NEW s \in Seqs, PostUnroutable(p, s) PROVE RelayInv'
  BY <1>0, <1>7, RelaysOnly DEF PostUnroutable, LeftUnacked, consumer, service
<1>8. ASSUME NEW s \in Seqs, PostUnreachable(p, s) PROVE RelayInv'
  BY <1>0, <1>8, RelaysOnly DEF PostUnreachable, LeftUnacked, consumer, service
<1> QED
  BY <1>1, <1>2, <1>3, <1>4, <1>5, <1>6, <1>7, <1>8 DEF RelayStep

-----------------------------------------------------------------------------
(* A step of a thread: the budget of its emission, the numbers in hand.     *)

LEMMA Numbers ==
    ASSUME Shape, NEW s \in Seqs
    PROVE  /\ Cardinality(Running(s)) \in Nat
           /\ Cardinality(Clearing(s)) \in 0..MaxThreads
           /\ runs[s] \in Nat /\ MaxThreads \in Nat
           /\ lapses[s] * MaxThreads \in Nat
           /\ Running(s) \in SUBSET Threads /\ Clearing(s) \in SUBSET Threads
<1>1. Running(s) \in SUBSET Threads /\ Clearing(s) \in SUBSET Threads
  BY DEF Running, Clearing
<1>2. runs[s] \in Nat /\ lapses[s] \in Nat /\ MaxThreads \in Nat
  BY RelayAssumption DEF Shape
<1>3. lapses[s] * MaxThreads \in Nat
  BY <1>2
<1> QED
  BY <1>1, <1>2, <1>3, ThreadsCount

(* What every step of a thread has in common: another emission's budget is *)
(* not touched.                                                             *)
LEMMA ThreadBudget ==
    ASSUME RelayInv, NEW t \in Threads, NEW next \in Stage, Moves(t, next),
           NEW s \in Seqs, s = about[t], Budgeted(s)',
           \A y \in Seqs : y # s =>
              /\ claim'[y] = claim[y] /\ runs'[y] = runs[y]
              /\ lapses'[y] = lapses[y] /\ (y \in aged' <=> y \in aged)
    PROVE  RunsAreBudgeted'
<1>1. ServiceShape
  BY DEF RelayInv, Shape
<1>2. ASSUME NEW y \in Seqs PROVE Budgeted(y)'
  <2>1. CASE y = s
    BY <2>1
  <2>2. CASE y # s
    <3>1. Running(y)' = Running(y) /\ Clearing(y)' = Clearing(y)
      BY <1>1, <2>2, MovesGroups
    <3> QED
      BY <2>2, <3>1, OthersBudgeted DEF RelayInv, RunsAreBudgeted
  <2> QED
    BY <2>1, <2>2
<1> QED
  BY <1>2 DEF RunsAreBudgeted

(* A thread that goes on, and answers nobody yet.                           *)
LEMMA GoesToKeeps ==
    ASSUME RelayInv, NEW t \in Threads, NEW next \in Stage \ {"idle"},
           stage[t] # "idle", GoesTo(t, next), UNCHANGED <<delivered, settled>>,
           claim' \in [Seqs -> ClaimState],
           \A s \in Seqs : claim'[s] = "done" => claim[s] = "done",
           \A s \in aged' : s \in Seqs => claim'[s] # "none",
           runs' \in [Seqs -> Nat], UNCHANGED lapses
    PROVE  /\ Shape' /\ AnswersAreSettled' /\ Moves(t, next)
           /\ about[t] \in Seqs
<1>1. /\ stage' = [stage EXCEPT ![t] = next]
      /\ UNCHANGED <<about, caller, acked>>
  BY DEF GoesTo, relay
<1>2. ServiceShape'
  BY <1>1 DEF RelayInv, Shape, ServiceShape
<1>3. Shape'
  BY <1>1, <1>2 DEF RelayInv, Shape
<1>4. AnswersAreSettled'
  BY <1>1 DEF RelayInv, AnswersAreSettled, AckedWasSettled
<1> QED
  BY <1>1, <1>3, <1>4 DEF RelayInv, Shape, ServiceShape, Moves

LEMMA SelectKeeps ==
    ASSUME RelayInv, NEW t \in Threads, Select(t), NEW s \in Seqs, s = about[t]
    PROVE  RelayInv'
<1>0. /\ stage[t] = "select" /\ s \in Seqs
      /\ UNCHANGED <<delivered, claim, aged, lapses, runs, settled>>
      /\ Shape
  BY DEF Select, RelayInv, Shape, ServiceShape, claims
<1>1. ASSUME NEW next \in {"insert", "clear"}, GoesTo(t, next),
             next = "clear" => s \in aged
      PROVE  RelayInv'
  <2>1. Shape' /\ AnswersAreSettled' /\ Moves(t, next) /\ next \in Stage
    BY <1>0, <1>1, GoesToKeeps DEF RelayInv, Shape, ServiceShape, Stage
  <2>2. /\ Running(s)' = Running(s)
        /\ next = "insert" => Clearing(s)' = Clearing(s)
    BY <1>0, <2>1, <1>1, MovesGroups DEF Shape, Running, Clearing
  <2>3. Budgeted(s)
    BY <1>0 DEF RelayInv, RunsAreBudgeted
  <2>4. Budgeted(s)'
    <3>1. CASE next = "insert"
      BY <1>0, <2>2, <2>3, <3>1, OthersBudgeted
    <3>2. CASE s \in aged
      BY <1>0, <2>2, <2>3, <3>2 DEF Budgeted, Admits
    <3> QED
      BY <1>1, <3>1, <3>2
  <2> QED
    BY <1>0, <2>1, <2>4, ThreadBudget DEF RelayInv
<1>2. ASSUME \/ AnswersUnacked(t)
             \/ AnswersConfirmed(t) /\ claim[s] = "done"
      PROVE  RelayInv'
  <2>1. /\ acked' \in [Relays -> SUBSET Seqs] /\ Moves(t, "idle")
        /\ \A q \in Relays : acked'[q] \subseteq acked[q] \cup {s}
        /\ AnswersUnacked(t) => acked' = acked
        /\ caller' \in [Threads -> Relays \cup {Nobody}]
        /\ stage' \in [Threads -> Stage]
        /\ about' \in [Threads -> Seqs \cup {0}]
        /\ \A u \in Threads : stage'[u] # "idle" => about'[u] \in Seqs
    BY <1>0, <1>2, AnswerGains
  <2>2. Shape'
    BY <1>0, <2>1 DEF Shape, ServiceShape
  <2>3. AnswersAreSettled'
    BY <1>0, <1>2, <2>1 DEF RelayInv, AnswersAreSettled, AckedWasSettled
  <2>4. /\ Running(s)' = Running(s)
        /\ Clearing(s)' = Clearing(s)
    BY <1>0, <2>1, MovesGroups DEF Shape, Running, Clearing, Stage
  <2>5. Budgeted(s)'
    BY <1>0, <2>4, OthersBudgeted DEF RelayInv, RunsAreBudgeted
  <2> QED
    BY <1>0, <2>1, <2>2, <2>3, <2>5, ThreadBudget DEF RelayInv, Stage
<1>3. CASE Claimed(t) = "none" /\ GoesTo(t, "insert")
  BY <1>1, <1>3
<1>4. CASE Claimed(t) # "none" /\ Expired(t) /\ GoesTo(t, "clear")
  BY <1>1, <1>4 DEF Expired
<1>5. CASE Claimed(t) = "in-progress" /\ AnswersUnacked(t)
  BY <1>2, <1>5
<1>6. CASE Claimed(t) = "done" /\ AnswersConfirmed(t)
  BY <1>2, <1>6 DEF Claimed
<1> QED
  BY <1>3, <1>4, <1>5, <1>6 DEF Select

(* The DELETE of an expired row: the thread that clears makes room for one *)
(* claim, its own.                                                          *)
LEMMA ClearKeeps ==
    ASSUME RelayInv, NEW t \in Threads, Clear(t), NEW s \in Seqs, s = about[t]
    PROVE  RelayInv'
<1>0. /\ stage[t] = "clear" /\ s \in Seqs /\ Shape /\ Budgeted(s)
      /\ claim' = [claim EXCEPT ![s] = "none"]
      /\ aged' = aged \ {s}
      /\ claim \in [Seqs -> ClaimState]
      /\ \A x \in aged : x \in Seqs => claim[x] # "none"
      /\ GoesTo(t, "insert")
      /\ UNCHANGED <<delivered, runs, settled, lapses>>
      /\ runs \in [Seqs -> Nat]
  BY DEF Clear, Deleted, RelayInv, RunsAreBudgeted, Shape, ServiceShape
<1>1. Shape' /\ AnswersAreSettled' /\ Moves(t, "insert")
  <2>1. /\ claim' \in [Seqs -> ClaimState]
        /\ \A x \in Seqs : claim'[x] = "done" => claim[x] = "done"
        /\ \A x \in aged' : x \in Seqs => claim'[x] # "none"
    BY <1>0 DEF ClaimState
  <2> QED
    BY <1>0, <2>1, GoesToKeeps DEF Stage
<1>2. /\ Running(s)' = Running(s) \ {t} /\ t \notin Running(s)
      /\ Clearing(s)' = Clearing(s) \ {t} /\ t \in Clearing(s)
  BY <1>0, <1>1, MovesGroups DEF Shape, Running, Clearing, Stage
<1>3. /\ Running(s)' = Running(s)
      /\ Cardinality(Clearing(s)') = Cardinality(Clearing(s)) - 1
  BY <1>0, <1>2, Numbers, ThreadLeaves
<1>4. Admits(s)' = Cardinality(Clearing(s))
  BY <1>0, <1>3, Numbers DEF Admits
<1>5. Admits(s) >= Cardinality(Clearing(s)) /\ Admits(s) \in Nat
  BY <1>0, Numbers DEF Admits
<1>6. Budgeted(s)'
  <2>1. runs[s] + Cardinality(Running(s)) + Admits(s) <= 1 + lapses[s] * MaxThreads
    BY <1>0 DEF Budgeted
  <2>2. runs[s] + Cardinality(Running(s)) + Cardinality(Clearing(s))
           <= 1 + lapses[s] * MaxThreads
    BY <1>0, <1>5, <2>1, Numbers
  <2> QED
    BY <1>0, <1>3, <1>4, <2>2 DEF Budgeted
<1> QED
  BY <1>0, <1>1, <1>6, ThreadBudget DEF RelayInv, Stage

(* The INSERT that wins takes the room there was.                           *)
LEMMA InsertKeeps ==
    ASSUME RelayInv, NEW t \in Threads, Insert(t), NEW s \in Seqs, s = about[t]
    PROVE  RelayInv'
<1>0. /\ stage[t] = "insert" /\ s \in Seqs /\ Shape /\ Budgeted(s)
      /\ UNCHANGED <<delivered, aged, runs, settled, lapses>>
      /\ claim \in [Seqs -> ClaimState]
      /\ \A x \in aged : x \in Seqs => claim[x] # "none"
      /\ runs \in [Seqs -> Nat]
  BY DEF Insert, RelayInv, RunsAreBudgeted, Shape, ServiceShape
<1>1. CASE claim[s] = "none"
  <2>0. claim' = [claim EXCEPT ![s] = "in-progress"] /\ GoesTo(t, "run")
    BY <1>1 DEF Insert, Claimed
  <2>1. Shape' /\ AnswersAreSettled' /\ Moves(t, "run")
    <3>1. /\ claim' \in [Seqs -> ClaimState]
          /\ \A x \in Seqs : claim'[x] = "done" => claim[x] = "done"
          /\ \A x \in aged' : x \in Seqs => claim'[x] # "none"
      BY <1>0, <2>0 DEF ClaimState
    <3> QED
      BY <1>0, <2>0, <3>1, GoesToKeeps DEF Stage
  <2>2. /\ Running(s)' = Running(s) \cup {t} /\ t \notin Running(s)
        /\ Clearing(s)' = Clearing(s) \ {t} /\ t \notin Clearing(s)
    BY <1>0, <2>1, MovesGroups DEF Shape, Running, Clearing, Stage
  <2>3. /\ Cardinality(Running(s)') = Cardinality(Running(s)) + 1
        /\ Clearing(s)' = Clearing(s)
    BY <1>0, <2>2, Numbers, ThreadJoins
  <2>4. /\ Admits(s) = Cardinality(Clearing(s)) + 1
        /\ Admits(s)' = Cardinality(Clearing(s))
    BY <1>0, <1>1, <2>0, <2>3, Numbers DEF Admits
  <2>5. Budgeted(s)'
    BY <1>0, <2>3, <2>4, Numbers DEF Budgeted
  <2> QED
    BY <1>0, <2>0, <2>1, <2>5, ThreadBudget DEF RelayInv, Stage
<1>2. CASE claim[s] # "none"
  <2>0. UNCHANGED claim /\ AnswersUnacked(t)
    BY <1>2 DEF Insert, Claimed
  <2>1. /\ acked' = acked /\ Moves(t, "idle")
        /\ caller' \in [Threads -> Relays \cup {Nobody}]
        /\ stage' \in [Threads -> Stage]
        /\ about' \in [Threads -> Seqs \cup {0}]
        /\ \A u \in Threads : stage'[u] # "idle" => about'[u] \in Seqs
    BY <1>0, <2>0, AnswerGains
  <2>2. Shape' /\ AnswersAreSettled'
    BY <1>0, <2>0, <2>1 DEF RelayInv, Shape, ServiceShape, AnswersAreSettled,
                            AckedWasSettled
  <2>3. Running(s)' = Running(s) /\ Clearing(s)' = Clearing(s)
    BY <1>0, <2>1, MovesGroups DEF Shape, Running, Clearing, Stage
  <2>4. Budgeted(s)'
    BY <1>0, <2>0, <2>3, OthersBudgeted
  <2> QED
    BY <1>0, <2>0, <2>1, <2>2, <2>4, ThreadBudget DEF RelayInv, Stage
<1> QED
  BY <1>1, <1>2

LEMMA CommitKeeps ==
    ASSUME RelayInv, NEW t \in Threads, Commits(t), NEW s \in Seqs, s = about[t]
    PROVE  RelayInv'
<1>0. /\ stage[t] = "run" /\ s \in Seqs /\ Shape /\ Budgeted(s)
      /\ runs' = [runs EXCEPT ![s] = @ + 1]
      /\ GoesTo(t, "finish")
      /\ UNCHANGED <<delivered, claim, aged, lapses, settled>>
      /\ runs \in [Seqs -> Nat]
      /\ claim \in [Seqs -> ClaimState]
      /\ \A x \in aged : x \in Seqs => claim[x] # "none"
  BY DEF Commits, claims, RelayInv, RunsAreBudgeted, Shape, ServiceShape
<1>1. Shape' /\ AnswersAreSettled' /\ Moves(t, "finish")
  BY <1>0, GoesToKeeps DEF Stage
<1>2. /\ Running(s)' = Running(s) \ {t} /\ t \in Running(s)
      /\ Clearing(s)' = Clearing(s) \ {t} /\ t \notin Clearing(s)
  BY <1>0, <1>1, MovesGroups DEF Shape, Running, Clearing, Stage
<1>3. /\ Cardinality(Running(s)') = Cardinality(Running(s)) - 1
      /\ Clearing(s)' = Clearing(s)
  BY <1>0, <1>2, Numbers, ThreadLeaves
<1>4. Admits(s)' = Admits(s) /\ Admits(s) \in Nat
  BY <1>0, <1>3, Numbers DEF Admits
<1>5. Budgeted(s)'
  BY <1>0, <1>3, <1>4, Numbers DEF Budgeted
<1> QED
  BY <1>0, <1>1, <1>5, ThreadBudget DEF RelayInv, Stage

(* The end of a delivery that settles the emission.                         *)
LEMMA FinishKeeps ==
    ASSUME RelayInv, NEW t \in Threads, Finishes(t), NEW s \in Seqs, s = about[t]
    PROVE  RelayInv'
<1>0. /\ stage[t] \in {"run", "finish"} /\ s \in Seqs /\ Shape /\ Budgeted(s)
      /\ claim' \in {claim, [claim EXCEPT ![s] = "done"]}
      /\ claim[s] = "none" => claim' = claim
      /\ settled' = settled \cup {s}
      /\ AnswersConfirmed(t)
      /\ UNCHANGED <<delivered, aged, runs, lapses>>
      /\ claim \in [Seqs -> ClaimState]
  BY DEF Finishes, Claimed, RelayInv, RunsAreBudgeted, Shape, ServiceShape
<1>1. /\ acked' \in [Relays -> SUBSET Seqs] /\ Moves(t, "idle")
      /\ \A q \in Relays : acked'[q] \subseteq acked[q] \cup {s}
      /\ caller' \in [Threads -> Relays \cup {Nobody}]
      /\ stage' \in [Threads -> Stage]
      /\ about' \in [Threads -> Seqs \cup {0}]
      /\ \A u \in Threads : stage'[u] # "idle" => about'[u] \in Seqs
  BY <1>0, AnswerGains
<1>2. Shape'
  BY <1>0, <1>1 DEF Shape, ServiceShape, ClaimState
<1>3. AnswersAreSettled'
  BY <1>0, <1>1 DEF RelayInv, AnswersAreSettled, AckedWasSettled
<1>4. Running(s)' \subseteq Running(s) /\ Clearing(s)' \subseteq Clearing(s)
  <2>1. /\ Running(s)' = Running(s) \ {t}
        /\ Clearing(s)' = Clearing(s) \ {t}
    BY <1>0, <1>1, MovesGroups DEF Shape, Stage
  <2> QED
    BY <2>1
<1>5. Budgeted(s)'
  BY <1>0, <1>4, FewerBudgeted
<1> QED
  BY <1>0, <1>1, <1>2, <1>3, <1>5, ThreadBudget DEF RelayInv, Stage

(* A delivery that releases returns the room its claim took, whoever's row *)
(* it deletes.                                                              *)
LEMMA ReleaseKeeps ==
    ASSUME RelayInv, NEW t \in Threads, Releases(t), NEW s \in Seqs, s = about[t]
    PROVE  RelayInv'
<1>0. /\ stage[t] = "run" /\ s \in Seqs /\ Shape /\ Budgeted(s)
      /\ claim' = [claim EXCEPT ![s] = "none"]
      /\ aged' = aged \ {s}
      /\ AnswersUnacked(t)
      /\ UNCHANGED <<delivered, runs, settled, lapses>>
      /\ claim \in [Seqs -> ClaimState]
  BY DEF Releases, Deleted, RelayInv, RunsAreBudgeted, Shape, ServiceShape
<1>1. /\ acked' = acked /\ Moves(t, "idle")
      /\ caller' \in [Threads -> Relays \cup {Nobody}]
      /\ stage' \in [Threads -> Stage]
      /\ about' \in [Threads -> Seqs \cup {0}]
      /\ \A u \in Threads : stage'[u] # "idle" => about'[u] \in Seqs
  BY <1>0, AnswerGains
<1>2. Shape'
  BY <1>0, <1>1 DEF Shape, ServiceShape, ClaimState
<1>3. AnswersAreSettled'
  BY <1>0, <1>1 DEF RelayInv, AnswersAreSettled, AckedWasSettled, ClaimState
<1>4. /\ Running(s)' = Running(s) \ {t} /\ t \in Running(s)
      /\ Clearing(s)' = Clearing(s) \ {t} /\ t \notin Clearing(s)
  BY <1>0, <1>1, MovesGroups DEF Shape, Running, Clearing, Stage
<1>5. /\ Cardinality(Running(s)') = Cardinality(Running(s)) - 1
      /\ Clearing(s)' = Clearing(s)
  BY <1>0, <1>4, Numbers, ThreadLeaves
<1>6. /\ Admits(s)' = Cardinality(Clearing(s)) + 1
      /\ Admits(s) >= Cardinality(Clearing(s)) /\ Admits(s) \in Nat
  BY <1>0, <1>5, Numbers DEF Admits
<1>7. Budgeted(s)'
  BY <1>0, <1>5, <1>6, Numbers DEF Budgeted
<1> QED
  BY <1>0, <1>1, <1>2, <1>3, <1>7, ThreadBudget DEF RelayInv, Stage

LEMMA RefusedKeeps ==
    ASSUME RelayInv, NEW t \in Threads, StatementRefused(t), NEW s \in Seqs, s = about[t]
    PROVE  RelayInv'
<1>0. /\ stage[t] # "idle" /\ s \in Seqs /\ Shape /\ Budgeted(s)
      /\ AnswersUnacked(t)
      /\ UNCHANGED <<delivered, claim, aged, lapses, runs, settled>>
  BY DEF StatementRefused, claims, RelayInv, RunsAreBudgeted, Shape, ServiceShape
<1>1. /\ acked' = acked /\ Moves(t, "idle")
      /\ caller' \in [Threads -> Relays \cup {Nobody}]
      /\ stage' \in [Threads -> Stage]
      /\ about' \in [Threads -> Seqs \cup {0}]
      /\ \A u \in Threads : stage'[u] # "idle" => about'[u] \in Seqs
  BY <1>0, AnswerGains
<1>2. Shape' /\ AnswersAreSettled'
  BY <1>0, <1>1 DEF RelayInv, Shape, ServiceShape, AnswersAreSettled, AckedWasSettled
<1>3. Running(s)' \subseteq Running(s) /\ Clearing(s)' \subseteq Clearing(s)
  <2>1. /\ Running(s)' = Running(s) \ {t}
        /\ Clearing(s)' = Clearing(s) \ {t}
    BY <1>0, <1>1, MovesGroups DEF Shape, Stage
  <2> QED
    BY <2>1
<1>4. Budgeted(s)'
  BY <1>0, <1>3, FewerBudgeted
<1> QED
  BY <1>0, <1>1, <1>2, <1>4, ThreadBudget DEF RelayInv, Stage

-----------------------------------------------------------------------------
(* What happens to the service as a whole.                                  *)

LEMMA DeathKeeps ==
    ASSUME RelayInv, ServiceDies
    PROVE  RelayInv'
<1>0. /\ stage' = [t \in Threads |-> "idle"]
      /\ about' = [t \in Threads |-> 0]
      /\ caller' = [t \in Threads |-> Nobody]
      /\ acked' = [p \in Relays |-> IF mode[p] = "waiting" THEN {} ELSE acked[p]]
      /\ UNCHANGED <<delivered, claim, aged, lapses, runs, settled>>
      /\ Shape
  BY DEF ServiceDies, claims, RelayInv
<1>1. Shape' /\ AnswersAreSettled'
  BY <1>0 DEF RelayInv, Shape, ServiceShape, AnswersAreSettled, AckedWasSettled, Stage
<1>2. \A s \in Seqs : Running(s)' \subseteq Running(s) /\ Clearing(s)' \subseteq Clearing(s)
  BY <1>0 DEF Running, Clearing
<1>3. RunsAreBudgeted'
  BY <1>0, <1>2, FewerBudgeted DEF RelayInv, RunsAreBudgeted
<1> QED
  BY <1>1, <1>3 DEF RelayInv

(* An expiry pays for every thread there is.                                *)
LEMMA ExpiryKeeps ==
    ASSUME RelayInv, NEW s \in Seqs, Expires(s)
    PROVE  RelayInv'
<1>0. /\ claim[s] # "none" /\ s \notin aged
      /\ aged' = aged \cup {s}
      /\ lapses' = [lapses EXCEPT ![s] = @ + 1]
      /\ UNCHANGED <<delivered, acked, stage, about, caller, claim, runs, settled>>
      /\ Shape
      /\ lapses \in [Seqs -> Nat]
  BY DEF Expires, relay, service, RelayInv, Shape
<1>1. Shape' /\ AnswersAreSettled'
  BY <1>0 DEF RelayInv, Shape, ServiceShape, AnswersAreSettled, AckedWasSettled
<1>2. \A y \in Seqs : Running(y)' = Running(y) /\ Clearing(y)' = Clearing(y)
  BY <1>0 DEF Running, Clearing
<1>3. Budgeted(s)'
  <2>1. lapses'[s] * MaxThreads = lapses[s] * MaxThreads + MaxThreads
    <3>1. lapses'[s] = lapses[s] + 1 /\ lapses[s] \in Nat /\ MaxThreads \in Nat
      BY <1>0, RelayAssumption
    <3>2. \A m, n \in Nat : (n + 1) * m = n * m + m
      OBVIOUS
    <3> QED
      BY <3>1, <3>2
  <2>2. runs[s] + Cardinality(Running(s)) + Admits(s) <= 1 + lapses[s] * MaxThreads
    BY DEF RelayInv, RunsAreBudgeted, Budgeted
  <2>3. Admits(s) \in Nat /\ Admits(s)' = MaxThreads
    BY <1>0, Numbers DEF Admits
  <2> QED
    BY <1>0, <1>2, <2>1, <2>2, <2>3, Numbers DEF Budgeted
<1>4. RunsAreBudgeted'
  <2>1. ASSUME NEW y \in Seqs, y # s PROVE Budgeted(y)'
    BY <1>0, <1>2, <2>1, OthersBudgeted DEF RelayInv, RunsAreBudgeted
  <2> QED
    BY <1>3, <2>1 DEF RunsAreBudgeted
<1> QED
  BY <1>1, <1>4 DEF RelayInv

-----------------------------------------------------------------------------

LEMMA InitRelayInv ==
    ASSUME Init PROVE RelayInv
<1>1. Shape /\ AnswersAreSettled
  BY DEF Init, Shape, ServiceShape, Stage, ClaimState, AnswersAreSettled,
         AckedWasSettled
<1>2. ASSUME NEW s \in Seqs PROVE Budgeted(s)
  <2>1. Running(s) = {} /\ Clearing(s) = {}
    BY DEF Init, Running, Clearing
  <2>2. Cardinality({}) = 0
    BY FS_EmptySet
  <2>3. s \notin aged /\ runs[s] = 0 /\ lapses[s] = 0 /\ claim[s] = "none"
    BY DEF Init
  <2>4. 0 * MaxThreads = 0
    BY RelayAssumption
  <2> QED
    BY <2>1, <2>2, <2>3, <2>4 DEF Budgeted, Admits
<1> QED
  BY <1>1, <1>2 DEF RelayInv, RunsAreBudgeted

LEMMA NextRelayInv ==
    ASSUME RelayInv, [Next]_vars PROVE RelayInv'
<1>0. Shape /\ AnswersAreSettled
  BY DEF RelayInv
<1>1. CASE Emit
  BY <1>0, <1>1, RelaysOnly DEF Emit, relay, consumer, service, Shape, ServiceShape,
                                AnswersAreSettled
<1>2. ASSUME NEW p \in Relays, RelayStep(p) PROVE RelayInv'
  BY <1>2, RelayStepKeeps
<1>3. ASSUME NEW t \in Threads, ThreadStep(t) PROVE RelayInv'
  <2>1. about[t] \in Seqs
    BY <1>0, <1>3 DEF ThreadStep, Select, Clear, Insert, Commits, Finishes, Releases,
                      StatementRefused, Shape, ServiceShape
  <2>2. PICK s \in Seqs : s = about[t]
    BY <2>1
  <2> QED
    BY <1>3, <2>2, SelectKeeps, ClearKeeps, InsertKeeps, CommitKeeps, FinishKeeps,
       ReleaseKeeps, RefusedKeeps DEF ThreadStep
<1>4. CASE UNCHANGED vars
  BY <1>0, <1>4, RelaysOnly DEF vars, relay, consumer, service, Shape, ServiceShape,
                                AnswersAreSettled
<1> QED
  BY <1>1, <1>2, <1>3, <1>4, DeathKeeps, ExpiryKeeps DEF Next

(* The invariant of the relays and the claims they post against: what a    *)
(* relay has confirmed is settled, and the runs of an emission stay within *)
(* what its absent or expired claims have admitted.                         *)
THEOREM RelayInvariant == Spec => []RelayInv
BY InitRelayInv, NextRelayInv, PTL DEF Spec

(* Ack only after confirmation (_relay_drain_once), with any number of     *)
(* relays and faults: a row marked delivered was answered by the consumer.  *)
THEOREM AckedIsSettled == Spec => []AckedWasSettled
<1>1. RelayInv => AckedWasSettled
  BY DEF RelayInv, AnswersAreSettled
<1> QED
  BY <1>1, RelayInvariant, PTL

(* Effectively once: the consuming workflow of an emission commits once    *)
(* until the emission's row first expires, and after that at most once for *)
(* every expiry and every delivery in progress (idempotency_begin).         *)
THEOREM EffectivelyOnceHolds == Spec => []EffectivelyOnce
<1>1. ASSUME RelayInv, NEW s \in Seqs
      PROVE  runs[s] <= 1 + lapses[s] * MaxThreads
  <2>1. runs[s] + Cardinality(Running(s)) + Admits(s) <= 1 + lapses[s] * MaxThreads
    BY <1>1 DEF RelayInv, RunsAreBudgeted, Budgeted
  <2>2. Admits(s) \in Nat
    BY <1>1, Numbers DEF Admits, RelayInv
  <2> QED
    BY <1>1, <2>1, <2>2, Numbers DEF RelayInv
<1>2. RelayInv => EffectivelyOnce
  BY <1>1 DEF EffectivelyOnce
<1> QED
  BY <1>2, RelayInvariant, PTL

-----------------------------------------------------------------------------
(* The drained backlog of `relay --once`.                                   *)

(* An execution in which every relay is started with --once and nothing    *)
(* fails.                                                                   *)
Calm == once = Relays /\ kills = 0 /\ failures = 0

InPass(p) == mode[p] \in {"posting", "waiting"}

Full(p) == drained[p] = Limit

IsLast(p, x) == x \in batch[p] /\ \A z \in batch[p] : z <= x

(* A thread that has made its claim will confirm: of its emission, and of  *)
(* one that is confirmed, no relay has to fear that nobody delivers it.     *)
Holds(t) == stage[t] \in {"run", "finish"}

Sure(p) == \E t \in Threads : Holds(t) /\ caller[t] = p

Certain(s) ==
    \/ s \in delivered
    \/ \E p \in Relays : s \in acked[p]
    \/ \E t \in Threads : Holds(t) /\ about[t] = s

CalmTypes ==
    /\ last \in 0..MaxSeq
    /\ delivered \subseteq Seqs
    /\ mode \in [Relays -> {"draining", "posting", "waiting", "exited"}]
    /\ batch \in [Relays -> SUBSET Seqs]
    /\ drained \in [Relays -> 0..Limit]
    /\ horizon \in [Relays -> 0..MaxSeq]

(* What a relay has in hand it drained, and between passes it has nothing.  *)
HandsAreHonest ==
    \A p \in Relays :
       /\ horizon[p] <= last
       /\ \A s \in batch[p] \cup acked[p] : s <= horizon[p]
       /\ ~ InPass(p) => batch[p] = {} /\ acked[p] = {}

(* Every busy thread has one relay that waits for it.                       *)
ThreadsAreWaitedOn ==
    \A t \in Threads : stage[t] # "idle" =>
       /\ caller[t] \in Relays
       /\ mode[caller[t]] = "waiting" /\ IsNext(caller[t], about[t])
       /\ \A u \in Threads : stage[u] # "idle" /\ caller[u] = caller[t] => u = t

(* Nobody leaves a claim behind.                                            *)
ClaimsAreCertain == \A s \in Seqs : claim[s] # "none" => Certain(s)

(* A short batch was all there was to deliver.                              *)
ShortMeansAll ==
    \A p \in Relays : InPass(p) /\ ~ Full(p) =>
       Cardinality({y \in 1..horizon[p] : y \notin delivered}) < Limit

(* Another relay that has the end of a full batch in hand has a full batch *)
(* too, or has the rows behind it as well.                                  *)
EndIsShared ==
    \A r, w \in Relays : \A x \in Seqs, s \in Seqs :
       /\ r # w /\ InPass(r) /\ Full(r) /\ InPass(w)
       /\ IsLast(r, x) /\ x \in batch[w]
       /\ s <= horizon[r] /\ s \notin delivered /\ x < s
       => Full(w) \/ s \in batch[w]

(* A relay that will drain row s, has it in hand, or will go on after its  *)
(* full batch: something of it is confirmed, or will be, or its last row    *)
(* may yet be.                                                              *)
InHand(r, s) == InPass(r) /\ s \in batch[r] \cup acked[r]

GoesOn(r) == InPass(r) /\ Full(r) /\ (acked[r] # {} \/ Sure(r))

MayGoOn(r, s) ==
    /\ InPass(r) /\ Full(r)
    /\ s <= horizon[r]
    /\ batch[r] # {} /\ \A z \in batch[r] : z < s
    /\ \A x \in Seqs : IsLast(r, x) => x \notin unroutable /\ ~ Certain(x)

Carries(r, s) ==
    mode[r] = "draining" \/ InHand(r, s) \/ GoesOn(r) \/ MayGoOn(r, s)

NoneIsLeft ==
    \A p \in Relays : \A s \in Seqs :
       s <= horizon[p] /\ s \notin delivered \cup unroutable /\ ~ HeldUp(s)
       => \E r \in Relays : Carries(r, s)

DrainInv ==
    CalmTypes /\ HandsAreHonest /\ ThreadsAreWaitedOn /\ ClaimsAreCertain
    /\ ShortMeansAll /\ EndIsShared /\ NoneIsLeft

CalmInv == kills \in Nat /\ failures \in Nat /\ (Calm => DrainInv)

-----------------------------------------------------------------------------
(* A relay is done with row s: it was confirmed, or left for another pass. *)

Popped(p, s) ==
    /\ InPass(p) /\ IsNext(p, s)
    /\ batch' = [batch EXCEPT ![p] = @ \ {s}]
    /\ mode' = [mode EXCEPT ![p] = "posting"]
    /\ acked' = acked \/ acked' = [acked EXCEPT ![p] = @ \cup {s}]
    /\ UNCHANGED <<last, delivered, drained, horizon, given>>

(* The thread that served relay p is done, and no other has moved.          *)
Served(p) ==
    \A u \in Threads :
       IF stage[u] # "idle" /\ caller[u] # p
       THEN stage'[u] = stage[u] /\ about'[u] = about[u] /\ caller'[u] = caller[u]
       ELSE stage'[u] = "idle"

LEMMA PoppedKeepsHands ==
    ASSUME DrainInv, Shape, NEW p \in Relays, NEW s \in Seqs, Popped(p, s)
    PROVE  /\ CalmTypes'
           /\ HandsAreHonest'
           /\ ShortMeansAll'
<1>0. /\ batch \in [Relays -> SUBSET Seqs]
      /\ acked \in [Relays -> SUBSET Seqs]
      /\ mode \in [Relays -> {"draining", "posting", "waiting", "exited"}]
      /\ s \in batch[p]
  BY DEF DrainInv, CalmTypes, Shape, Popped, IsNext
<1>1. CalmTypes'
  BY <1>0 DEF DrainInv, CalmTypes, Popped
<1>2. HandsAreHonest'
  BY <1>0 DEF DrainInv, HandsAreHonest, Popped, InPass
<1>3. ShortMeansAll'
  BY <1>0 DEF DrainInv, ShortMeansAll, Popped, InPass, Full
<1> QED
  BY <1>1, <1>2, <1>3

(* The end of a batch is still its end when an older row has been posted.   *)
LEMMA PoppedKeepsEnd ==
    ASSUME DrainInv, NEW p \in Relays, NEW s \in Seqs, Popped(p, s)
    PROVE  EndIsShared'
<1> SUFFICES ASSUME NEW r \in Relays, NEW w \in Relays, NEW x \in Seqs,
                    NEW y \in Seqs, r # w, InPass(r)', Full(r)', InPass(w)',
                    IsLast(r, x)', x \in batch'[w], y <= horizon'[r],
                    y \notin delivered', x < y
             PROVE  (Full(w) \/ y \in batch[w])'
  BY DEF EndIsShared
<1>0. /\ batch \in [Relays -> SUBSET Seqs]
      /\ mode \in [Relays -> {"draining", "posting", "waiting", "exited"}]
      /\ s \in batch[p] /\ \A z \in batch[p] : s <= z
      /\ batch' = [batch EXCEPT ![p] = @ \ {s}]
      /\ mode' = [mode EXCEPT ![p] = "posting"]
      /\ UNCHANGED <<delivered, drained, horizon>>
  BY DEF Popped, IsNext, DrainInv, CalmTypes
<1>1. InPass(r) /\ InPass(w) /\ Full(r)
  BY <1>0 DEF InPass, Full, Popped
<1>2. x \in batch[w] /\ IsLast(r, x)
  BY <1>0 DEF IsLast, Seqs
<1>3. Full(w) \/ y \in batch[w]
  BY <1>0, <1>1, <1>2 DEF DrainInv, EndIsShared
<1>4. CASE Full(w)
  BY <1>0, <1>4 DEF Full
<1>5. CASE y \in batch[w]
  <2>1. y # s \/ w # p
    BY <1>0, <1>2 DEF Seqs, IsLast
  <2> QED
    BY <1>0, <1>5, <2>1
<1> QED
  BY <1>3, <1>4, <1>5

(* What was certain is, and nothing else is.                                *)
LEMMA PoppedKeepsCertain ==
    ASSUME DrainInv, Shape, NEW p \in Relays, NEW s \in Seqs, Popped(p, s),
           Served(p), Certain(s) \/ acked' = acked, Sure(p) => s \in acked'[p],
           NEW x \in Seqs
    PROVE  Certain(x)' <=> Certain(x)
<1>0. /\ acked \in [Relays -> SUBSET Seqs]
      /\ acked' = acked \/ acked' = [acked EXCEPT ![p] = @ \cup {s}]
      /\ delivered' = delivered
      /\ IsNext(p, s)
  BY DEF Shape, Popped
<1>1. ASSUME Certain(x)' PROVE Certain(x)
  <2>1. CASE x \in delivered'
    BY <1>0, <2>1 DEF Certain
  <2>2. CASE \E q \in Relays : x \in acked'[q]
    BY <1>0, <2>2 DEF Certain
  <2>3. ASSUME NEW t \in Threads, Holds(t)', about'[t] = x PROVE Certain(x)
    <3>1. stage'[t] # "idle"
      BY <2>3 DEF Holds
    <3>2. stage'[t] = stage[t] /\ about'[t] = about[t]
      BY <3>1 DEF Served
    <3> QED
      BY <2>3, <3>2 DEF Certain, Holds
  <2> QED
    BY <1>1, <2>1, <2>2, <2>3 DEF Certain
<1>2. ASSUME Certain(x) PROVE Certain(x)'
  <2>1. CASE x \in delivered
    BY <1>0, <2>1 DEF Certain
  <2>2. ASSUME NEW q \in Relays, x \in acked[q] PROVE Certain(x)'
    BY <1>0, <2>2 DEF Certain
  <2>3. ASSUME NEW t \in Threads, Holds(t), about[t] = x PROVE Certain(x)'
    <3>1. stage[t] # "idle"
      BY <2>3 DEF Holds
    <3>2. CASE caller[t] # p
      <4>1. Holds(t)' /\ about'[t] = x
        BY <2>3, <3>1, <3>2 DEF Served, Holds
      <4> QED
        BY <4>1 DEF Certain
    <3>3. CASE caller[t] = p
      <4>1. IsNext(p, x)
        BY <2>3, <3>1, <3>3 DEF DrainInv, ThreadsAreWaitedOn
      <4>2. x = s
        BY <1>0, <4>1 DEF IsNext, Seqs
      <4>3. s \in acked'[p]
        BY <2>3, <3>3 DEF Sure
      <4> QED
        BY <4>2, <4>3 DEF Certain
    <3> QED
      BY <3>2, <3>3
  <2> QED
    BY <1>2, <2>1, <2>2, <2>3 DEF Certain
<1> QED
  BY <1>1, <1>2

(* Somebody else has a row that is certain in hand.                         *)
LEMMA CertainIsInHand ==
    ASSUME DrainInv, NEW x \in Seqs, Certain(x), x \notin delivered
    PROVE  \E w \in Relays : /\ InHand(w, x)
                             /\ x \in acked[w] \/ Sure(w)
<1>1. ASSUME NEW q \in Relays, x \in acked[q]
      PROVE  InHand(q, x)
  BY <1>1 DEF DrainInv, HandsAreHonest, InHand
<1>2. ASSUME NEW t \in Threads, Holds(t), about[t] = x
      PROVE  caller[t] \in Relays /\ InHand(caller[t], x) /\ Sure(caller[t])
  BY <1>2 DEF DrainInv, ThreadsAreWaitedOn, Holds, InHand, InPass, IsNext, Sure
<1> QED
  BY <1>1, <1>2 DEF Certain

(* A relay leaves a row only when somebody else confirms it or nobody can   *)
(* route it; so every row is carried on.                                    *)
LEMMA PoppedCarries ==
    ASSUME DrainInv, Shape, NEW p \in Relays, NEW s \in Seqs, Popped(p, s),
           Served(p), Certain(s) \/ (s \in unroutable /\ acked' = acked),
           Sure(p) => s \in acked'[p],
           NEW y \in Seqs, y \notin delivered \cup unroutable,
           NEW r \in Relays, Carries(r, y)
    PROVE  \E w \in Relays : Carries(w, y)'
<1>0. /\ batch \in [Relays -> SUBSET Seqs]
      /\ acked \in [Relays -> SUBSET Seqs]
      /\ mode \in [Relays -> {"draining", "posting", "waiting", "exited"}]
      /\ InPass(p)
      /\ s \in batch[p] /\ \A z \in batch[p] : s <= z
      /\ batch' = [batch EXCEPT ![p] = @ \ {s}]
      /\ mode' = [mode EXCEPT ![p] = "posting"]
      /\ acked' = acked \/ acked' = [acked EXCEPT ![p] = @ \cup {s}]
      /\ UNCHANGED <<delivered, drained, horizon, given>>
  BY DEF Popped, IsNext, DrainInv, CalmTypes, Shape
<1>1. \A q \in Relays : /\ InPass(q) => InPass(q)'
                        /\ acked[q] \subseteq acked'[q]
                        /\ q # p => batch'[q] = batch[q] /\ mode'[q] = mode[q]
  BY <1>0 DEF InPass
<1>2. \A x \in Seqs : Certain(x)' => Certain(x)
  BY PoppedKeepsCertain
<1>3. \A q \in Relays : q # p /\ Sure(q) => Sure(q)'
  BY DEF Sure, Served, Holds
<1>4. CASE GoesOn(r)
  <2>1. acked'[r] # {} \/ Sure(r)'
    BY <1>1, <1>3, <1>4 DEF GoesOn
  <2> QED
    BY <1>0, <1>1, <1>4, <2>1 DEF GoesOn, Carries, Full
<1>5. CASE InHand(r, y)
  <2>1. CASE r # p \/ y # s \/ s \in acked'[p]
    BY <1>0, <1>1, <1>5, <2>1 DEF InHand, Carries
  <2>2. CASE r = p /\ y = s /\ s \notin acked'[p]
    <3>1. PICK w \in Relays : InHand(w, s) /\ (s \in acked[w] \/ Sure(w))
      BY <2>2, CertainIsInHand
    <3>2. w # p
      BY <1>1, <2>2, <3>1
    <3> QED
      BY <1>1, <2>2, <3>1, <3>2 DEF InHand, Carries
  <2> QED
    BY <2>1, <2>2
<1>6. CASE MayGoOn(r, y)
  <2>1. batch'[r] # {}
    <3> SUFFICES ASSUME batch'[r] = {} PROVE FALSE
      OBVIOUS
    <3>1. r = p /\ batch[p] = {s}
      BY <1>0, <1>1, <1>6 DEF MayGoOn
    <3>2. IsLast(p, s)
      BY <3>1 DEF IsLast, Seqs
    <3> QED
      BY <1>6, <3>1, <3>2 DEF MayGoOn
  <2>2. batch'[r] \subseteq batch[r]
    BY <1>0
  <2>3. \A x \in Seqs : IsLast(r, x)' => IsLast(r, x)
    BY <1>0, <2>1 DEF IsLast, Seqs
  <2>4. \A x \in Seqs : IsLast(r, x)' => x \notin unroutable' /\ ~ Certain(x)'
    BY <1>0, <1>2, <1>6, <2>3 DEF MayGoOn, unroutable
  <2> QED
    BY <1>0, <1>1, <1>6, <2>1, <2>2, <2>4 DEF MayGoOn, Carries, Full
<1>7. CASE mode[r] = "draining"
  BY <1>0, <1>1, <1>7 DEF Carries, InPass
<1> QED
  BY <1>4, <1>5, <1>6, <1>7 DEF Carries

LEMMA PoppedDrains ==
    ASSUME DrainInv, Shape, NEW p \in Relays, NEW s \in Seqs, Popped(p, s),
           Served(p), Certain(s) \/ (s \in unroutable /\ acked' = acked),
           Sure(p) => s \in acked'[p],
           \A x \in Seqs : claim'[x] # "none" => Certain(x)
    PROVE  DrainInv'
<1>1. ClaimsAreCertain'
  BY PoppedKeepsCertain DEF ClaimsAreCertain
<1>2. ThreadsAreWaitedOn'
  <2> SUFFICES ASSUME NEW t \in Threads, stage'[t] # "idle"
               PROVE  /\ caller'[t] \in Relays
                      /\ mode'[caller'[t]] = "waiting"
                      /\ IsNext(caller[t], about[t])'
                      /\ \A u \in Threads :
                            stage'[u] # "idle" /\ caller'[u] = caller'[t] => u = t
    BY DEF ThreadsAreWaitedOn
  <2>1. /\ stage[t] # "idle" /\ caller[t] # p
        /\ about'[t] = about[t] /\ caller'[t] = caller[t]
    BY DEF Served
  <2>2. /\ caller[t] \in Relays
        /\ mode[caller[t]] = "waiting" /\ IsNext(caller[t], about[t])
        /\ \A u \in Threads : stage[u] # "idle" /\ caller[u] = caller[t] => u = t
    BY <2>1 DEF DrainInv, ThreadsAreWaitedOn
  <2>3. batch'[caller[t]] = batch[caller[t]] /\ mode'[caller[t]] = mode[caller[t]]
    BY <2>1, <2>2 DEF Popped, DrainInv, CalmTypes
  <2>4. \A u \in Threads : stage'[u] # "idle" =>
           stage[u] # "idle" /\ caller'[u] = caller[u]
    BY DEF Served
  <2> QED
    BY <2>1, <2>2, <2>3, <2>4 DEF IsNext
<1>3. NoneIsLeft'
  <2> SUFFICES ASSUME NEW q \in Relays, NEW y \in Seqs, y <= horizon[q],
                      y \notin delivered \cup unroutable, ~ HeldUp(y)
               PROVE  \E w \in Relays : Carries(w, y)'
    BY DEF NoneIsLeft, HeldUp, Popped, unroutable
  <2>1. PICK r \in Relays : Carries(r, y)
    BY DEF DrainInv, NoneIsLeft
  <2> QED
    BY <2>1, PoppedCarries
<1> QED
  BY <1>1, <1>2, <1>3, PoppedKeepsHands, PoppedKeepsEnd DEF DrainInv

-----------------------------------------------------------------------------
(* Posting a row.                                                           *)

LEMMA UnroutableDrains ==
    ASSUME DrainInv, Shape, NEW p \in Relays, NEW s \in Seqs, PostUnroutable(p, s)
    PROVE  DrainInv'
<1>1. mode[p] = "posting" /\ UNCHANGED <<stage, about, caller, claim, acked>>
  BY DEF PostUnroutable, Posting, consumer, service, claims, LeftUnacked
<1>2. \A t \in Threads : stage[t] # "idle" => caller[t] # p
  BY <1>1 DEF DrainInv, ThreadsAreWaitedOn
<1>3. Popped(p, s)
  BY DEF PostUnroutable, Posting, LeftUnacked, Popped, InPass
<1>4. Served(p)
  BY <1>1, <1>2 DEF Served
<1>5. ~ Sure(p)
  BY <1>2 DEF Sure, Holds
<1>6. s \in unroutable
  BY DEF PostUnroutable
<1>7. \A x \in Seqs : claim'[x] # "none" => Certain(x)
  BY <1>1 DEF DrainInv, ClaimsAreCertain
<1> QED
  BY <1>1, <1>3, <1>4, <1>5, <1>6, <1>7, PoppedDrains

LEMMA PostDrains ==
    ASSUME DrainInv, Shape, NEW p \in Relays, NEW s \in Seqs, Post(p, s)
    PROVE  DrainInv'
<1>0. /\ batch \in [Relays -> SUBSET Seqs]
      /\ mode \in [Relays -> {"draining", "posting", "waiting", "exited"}]
      /\ stage \in [Threads -> Stage]
      /\ about \in [Threads -> Seqs \cup {0}]
      /\ caller \in [Threads -> Relays \cup {Nobody}]
      /\ mode[p] = "posting" /\ IsNext(p, s)
      /\ mode' = [mode EXCEPT ![p] = "waiting"]
      /\ UNCHANGED <<last, delivered, batch, drained, horizon, acked, claim, given>>
  BY DEF Post, Posting, DrainInv, CalmTypes, Shape, ServiceShape, claims
<1>1. PICK t \in Threads : /\ stage[t] = "idle"
                           /\ stage' = [stage EXCEPT ![t] = "select"]
                           /\ about' = [about EXCEPT ![t] = s]
                           /\ caller' = [caller EXCEPT ![t] = p]
  BY DEF Post, Free
<1>2. \A q \in Relays : InPass(q)' <=> InPass(q)
  BY <1>0 DEF InPass
<1>3. \A u \in Threads : /\ Holds(u)' <=> Holds(u)
                         /\ Holds(u) => about'[u] = about[u] /\ caller'[u] = caller[u]
  BY <1>0, <1>1 DEF Holds
<1>4. \A x \in Seqs : Certain(x)' <=> Certain(x)
  BY <1>0, <1>3 DEF Certain
<1>5. \A q \in Relays : Sure(q)' <=> Sure(q)
  BY <1>3 DEF Sure
<1>6. CalmTypes' /\ HandsAreHonest' /\ ShortMeansAll' /\ EndIsShared'
  BY <1>0, <1>2 DEF DrainInv, CalmTypes, HandsAreHonest, ShortMeansAll, EndIsShared,
                    Full, IsLast
<1>7. ThreadsAreWaitedOn'
  <2>1. \A u \in Threads : stage[u] # "idle" => caller[u] # p
    BY <1>0 DEF DrainInv, ThreadsAreWaitedOn
  <2>2. ASSUME NEW u \in Threads, stage'[u] # "idle"
        PROVE  /\ caller'[u] \in Relays
               /\ mode'[caller'[u]] = "waiting"
               /\ IsNext(caller[u], about[u])'
               /\ \A v \in Threads :
                     stage'[v] # "idle" /\ caller'[v] = caller'[u] => v = u
    <3>1. CASE u = t
      BY <1>0, <1>1, <2>1, <3>1 DEF IsNext
    <3>2. CASE u # t
      <4>1. stage[u] # "idle" /\ caller'[u] = caller[u] /\ about'[u] = about[u]
        BY <1>0, <1>1, <2>2, <3>2
      <4>2. /\ caller[u] \in Relays /\ caller[u] # p
            /\ mode[caller[u]] = "waiting" /\ IsNext(caller[u], about[u])
            /\ \A v \in Threads : stage[v] # "idle" /\ caller[v] = caller[u] => v = u
        BY <2>1, <4>1 DEF DrainInv, ThreadsAreWaitedOn
      <4> QED
        BY <1>0, <1>1, <4>1, <4>2 DEF IsNext
    <3> QED
      BY <3>1, <3>2
  <2> QED
    BY <2>2 DEF ThreadsAreWaitedOn
<1>8. ClaimsAreCertain'
  BY <1>0, <1>4 DEF DrainInv, ClaimsAreCertain
<1>9. \A r \in Relays, y \in Seqs : Carries(r, y) => Carries(r, y)'
  <2> SUFFICES ASSUME NEW r \in Relays, NEW y \in Seqs, Carries(r, y)
               PROVE  Carries(r, y)'
    OBVIOUS
  <2>1. CASE mode[r] = "draining" \/ InHand(r, y)
    BY <1>0, <1>2, <2>1 DEF Carries, InHand
  <2>2. CASE GoesOn(r)
    BY <1>0, <1>2, <1>5, <2>2 DEF Carries, GoesOn, Full
  <2>3. CASE MayGoOn(r, y)
    <3>1. \A x \in Seqs : IsLast(r, x)' => x \notin unroutable' /\ ~ Certain(x)'
      BY <1>0, <1>4, <2>3 DEF MayGoOn, IsLast, unroutable
    <3> QED
      BY <1>0, <1>2, <2>3, <3>1 DEF Carries, MayGoOn, Full
  <2> QED
    BY <2>1, <2>2, <2>3 DEF Carries
<1>10. NoneIsLeft'
  BY <1>0, <1>9 DEF DrainInv, NoneIsLeft, HeldUp, unroutable
<1> QED
  BY <1>6, <1>7, <1>8, <1>10 DEF DrainInv

-----------------------------------------------------------------------------
(* A thread of the service, when nothing fails.                             *)

(* No relay moves, and no thread begins, ends or wins a claim.              *)
LEMMA NoRelayMoves ==
    ASSUME DrainInv, last' \in 0..MaxSeq, last <= last',
           \A t \in Threads : /\ stage'[t] = "idle" <=> stage[t] = "idle"
                              /\ Holds(t)' <=> Holds(t),
           \A s \in Seqs : claim'[s] # "none" => claim[s] # "none",
           UNCHANGED <<delivered, mode, batch, drained, horizon, acked, about, caller,
                       given>>
    PROVE  DrainInv'
<1>1. CalmTypes' /\ HandsAreHonest'
  BY DEF DrainInv, CalmTypes, HandsAreHonest, InPass
<1>2. ThreadsAreWaitedOn'
  BY DEF DrainInv, ThreadsAreWaitedOn, IsNext
<1>3. \A x \in Seqs : Certain(x)' <=> Certain(x)
  BY DEF Certain
<1>4. \A q \in Relays : Sure(q)' <=> Sure(q)
  BY DEF Sure
<1>5. ClaimsAreCertain'
  BY <1>3 DEF DrainInv, ClaimsAreCertain
<1>6. ShortMeansAll' /\ EndIsShared'
  BY DEF DrainInv, ShortMeansAll, EndIsShared, InPass, Full, IsLast
<1>7. \A r \in Relays, y \in Seqs : Carries(r, y)' <=> Carries(r, y)
  BY <1>3, <1>4 DEF Carries, InHand, GoesOn, MayGoOn, InPass, Full, IsLast, unroutable
<1>8. NoneIsLeft'
  BY <1>7 DEF DrainInv, NoneIsLeft, HeldUp, unroutable
<1> QED
  BY <1>1, <1>2, <1>5, <1>6, <1>8 DEF DrainInv

LEMMA AnswerPops ==
    ASSUME DrainInv, Shape, NEW t \in Threads, NEW s \in Seqs, s = about[t],
           stage[t] # "idle", AnswersConfirmed(t) \/ AnswersUnacked(t),
           UNCHANGED <<last, delivered, given>>
    PROVE  \E p \in Relays : /\ Popped(p, s) /\ Served(p)
                             /\ Sure(p) => Holds(t)
                             /\ AnswersConfirmed(t) => s \in acked'[p]
<1>1. PICK p \in Relays : p = caller[t]
  BY DEF DrainInv, ThreadsAreWaitedOn
<1>2. /\ mode[p] = "waiting" /\ IsNext(p, s)
      /\ \A u \in Threads : stage[u] # "idle" /\ caller[u] = p => u = t
  BY <1>1 DEF DrainInv, ThreadsAreWaitedOn
<1>3. p # Nobody
  BY RelayAssumption
<1>4. /\ stage' = [stage EXCEPT ![t] = "idle"]
      /\ about' = [about EXCEPT ![t] = 0]
      /\ caller' = [caller EXCEPT ![t] = Nobody]
  BY DEF AnswersConfirmed, AnswersUnacked, Answers
<1>5. \/ AnswersConfirmed(t) /\ Confirmed(p, s)
      \/ AnswersUnacked(t) /\ LeftUnacked(p, s)
  BY <1>1, <1>3 DEF AnswersConfirmed, AnswersUnacked, Answers
<1>6. Popped(p, s)
  BY <1>2, <1>5 DEF Popped, InPass, Confirmed, LeftUnacked
<1>7. Served(p)
  BY <1>1, <1>2, <1>4 DEF Served, Shape, ServiceShape
<1>8. Sure(p) => Holds(t)
  BY <1>2 DEF Sure, Holds
<1>9. AnswersConfirmed(t) => s \in acked'[p]
  BY <1>1, <1>3 DEF AnswersConfirmed, Answers, Confirmed, Shape
<1> QED
  BY <1>6, <1>7, <1>8, <1>9

(* Winning the claim on the last row of another relay's full batch passes  *)
(* the rows behind it to the relay that posts it.                           *)
LEMMA InsertDrains ==
    ASSUME DrainInv, Shape, NEW t \in Threads, NEW s \in Seqs, s = about[t],
           stage[t] = "insert", claim[s] = "none",
           claim' = [claim EXCEPT ![s] = "in-progress"], GoesTo(t, "run"),
           UNCHANGED <<last, delivered, given>>
    PROVE  DrainInv'
<1>0. /\ stage \in [Threads -> Stage]
      /\ claim \in [Seqs -> ClaimState]
      /\ stage' = [stage EXCEPT ![t] = "run"]
      /\ UNCHANGED <<mode, batch, drained, horizon, acked, about, caller>>
  BY DEF GoesTo, relay, Shape, ServiceShape
<1>1. CalmTypes' /\ HandsAreHonest'
  BY <1>0 DEF DrainInv, CalmTypes, HandsAreHonest, InPass
<1>2. ThreadsAreWaitedOn'
  <2>1. \A u \in Threads : stage'[u] # "idle" => stage[u] # "idle"
    BY <1>0
  <2> QED
    BY <1>0, <2>1 DEF DrainInv, ThreadsAreWaitedOn, IsNext
<1>3. \A u \in Threads : Holds(u)' <=> Holds(u) \/ u = t
  BY <1>0 DEF Holds
<1>4. \A x \in Seqs : Certain(x)' <=> Certain(x) \/ x = s
  BY <1>0, <1>3 DEF Certain
<1>5. ClaimsAreCertain'
  BY <1>0, <1>4 DEF DrainInv, ClaimsAreCertain
<1>6. ShortMeansAll' /\ EndIsShared'
  BY <1>0 DEF DrainInv, ShortMeansAll, EndIsShared, InPass, Full, IsLast
<1>7. PICK w \in Relays : /\ w = caller[t]
                          /\ mode[w] = "waiting" /\ IsNext(w, s)
  BY DEF DrainInv, ThreadsAreWaitedOn
<1>8. Sure(w)' /\ \A q \in Relays : Sure(q) => Sure(q)'
  BY <1>0, <1>3, <1>7 DEF Sure
<1>9. ASSUME NEW r \in Relays, NEW y \in Seqs, Carries(r, y), y \notin delivered
      PROVE  \E v \in Relays : Carries(v, y)'
  <2>1. CASE mode[r] = "draining" \/ InHand(r, y)
    BY <1>0, <2>1 DEF Carries, InHand, InPass
  <2>2. CASE GoesOn(r)
    BY <1>0, <1>8, <2>2 DEF Carries, GoesOn, InPass, Full
  <2>3. CASE MayGoOn(r, y) /\ ~ IsLast(r, s)
    <3>1. \A x \in Seqs : IsLast(r, x)' => x \notin unroutable' /\ ~ Certain(x)'
      BY <1>0, <1>4, <2>3 DEF MayGoOn, IsLast, unroutable
    <3> QED
      BY <1>0, <2>3, <3>1 DEF Carries, MayGoOn, InPass, Full
  <2>4. CASE MayGoOn(r, y) /\ IsLast(r, s)
    <3>1. InPass(w) /\ s \in batch[w] /\ s < y /\ InPass(r) /\ Full(r) /\ y <= horizon[r]
      BY <1>7, <2>4 DEF InPass, IsNext, MayGoOn, IsLast
    <3>2. Full(w) \/ y \in batch[w]
      BY <1>9, <2>4, <3>1 DEF DrainInv, EndIsShared
    <3>3. CASE Full(w)
      BY <1>0, <1>8, <3>1, <3>3 DEF Carries, GoesOn, InPass, Full
    <3>4. CASE y \in batch[w]
      BY <1>0, <3>1, <3>4 DEF Carries, InHand, InPass
    <3> QED
      BY <3>2, <3>3, <3>4
  <2> QED
    BY <1>9, <2>1, <2>2, <2>3, <2>4 DEF Carries
<1>10. NoneIsLeft'
  <2> SUFFICES ASSUME NEW q \in Relays, NEW y \in Seqs, y <= horizon[q],
                      y \notin delivered \cup unroutable, ~ HeldUp(y)
               PROVE  \E v \in Relays : Carries(v, y)'
    BY <1>0 DEF NoneIsLeft, HeldUp, unroutable
  <2>1. PICK r \in Relays : Carries(r, y)
    BY DEF DrainInv, NoneIsLeft
  <2> QED
    BY <1>9, <2>1
<1> QED
  BY <1>1, <1>2, <1>5, <1>6, <1>10 DEF DrainInv

LEMMA ThreadDrains ==
    ASSUME DrainInv, Shape, last \in 0..MaxSeq, NEW t \in Threads, NEW s \in Seqs,
           s = about[t], Select(t) \/ Clear(t) \/ Insert(t) \/ Commits(t) \/ Finishes(t)
    PROVE  DrainInv'
<1>0. /\ UNCHANGED <<last, delivered, given>>
      /\ stage \in [Threads -> Stage]
      /\ claim \in [Seqs -> ClaimState]
      /\ last <= last'
  BY RelayAssumption DEF Select, Clear, Insert, Commits, Finishes, Shape, ServiceShape
<1>1. ASSUME NEW next \in Stage \ {"idle"}, stage[t] # "idle", GoesTo(t, next),
             stage[t] \in {"run", "finish"} <=> next \in {"run", "finish"},
             claim' \in {claim, [claim EXCEPT ![s] = "none"]}
      PROVE  DrainInv'
  <2>1. /\ stage' = [stage EXCEPT ![t] = next]
        /\ UNCHANGED <<mode, batch, drained, horizon, acked, about, caller>>
    BY <1>1 DEF GoesTo, relay
  <2>2. \A u \in Threads : /\ stage'[u] = "idle" <=> stage[u] = "idle"
                           /\ Holds(u)' <=> Holds(u)
    BY <1>0, <1>1, <2>1 DEF Holds
  <2>3. \A x \in Seqs : claim'[x] # "none" => claim[x] # "none"
    BY <1>0, <1>1
  <2> QED
    BY <1>0, <2>1, <2>2, <2>3, NoRelayMoves
<1>2. ASSUME stage[t] # "idle", Certain(s), AnswersConfirmed(t) \/ AnswersUnacked(t),
             Holds(t) => AnswersConfirmed(t),
             \A x \in Seqs : claim'[x] # "none" => claim[x] # "none"
      PROVE  DrainInv'
  <2>1. PICK p \in Relays :
           /\ Popped(p, s) /\ Served(p)
           /\ Sure(p) => Holds(t)
           /\ AnswersConfirmed(t) => s \in acked'[p]
    BY <1>0, <1>2, AnswerPops
  <2>2. Sure(p) => s \in acked'[p]
    BY <1>2, <2>1
  <2>3. \A x \in Seqs : claim'[x] # "none" => Certain(x)
    BY <1>2 DEF DrainInv, ClaimsAreCertain
  <2> QED
    BY <1>2, <2>1, <2>2, <2>3, PoppedDrains
<1>3. claim[s] # "none" => Certain(s)
  BY DEF DrainInv, ClaimsAreCertain
<1>4. CASE Select(t)
  <2>1. stage[t] = "select" /\ claim' = claim /\ ~ Holds(t)
    BY <1>4 DEF Select, claims, Holds
  <2>2. CASE GoesTo(t, "insert")
    BY <1>1, <2>1, <2>2 DEF Stage
  <2>3. CASE GoesTo(t, "clear")
    BY <1>1, <2>1, <2>3 DEF Stage
  <2>4. CASE claim[s] # "none" /\ (AnswersConfirmed(t) \/ AnswersUnacked(t))
    BY <1>2, <1>3, <2>1, <2>4
  <2> QED
    BY <1>4, <2>2, <2>3, <2>4 DEF Select, Claimed
<1>5. CASE Clear(t)
  BY <1>1, <1>5 DEF Clear, Deleted, Stage
<1>6. CASE Insert(t)
  <2>1. stage[t] = "insert" /\ ~ Holds(t)
    BY <1>6 DEF Insert, Holds
  <2>2. CASE claim[s] = "none"
    BY <1>0, <1>6, <2>1, <2>2, InsertDrains DEF Insert, Claimed
  <2>3. CASE claim[s] # "none"
    <3>1. UNCHANGED claim /\ AnswersUnacked(t)
      BY <1>6, <2>3 DEF Insert, Claimed
    <3> QED
      BY <1>2, <1>3, <2>1, <2>3, <3>1
  <2> QED
    BY <2>2, <2>3
<1>7. CASE Commits(t)
  BY <1>1, <1>7 DEF Commits, claims, Stage
<1>8. CASE Finishes(t)
  <2>1. stage[t] # "idle" /\ Holds(t) /\ AnswersConfirmed(t)
    BY <1>8 DEF Finishes, Holds
  <2>2. Certain(s)
    BY <2>1 DEF Certain
  <2>3. \A x \in Seqs : claim'[x] # "none" => claim[x] # "none"
    BY <1>0, <1>8 DEF Finishes, Claimed
  <2> QED
    BY <1>2, <2>1, <2>2, <2>3
<1> QED
  BY <1>4, <1>5, <1>6, <1>7, <1>8

-----------------------------------------------------------------------------
(* Draining a batch, and ending one.                                        *)

LEMMA RowsAreFinite ==
    ASSUME NEW n \in Nat, NEW rows \in SUBSET (1..n)
    PROVE  IsFiniteSet(rows) /\ Cardinality(rows) \in Nat
<1>1. IsFiniteSet(1..n)
  BY FS_Interval
<1>2. IsFiniteSet(rows)
  BY <1>1, FS_Subset
<1> QED
  BY <1>2, FS_CardinalityType

(* The oldest rows, at most Limit of them; the end of a full batch cannot  *)
(* come before place Limit.                                                 *)
LEMMA OldestRows ==
    ASSUME NEW n \in Nat, NEW rows \in SUBSET (1..n),
           NEW b \in Oldest(rows)
    PROVE  /\ b \subseteq rows
           /\ Cardinality(b) \in 0..Limit
           /\ Cardinality(b) < Limit =>
                 b = rows /\ Cardinality(rows) = Cardinality(b)
           /\ \A y \in rows \ b : Cardinality(b) = Limit /\ b # {}
                                  /\ \A z \in b : z < y
           /\ \A u \in Nat : (\A z \in b : z <= u) => Cardinality(b) <= u
<1>0. IsFiniteSet(rows) /\ Cardinality(rows) \in Nat
  BY RowsAreFinite
<1>1. /\ b \subseteq rows /\ IsFiniteSet(b)
      /\ \A s \in b, t \in rows \ b : s < t
      /\ Cardinality(b) = IF Cardinality(rows) < Limit THEN Cardinality(rows)
                                                       ELSE Limit
  BY <1>0, FS_Subset DEF Oldest
<1>2. Limit \in Nat /\ Limit > 0
  BY RelayAssumption
<1>3. Cardinality(b) = Cardinality(rows) => b = rows
  BY <1>0, <1>1, FS_Subset
<1>4. ASSUME NEW y \in rows \ b
      PROVE  Cardinality(b) = Limit /\ b # {} /\ \A z \in b : z < y
  BY <1>0, <1>1, <1>2, <1>3, FS_EmptySet
<1>5. ASSUME NEW u \in Nat, \A z \in b : z <= u
      PROVE  Cardinality(b) <= u
  <2>1. b \subseteq 1..u
    BY <1>1, <1>5
  <2>2. IsFiniteSet(1..u) /\ Cardinality(1..u) = u
    BY FS_Interval
  <2>3. Cardinality(b) <= Cardinality(1..u)
    BY <2>1, <2>2, FS_Subset
  <2> QED
    BY <2>2, <2>3
<1> QED
  BY <1>0, <1>1, <1>2, <1>3, <1>4, <1>5

LEMMA DrainDrains ==
    ASSUME Calm, DrainInv, Shape, NEW p \in Relays, Drain(p)
    PROVE  DrainInv'
<1>0. PICK b \in Oldest(Undelivered) :
         /\ batch' = [batch EXCEPT ![p] = b]
         /\ drained' = [drained EXCEPT ![p] = Cardinality(b)]
  BY DEF Drain
<1>1. /\ batch \in [Relays -> SUBSET Seqs]
      /\ mode \in [Relays -> {"draining", "posting", "waiting", "exited"}]
      /\ drained \in [Relays -> 0..Limit]
      /\ horizon \in [Relays -> 0..MaxSeq]
      /\ last \in 0..MaxSeq
      /\ mode[p] = "draining"
      /\ mode' = [mode EXCEPT ![p] = "posting"]
      /\ horizon' = [horizon EXCEPT ![p] = last]
      /\ UNCHANGED <<last, delivered, acked, given, stage, about, caller, claim>>
  BY DEF Drain, DrainInv, CalmTypes, Calm, consumer, service, claims
<1>2. Undelivered \subseteq 1..last /\ last \in Nat /\ Limit \in Nat /\ Limit > 0
      /\ MaxSeq \in Nat
  BY <1>1, RelayAssumption DEF Undelivered
<1>3. /\ b \subseteq Undelivered
      /\ Cardinality(b) \in 0..Limit
      /\ Cardinality(b) < Limit =>
            b = Undelivered /\ Cardinality(Undelivered) = Cardinality(b)
      /\ \A y \in Undelivered \ b : Cardinality(b) = Limit /\ b # {}
                                    /\ \A z \in b : z < y
      /\ \A u \in Nat : (\A z \in b : z <= u) => Cardinality(b) <= u
  BY <1>2, OldestRows
<1>4. b \subseteq 1..last /\ b \subseteq Seqs
  BY <1>1, <1>2, <1>3 DEF Seqs
<1>5. CalmTypes'
  BY <1>0, <1>1, <1>3, <1>4 DEF DrainInv, CalmTypes
<1>6. HandsAreHonest'
  BY <1>0, <1>1, <1>4 DEF DrainInv, HandsAreHonest, InPass
<1>7. ThreadsAreWaitedOn' /\ ClaimsAreCertain'
  <2>1. \A t \in Threads : stage[t] # "idle" => caller[t] # p
    BY <1>1 DEF DrainInv, ThreadsAreWaitedOn
  <2>2. \A q \in Relays : q # p => batch'[q] = batch[q] /\ mode'[q] = mode[q]
    BY <1>0, <1>1
  <2> QED
    BY <1>1, <2>1, <2>2 DEF DrainInv, ThreadsAreWaitedOn, ClaimsAreCertain, Certain,
                            Holds, IsNext
<1>8. ShortMeansAll'
  <2> SUFFICES ASSUME NEW q \in Relays, InPass(q)', ~ Full(q)'
               PROVE  Cardinality({y \in 1..horizon'[q] : y \notin delivered}) < Limit
    BY <1>1 DEF ShortMeansAll
  <2>1. CASE q = p
    BY <1>0, <1>1, <1>2, <1>3, <2>1 DEF Full, Undelivered
  <2>2. CASE q # p
    BY <1>0, <1>1, <2>2 DEF DrainInv, ShortMeansAll, InPass, Full
  <2> QED
    BY <2>1, <2>2
<1>9. ASSUME NEW w \in Relays, w # p, InPass(w), NEW x \in Seqs, x <= horizon[w],
             \A z \in b : z <= x, Cardinality(b) = Limit
      PROVE  Full(w)
  <2> SUFFICES ASSUME ~ Full(w) PROVE FALSE
    OBVIOUS
  <2> DEFINE seen == {y \in 1..horizon[w] : y \notin delivered}
  <2>1. Cardinality(seen) < Limit
    BY <1>9 DEF DrainInv, ShortMeansAll
  <2>2. horizon[w] \in Nat
    BY <1>1, <1>2
  <2>3. b \subseteq seen
    BY <1>3, <1>4, <1>9, <2>2 DEF Undelivered, Seqs
  <2>4. IsFiniteSet(seen)
    BY <2>2, RowsAreFinite
  <2>5. Cardinality(b) <= Cardinality(seen) /\ Cardinality(seen) \in Nat
    BY <2>3, <2>4, FS_Subset, FS_CardinalityType
  <2> QED
    BY <1>2, <1>9, <2>1, <2>5
<1>10. EndIsShared'
  <2> SUFFICES ASSUME NEW r \in Relays, NEW w \in Relays, NEW x \in Seqs,
                      NEW s \in Seqs, r # w, InPass(r)', Full(r)', InPass(w)',
                      IsLast(r, x)', x \in batch'[w], s <= horizon'[r],
                      s \notin delivered, x < s
               PROVE  drained'[w] = Limit \/ s \in batch'[w]
    BY <1>1 DEF EndIsShared, Full
  <2>0. horizon[r] <= last
    BY DEF DrainInv, HandsAreHonest
  <2>1. s \in Undelivered
    BY <1>1, <2>0 DEF Undelivered, Seqs
  <2>2. CASE w = p
    BY <1>0, <1>1, <1>3, <2>1, <2>2
  <2>3. CASE r = p
    <3>1. InPass(w) /\ x \in batch[w] /\ drained'[w] = drained[w]
      BY <1>0, <1>1, <2>3 DEF InPass
    <3>2. x <= horizon[w]
      BY <3>1 DEF DrainInv, HandsAreHonest
    <3>3. Cardinality(b) = Limit /\ \A z \in b : z <= x
      BY <1>0, <1>1, <2>3 DEF Full, IsLast
    <3> QED
      BY <1>9, <2>3, <3>1, <3>2, <3>3 DEF Full
  <2>4. CASE r # p /\ w # p
    BY <1>0, <1>1, <2>4 DEF DrainInv, EndIsShared, InPass, Full, IsLast
  <2> QED
    BY <2>2, <2>3, <2>4
<1>11. NoneIsLeft'
  <2> SUFFICES ASSUME NEW q \in Relays, NEW s \in Seqs, s <= horizon'[q],
                      s \notin delivered \cup unroutable, ~ HeldUp(s)
               PROVE  \E r \in Relays : Carries(r, s)'
    BY <1>1 DEF NoneIsLeft, HeldUp, unroutable
  <2>0. horizon[q] <= last
    BY DEF DrainInv, HandsAreHonest
  <2>1. s \in Undelivered
    BY <1>1, <2>0 DEF Undelivered, Seqs
  <2>2. InPass(p)' /\ batch'[p] = b /\ s <= horizon'[p] /\ drained'[p] = Cardinality(b)
    BY <1>0, <1>1, <2>1 DEF InPass, Undelivered
  <2>3. CASE s \in b
    BY <2>2, <2>3 DEF Carries, InHand
  <2>4. CASE s \notin b
    <3>1. Cardinality(b) = Limit /\ b # {} /\ \A z \in b : z < s
      BY <1>3, <2>1, <2>4
    <3>2. ASSUME NEW x \in Seqs, x \in b, \A z \in b : z <= x, x \in unroutable
          PROVE  FALSE
      <4>1. Limit <= x
        BY <1>3, <3>1, <3>2 DEF Seqs
      <4> QED
        BY <3>1, <3>2, <4>1 DEF HeldUp
    <3>3. CASE \E x \in Seqs : x \in b /\ (\A z \in b : z <= x) /\ Certain(x)
      <4>1. PICK x \in Seqs : x \in b /\ (\A z \in b : z <= x) /\ Certain(x)
        BY <3>3
      <4>2. x \notin delivered
        BY <1>3, <4>1 DEF Undelivered
      <4>3. PICK w \in Relays : InHand(w, x) /\ (x \in acked[w] \/ Sure(w))
        BY <4>1, <4>2, CertainIsInHand
      <4>4. w # p /\ InPass(w) /\ x <= horizon[w]
        BY <1>1, <4>3 DEF InHand, InPass, DrainInv, HandsAreHonest
      <4>5. Full(w)
        BY <1>9, <3>1, <4>1, <4>4
      <4>6. Full(w)' /\ InPass(w)' /\ (acked'[w] # {} \/ Sure(w)')
        BY <1>0, <1>1, <4>3, <4>4, <4>5 DEF Full, InPass, Sure, Holds
      <4> QED
        BY <4>6 DEF Carries, GoesOn
    <3>4. CASE \A x \in Seqs : x \in b /\ (\A z \in b : z <= x) => ~ Certain(x)
      <4>1. \A x \in Seqs : Certain(x)' <=> Certain(x)
        BY <1>1 DEF Certain, Holds
      <4>2. \A x \in Seqs : IsLast(p, x)' => x \notin unroutable' /\ ~ Certain(x)'
        BY <1>1, <2>2, <3>2, <3>4, <4>1 DEF IsLast, unroutable
      <4> QED
        BY <2>2, <3>1, <4>2 DEF Carries, MayGoOn, Full
    <3> QED
      BY <3>3, <3>4
  <2> QED
    BY <2>3, <2>4
<1> QED
  BY <1>5, <1>6, <1>7, <1>8, <1>10, <1>11 DEF DrainInv

(* The stop rule: a relay that stops carried nothing.                       *)
LEMMA AckDrains ==
    ASSUME DrainInv, Shape, NEW p \in Relays, Ack(p)
    PROVE  DrainInv'
<1>0. /\ batch \in [Relays -> SUBSET Seqs]
      /\ mode \in [Relays -> {"draining", "posting", "waiting", "exited"}]
      /\ acked \in [Relays -> SUBSET Seqs]
      /\ drained \in [Relays -> 0..Limit]
      /\ horizon \in [Relays -> 0..MaxSeq]
      /\ delivered \subseteq Seqs
      /\ mode[p] = "posting" /\ batch[p] = {}
      /\ batch' = [batch EXCEPT ![p] = {}]
      /\ mode' = [mode EXCEPT ![p] = NextMode(p)]
      /\ acked' = [acked EXCEPT ![p] = {}]
      /\ drained' = [drained EXCEPT ![p] = 0]
      /\ delivered' = delivered \cup acked[p]
      /\ NextMode(p) \in {"draining", "exited"}
      /\ UNCHANGED <<last, horizon, given, stage, about, caller, claim>>
  BY DEF Ack, AckWhat, DrainInv, CalmTypes, Shape, consumer, service, claims, NextMode
<1>1. Limit \in Nat /\ MaxSeq \in Nat
  BY RelayAssumption
<1>2. CalmTypes'
  BY <1>0, <1>1 DEF DrainInv, CalmTypes
<1>3. HandsAreHonest'
  BY <1>0 DEF DrainInv, HandsAreHonest, InPass
<1>4. \A t \in Threads : stage[t] # "idle" => caller[t] # p
  BY <1>0 DEF DrainInv, ThreadsAreWaitedOn
<1>5. \A q \in Relays : q # p => /\ batch'[q] = batch[q] /\ mode'[q] = mode[q]
                                 /\ acked'[q] = acked[q] /\ drained'[q] = drained[q]
  BY <1>0
<1>6. ThreadsAreWaitedOn'
  BY <1>0, <1>4, <1>5 DEF DrainInv, ThreadsAreWaitedOn, IsNext
<1>7. \A x \in Seqs : Certain(x)' <=> Certain(x)
  BY <1>0 DEF Certain, Holds
<1>8. ClaimsAreCertain'
  BY <1>0, <1>7 DEF DrainInv, ClaimsAreCertain
<1>9. ShortMeansAll'
  <2> SUFFICES ASSUME NEW q \in Relays, InPass(q)', ~ Full(q)'
               PROVE  Cardinality({y \in 1..horizon[q] : y \notin delivered'}) < Limit
    BY <1>0 DEF ShortMeansAll
  <2> DEFINE old == {y \in 1..horizon[q] : y \notin delivered}
             new == {y \in 1..horizon[q] : y \notin delivered'}
  <2>1. q # p
    BY <1>0 DEF InPass
  <2>2. Cardinality(old) < Limit
    BY <1>0, <2>1 DEF DrainInv, ShortMeansAll, InPass, Full
  <2>3. new \subseteq old
    BY <1>0
  <2>4. IsFiniteSet(old)
    <3>1. horizon[q] \in Nat /\ old \in SUBSET (1..horizon[q])
      BY <1>0, <1>1
    <3> QED
      BY <3>1, RowsAreFinite
  <2>5. Cardinality(new) <= Cardinality(old) /\ Cardinality(new) \in Nat
        /\ Cardinality(old) \in Nat
    BY <2>3, <2>4, FS_Subset, FS_CardinalityType
  <2> QED
    BY <1>1, <2>2, <2>5
<1>10. EndIsShared'
  <2>1. \A q \in Relays : InPass(q)' => q # p /\ InPass(q)
    BY <1>0 DEF InPass
  <2> QED
    BY <1>0, <2>1 DEF DrainInv, EndIsShared, Full, IsLast
<1>11. NoneIsLeft'
  <2> SUFFICES ASSUME NEW q \in Relays, NEW s \in Seqs, s <= horizon[q],
                      s \notin delivered' \cup unroutable, ~ HeldUp(s)
               PROVE  \E r \in Relays : Carries(r, s)'
    BY <1>0 DEF NoneIsLeft, HeldUp, unroutable
  <2>1. PICK r \in Relays : Carries(r, s)
    BY <1>0 DEF DrainInv, NoneIsLeft
  <2>2. CASE r # p
    <3>1. CASE mode[r] = "draining" \/ InHand(r, s)
      BY <1>5, <2>2, <3>1 DEF Carries, InHand, InPass
    <3>2. CASE GoesOn(r)
      BY <1>0, <1>5, <2>2, <3>2 DEF Carries, GoesOn, InPass, Full, Sure, Holds
    <3>3. CASE MayGoOn(r, s)
      <4>1. \A x \in Seqs : IsLast(r, x)' => x \notin unroutable' /\ ~ Certain(x)'
        BY <1>0, <1>5, <1>7, <2>2, <3>3 DEF MayGoOn, IsLast, unroutable
      <4> QED
        BY <1>0, <1>5, <2>2, <3>3, <4>1 DEF Carries, MayGoOn, InPass, Full
    <3> QED
      BY <2>1, <3>1, <3>2, <3>3 DEF Carries
  <2>3. CASE r = p
    <3>1. ~ Sure(p)
      BY <1>4 DEF Sure, Holds
    <3>2. GoesOn(p)
      BY <1>0, <2>1, <2>3 DEF Carries, InHand, MayGoOn
    <3>3. mode'[p] = "draining"
      BY <1>0, <3>1, <3>2 DEF GoesOn, NextMode, PassGoesOn, Full
    <3> QED
      BY <2>3, <3>3 DEF Carries
  <2> QED
    BY <2>2, <2>3
<1> QED
  BY <1>2, <1>3, <1>6, <1>8, <1>9, <1>10, <1>11 DEF DrainInv

-----------------------------------------------------------------------------

LEMMA InitCalmInv ==
    ASSUME Init PROVE CalmInv
<1>1. CalmTypes /\ HandsAreHonest
  BY RelayAssumption DEF Init, CalmTypes, HandsAreHonest, InPass
<1>2. ThreadsAreWaitedOn /\ ClaimsAreCertain
  BY DEF Init, ThreadsAreWaitedOn, ClaimsAreCertain
<1>3. ShortMeansAll /\ EndIsShared
  BY DEF Init, ShortMeansAll, EndIsShared, InPass
<1>4. NoneIsLeft
  BY DEF Init, NoneIsLeft, Carries
<1> QED
  BY <1>1, <1>2, <1>3, <1>4 DEF Init, CalmInv, DrainInv

(* A fault, once it has happened, has happened.                             *)
LEMMA FaultsStay ==
    ASSUME CalmInv, [Next]_vars
    PROVE  kills' \in Nat /\ failures' \in Nat /\ (Calm' => Calm)
<1>0. kills \in Nat /\ failures \in Nat
  BY DEF CalmInv
<1>1. \/ UNCHANGED <<kills, failures>>
      \/ kills' = kills + 1 /\ UNCHANGED failures
      \/ failures' = failures + 1 /\ UNCHANGED kills
  <2>1. CASE Emit \/ UNCHANGED vars \/ ServiceDies
    BY <2>1 DEF Emit, vars, ServiceDies, Fails
  <2>2. ASSUME NEW p \in Relays, Drain(p) \/ Ack(p) \/ Restart(p)
        PROVE  UNCHANGED <<kills, failures>>
    BY <2>2 DEF Drain, Ack, AckWhat, Restart
  <2>3. ASSUME NEW p \in Relays, ResponseLost(p) \/ RelayKilled(p)
        PROVE  \/ kills' = kills + 1 /\ UNCHANGED failures
               \/ failures' = failures + 1 /\ UNCHANGED kills
    BY <2>3 DEF ResponseLost, RelayKilled, Fails
  <2>4. ASSUME NEW p \in Relays, NEW s \in Seqs,
               Post(p, s) \/ PostUnroutable(p, s) \/ PostUnreachable(p, s)
        PROVE  \/ UNCHANGED <<kills, failures>>
               \/ failures' = failures + 1 /\ UNCHANGED kills
    BY <2>4 DEF Post, PostUnroutable, PostUnreachable, Fails
  <2>5. ASSUME NEW t \in Threads, ThreadStep(t)
        PROVE  \/ UNCHANGED <<kills, failures>>
               \/ failures' = failures + 1 /\ UNCHANGED kills
    BY <2>5 DEF ThreadStep, Select, Clear, Insert, Commits, Finishes, Releases,
                StatementRefused, Fails
  <2>6. ASSUME NEW s \in Seqs, Expires(s)
        PROVE  UNCHANGED <<kills, failures>>
    BY <2>6 DEF Expires
  <2> QED
    BY <2>1, <2>2, <2>3, <2>4, <2>5, <2>6 DEF Next, RelayStep
<1>2. once' = once
  BY DEF Next, vars, Emit, RelayStep, ThreadStep, ServiceDies, Expires, Drain, Ack,
         AckWhat, ResponseLost, RelayKilled, Restart, Post, PostUnroutable,
         PostUnreachable, Select, Clear, Insert, Commits, Finishes, Releases,
         StatementRefused, once
<1> QED
  BY <1>0, <1>1, <1>2 DEF Calm

LEMMA NextCalmInv ==
    ASSUME RelayInv, CalmInv, [Next]_vars PROVE CalmInv'
<1> SUFFICES ASSUME Calm' PROVE DrainInv'
  BY FaultsStay DEF CalmInv
<1>0. Calm /\ DrainInv
  BY FaultsStay DEF CalmInv
<1>1. kills = 0 /\ failures = 0 /\ kills' = 0 /\ failures' = 0
  BY <1>0 DEF Calm
<1>2. Shape /\ last \in 0..MaxSeq /\ MaxSeq \in Nat
  BY <1>0, RelayAssumption DEF RelayInv, DrainInv, CalmTypes
<1>3. CASE Emit
  <2>1. last' \in 0..MaxSeq /\ last <= last'
    BY <1>2, <1>3 DEF Emit
  <2>2. UNCHANGED <<delivered, mode, batch, drained, horizon, acked, stage, about,
                    caller, claim, given>>
    BY <1>3 DEF Emit, relay, consumer, service, claims
  <2> QED
    BY <1>0, <2>1, <2>2, NoRelayMoves DEF Holds
<1>4. ASSUME NEW p \in Relays, RelayStep(p) PROVE DrainInv'
  <2>1. ~ ResponseLost(p) /\ ~ RelayKilled(p)
    BY <1>1 DEF ResponseLost, RelayKilled, Fails
  <2>2. ~ Restart(p)
    BY <1>0 DEF Restart, DrainInv, CalmTypes
  <2>3. \A s \in Seqs : ~ PostUnreachable(p, s)
    BY <1>1 DEF PostUnreachable, Fails
  <2> QED
    BY <1>0, <1>2, <1>4, <2>1, <2>2, <2>3, DrainDrains, AckDrains, PostDrains,
       UnroutableDrains DEF RelayStep
<1>5. ASSUME NEW t \in Threads, ThreadStep(t) PROVE DrainInv'
  <2>1. ~ Releases(t) /\ ~ StatementRefused(t)
    BY <1>1 DEF Releases, StatementRefused, Fails
  <2>2. Select(t) \/ Clear(t) \/ Insert(t) \/ Commits(t) \/ Finishes(t)
    BY <1>5, <2>1 DEF ThreadStep
  <2>3. PICK s \in Seqs : s = about[t]
    BY <1>2, <2>2 DEF Select, Clear, Insert, Commits, Finishes, Shape, ServiceShape
  <2> QED
    BY <1>0, <1>2, <2>2, <2>3, ThreadDrains
<1>6. ASSUME NEW s \in Seqs, Expires(s) PROVE DrainInv'
  <2>1. UNCHANGED <<last, delivered, mode, batch, drained, horizon, acked, stage,
                    about, caller, claim, given>>
    BY <1>6 DEF Expires, relay, service
  <2> QED
    BY <1>0, <1>2, <2>1, NoRelayMoves DEF Holds
<1>7. CASE UNCHANGED vars
  <2>1. UNCHANGED <<last, delivered, mode, batch, drained, horizon, acked, stage,
                    about, caller, claim, given>>
    BY <1>7 DEF vars, relay, consumer, service, claims
  <2> QED
    BY <1>0, <1>2, <2>1, NoRelayMoves DEF Holds
<1>8. ~ ServiceDies
  BY <1>1 DEF ServiceDies, Fails
<1> QED
  BY <1>3, <1>4, <1>5, <1>6, <1>7, <1>8 DEF Next

(* The invariant of a run of `relay --once` that nothing disturbs.          *)
THEOREM CalmInvariant == Spec => []CalmInv
BY InitCalmInv, NextCalmInv, RelayInvariant, PTL DEF Spec

(* `relay --once` exits with the backlog drained (_relay_pass): when all   *)
(* relays have exited and nothing failed, every routable row their last    *)
(* drains could see is delivered, or stands behind an unroutable row that  *)
(* can end a full batch.                                                    *)
THEOREM OnceDrainsBacklog == Spec => []OnceDrains
<1>1. CalmInv => OnceDrains
  <2> SUFFICES ASSUME CalmInv, Calm, \A p \in Relays : mode[p] = "exited",
                      NEW p \in Relays, NEW s \in 1..horizon[p],
                      s \notin delivered \cup unroutable, ~ HeldUp(s)
               PROVE  FALSE
    BY DEF OnceDrains, Calm
  <2>1. DrainInv
    BY DEF CalmInv
  <2>2. s \in Seqs /\ s <= horizon[p]
    BY <2>1, RelayAssumption DEF DrainInv, CalmTypes, Seqs
  <2>3. PICK r \in Relays : Carries(r, s)
    BY <2>1, <2>2 DEF DrainInv, NoneIsLeft
  <2> QED
    BY <2>3 DEF Carries, InHand, GoesOn, MayGoOn, InPass
<1> QED
  BY <1>1, CalmInvariant, PTL
=============================================================================
