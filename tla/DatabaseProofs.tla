--------------------------- MODULE DatabaseProofs ---------------------------
(***************************************************************************)
(* Theorems about MCDatabase: requests with one idempotency key, for any    *)
(* number of them and any time to live of a claim, and the migration and    *)
(* the backup beside a live server.                                        *)
(***************************************************************************)
EXTENDS MCDatabase, FiniteSetTheorems, TLAPS

-----------------------------------------------------------------------------
(* Where a request is and what its run came to.                             *)

Before == {"new", "select", "clear", "insert", "run"}
Undecided == {"none", "transient", "refused"}

Shape ==
    /\ reqPc \in [Requests -> Claims!Labels]
    /\ tx \in [Requests -> {"none", "open", "orphaned"}]
    /\ outcome \in [Requests -> Claims!Definite \cup Undecided]
    /\ DOMAIN answer = Requests
    /\ applied \subseteq Requests

(* A run's writes are in the store because it completed, or because its    *)
(* COMMIT was refused and something later committed them.                   *)
OutcomeOf(r) ==
    /\ r \in applied => outcome[r] \in {"completed", "refused"}
    /\ outcome[r] = "completed" => r \in applied
    /\ reqPc[r] \in Before => outcome[r] = "none" /\ tx[r] = "none"
    /\ reqPc[r] = "finish" => outcome[r] \in Claims!Definite /\ tx[r] = "none"
    /\ reqPc[r] = "rollback" => outcome[r] \in {"none", "refused"}
    /\ reqPc[r] = "release" => outcome[r] \in Undecided /\ tx[r] # "open"
    /\ tx[r] = "orphaned" => outcome[r] = "refused"

(* The row records what the run it names came to, once it is over.          *)
ClaimRow == [owner : Requests, at : Nat, status : {"in-progress"} \cup Claims!Definite,
        result : Requests]

RowIsTrue ==
    claim # NoClaim =>
      /\ claim \in ClaimRow
      /\ claim.status \in Claims!Definite => outcome[claim.result] = claim.status

(* And so does an answer, which is the last thing of its request.           *)
AnswerIsTrue(r) ==
    answer[r] # NoAnswer =>
      /\ reqPc[r] = "done"
      /\ answer[r][1] \in Claims!Definite =>
           answer[r][2] \in Requests /\ outcome[answer[r][2]] = answer[r][1]
      /\ answer[r][1] \in {"retry", "kept"} =>
           answer[r][2] = r /\ outcome[r] \in Undecided

Clocks == now \in Nat /\ stamp \in [Requests -> Nat] /\ since \in [Requests -> Nat]

RunInv == /\ Shape /\ Clocks /\ RowIsTrue
          /\ \A r \in Requests : OutcomeOf(r) /\ AnswerIsTrue(r)

-----------------------------------------------------------------------------
(* A step of r leaves the others' runs alone and takes back no definite     *)
(* outcome of its own.                                                      *)
Alone(r) ==
    /\ reqPc[r] # "done"
    /\ outcome[r] \in Claims!Definite => outcome'[r] = outcome[r]
    /\ \A q \in Requests \ {r} :
         /\ reqPc'[q] = reqPc[q] /\ tx'[q] = tx[q] /\ outcome'[q] = outcome[q]
         /\ answer'[q] = answer[q] /\ (q \in applied' <=> q \in applied)

LEMMA StepKeeps ==
    ASSUME RunInv, NEW r \in Requests, Alone(r), Shape', Clocks', RowIsTrue',
           OutcomeOf(r)', AnswerIsTrue(r)'
    PROVE  RunInv'
<1>1. ASSUME NEW q \in Requests \ {r} PROVE OutcomeOf(q)'
  BY <1>1 DEF RunInv, OutcomeOf, Alone
<1>2. ASSUME NEW q \in Requests \ {r} PROVE AnswerIsTrue(q)'
  <2>1. AnswerIsTrue(q)
    BY DEF RunInv
  <2>2. \A b \in Requests : outcome[b] \in Claims!Definite => outcome'[b] = outcome[b]
    BY DEF Alone
  <2>3. reqPc'[q] = reqPc[q] /\ outcome'[q] = outcome[q] /\ answer'[q] = answer[q]
    BY <1>2 DEF Alone
  <2> QED
    BY <2>1, <2>2, <2>3 DEF AnswerIsTrue
<1> QED
  BY <1>1, <1>2 DEF RunInv

(* Time is a natural number; a request reads it when it arrives and when   *)
(* its claim is in.                                                         *)
LEMMA ClocksKeep ==
    ASSUME Clocks, NEW r \in Requests, Claims!Step(r) PROVE Clocks'
BY DEF Clocks, Claims!Step, Claims!Arrive, Claims!Select, Claims!Clear, Claims!Insert,
   Claims!BeginRefused,
       Claims!PreconditionFails, Claims!RunCompletes, Claims!RunFails, Claims!RunEscapes,
       Claims!Finish,
       Claims!FinishRefused, Claims!RollsBack, Claims!RollbackFails, Claims!Release,
       Claims!ReleaseRefused, Claims!Crash,
       Claims!Refused

(* The row keeps its truth when it stays as it is, or goes.                 *)
LEMMA RowKeeps ==
    ASSUME RunInv, NEW r \in Requests, Alone(r), claim' \in {claim, NoClaim}
    PROVE  RowIsTrue'
<1>1. \A b \in Requests : outcome[b] \in Claims!Definite => outcome'[b] = outcome[b]
  BY DEF Alone
<1>2. CASE claim' = claim /\ claim # NoClaim
  BY <1>1, <1>2 DEF RunInv, RowIsTrue, ClaimRow
<1>3. CASE claim' = NoClaim
  BY <1>3 DEF RowIsTrue
<1> QED
  BY <1>2, <1>3

-----------------------------------------------------------------------------
(* The steps that leave the row or delete it.                               *)

LEMMA PlainStepKeeps ==
    ASSUME RunInv, NEW r \in Requests,
           \/ Claims!Arrive(r) \/ Claims!Clear(r) \/ Claims!BeginRefused(r) \/ Claims!PreconditionFails(r)
           \/ Claims!RunCompletes(r) \/ Claims!RunFails(r) \/ Claims!FinishRefused(r) \/ Claims!RollsBack(r)
           \/ Claims!RollbackFails(r) \/ Claims!ReleaseRefused(r) \/ Claims!Release(r) \/ Claims!Crash(r)
    PROVE  RunInv'
<1>0. Shape /\ OutcomeOf(r) /\ AnswerIsTrue(r)
  BY DEF RunInv
<1>a. Clocks'
  BY ClocksKeep DEF RunInv, Claims!Step
<1>1. CASE Claims!Arrive(r)
  <2>1. /\ reqPc[r] = "new" /\ reqPc' = [reqPc EXCEPT ![r] = "select"]
        /\ UNCHANGED <<claim, tx, outcome, applied, answer>>
    BY <1>1 DEF Claims!Arrive, Claims!GoTo
  <2>2. Shape'
    BY <1>0, <2>1 DEF Shape, Claims!Labels, Claims!Definite, Undecided
  <2>3. Alone(r)
    BY <1>0, <2>1 DEF Shape, Alone, OutcomeOf, Before, Claims!Definite, Undecided
  <2>4. OutcomeOf(r)'
    BY <1>0, <2>1 DEF Shape, OutcomeOf, Before, Claims!Definite, Undecided
  <2>5. AnswerIsTrue(r)'
    BY <1>0, <2>1 DEF Shape, AnswerIsTrue, OutcomeOf, Before, Claims!Definite, Undecided
  <2> QED
    BY <2>1, <2>2, <2>3, <2>4, <2>5, <1>a, RowKeeps, StepKeeps
<1>2. CASE Claims!Clear(r)
  <2>1. /\ reqPc[r] = "clear" /\ reqPc' = [reqPc EXCEPT ![r] = "insert"]
        /\ claim' = NoClaim
        /\ UNCHANGED <<tx, outcome, applied, answer>>
    BY <1>2 DEF Claims!Clear, Claims!GoTo, Claims!Deleted
  <2>2. Shape'
    BY <1>0, <2>1 DEF Shape, Claims!Labels, Claims!Definite, Undecided
  <2>3. Alone(r)
    BY <1>0, <2>1 DEF Shape, Alone, OutcomeOf, Before, Claims!Definite, Undecided
  <2>4. OutcomeOf(r)'
    BY <1>0, <2>1 DEF Shape, OutcomeOf, Before, Claims!Definite, Undecided
  <2>5. AnswerIsTrue(r)'
    BY <1>0, <2>1 DEF Shape, AnswerIsTrue, OutcomeOf, Before, Claims!Definite, Undecided
  <2> QED
    BY <2>1, <2>2, <2>3, <2>4, <2>5, <1>a, RowKeeps, StepKeeps
<1>3. CASE Claims!BeginRefused(r)
  <2>1. /\ reqPc[r] \in {"clear", "insert"} /\ reqPc' = [reqPc EXCEPT ![r] = "done"]
        /\ answer' = [answer EXCEPT ![r] = <<"error", r>>]
        /\ tx' = [tx EXCEPT ![r] = "none"]
        /\ UNCHANGED <<claim, outcome, applied>>
    BY <1>3 DEF Claims!BeginRefused, Claims!Answer, Claims!Refused
  <2>2. Shape'
    BY <1>0, <2>1 DEF Shape, Claims!Labels, Claims!Definite, Undecided
  <2>3. Alone(r)
    BY <1>0, <2>1 DEF Shape, Alone, OutcomeOf, Before, Claims!Definite, Undecided
  <2>4. OutcomeOf(r)'
    BY <1>0, <2>1 DEF Shape, OutcomeOf, Before, Claims!Definite, Undecided
  <2>5. AnswerIsTrue(r)'
    BY <1>0, <2>1 DEF Shape, AnswerIsTrue, OutcomeOf, Before, Claims!Definite, Undecided
  <2> QED
    BY <2>1, <2>2, <2>3, <2>4, <2>5, <1>a, RowKeeps, StepKeeps
<1>4. CASE Claims!PreconditionFails(r)
  <2>1. /\ reqPc[r] = "run" /\ reqPc' = [reqPc EXCEPT ![r] = "finish"]
        /\ outcome' = [outcome EXCEPT ![r] = "failed"]
        /\ UNCHANGED <<claim, tx, applied, answer>>
    BY <1>4 DEF Claims!PreconditionFails, Claims!GoTo
  <2>2. Shape'
    BY <1>0, <2>1 DEF Shape, Claims!Labels, Claims!Definite, Undecided
  <2>3. Alone(r)
    BY <1>0, <2>1 DEF Shape, Alone, OutcomeOf, Before, Claims!Definite, Undecided
  <2>4. OutcomeOf(r)'
    BY <1>0, <2>1 DEF Shape, OutcomeOf, Before, Claims!Definite, Undecided
  <2>5. AnswerIsTrue(r)'
    BY <1>0, <2>1 DEF Shape, AnswerIsTrue, OutcomeOf, Before, Claims!Definite, Undecided
  <2> QED
    BY <2>1, <2>2, <2>3, <2>4, <2>5, <1>a, RowKeeps, StepKeeps
<1>5. CASE Claims!RunCompletes(r)
  <2>1. /\ reqPc[r] = "run" /\ reqPc' = [reqPc EXCEPT ![r] = "finish"]
        /\ outcome' = [outcome EXCEPT ![r] = "completed"]
        /\ applied' = applied \cup {r}
        /\ UNCHANGED <<claim, tx, answer>>
    BY <1>5 DEF Claims!RunCompletes, Claims!GoTo
  <2>2. Shape'
    BY <1>0, <2>1 DEF Shape, Claims!Labels, Claims!Definite, Undecided
  <2>3. Alone(r)
    BY <1>0, <2>1 DEF Shape, Alone, OutcomeOf, Before, Claims!Definite, Undecided
  <2>4. OutcomeOf(r)'
    BY <1>0, <2>1 DEF Shape, OutcomeOf, Before, Claims!Definite, Undecided
  <2>5. AnswerIsTrue(r)'
    BY <1>0, <2>1 DEF Shape, AnswerIsTrue, OutcomeOf, Before, Claims!Definite, Undecided
  <2> QED
    BY <2>1, <2>2, <2>3, <2>4, <2>5, <1>a, RowKeeps, StepKeeps
<1>6. CASE Claims!RunFails(r)
  <2>1. /\ reqPc[r] = "run"
        /\ \/ /\ reqPc' = [reqPc EXCEPT ![r] = "finish"]
              /\ outcome' = [outcome EXCEPT ![r] = "failed"]
           \/ /\ reqPc' = [reqPc EXCEPT ![r] = "release"]
              /\ outcome' = [outcome EXCEPT ![r] = "transient"]
        /\ UNCHANGED <<claim, tx, applied, answer>>
    BY <1>6 DEF Claims!RunFails, Claims!GoTo
  <2>2. Shape'
    BY <1>0, <2>1 DEF Shape, Claims!Labels, Claims!Definite, Undecided
  <2>3. Alone(r)
    BY <1>0, <2>1 DEF Shape, Alone, OutcomeOf, Before, Claims!Definite, Undecided
  <2>4. OutcomeOf(r)'
    BY <1>0, <2>1 DEF Shape, OutcomeOf, Before, Claims!Definite, Undecided
  <2>5. AnswerIsTrue(r)'
    BY <1>0, <2>1 DEF Shape, AnswerIsTrue, OutcomeOf, Before, Claims!Definite, Undecided
  <2> QED
    BY <2>1, <2>2, <2>3, <2>4, <2>5, <1>a, RowKeeps, StepKeeps
<1>7. CASE Claims!FinishRefused(r)
  <2>1. /\ reqPc[r] = "finish" /\ reqPc' = [reqPc EXCEPT ![r] = "done"]
        /\ answer' = [answer EXCEPT ![r] = <<"error", r>>]
        /\ tx' = [tx EXCEPT ![r] = "none"]
        /\ UNCHANGED <<claim, outcome, applied>>
    BY <1>7 DEF Claims!FinishRefused, Claims!Answer, Claims!Refused
  <2>2. Shape'
    BY <1>0, <2>1 DEF Shape, Claims!Labels, Claims!Definite, Undecided
  <2>3. Alone(r)
    BY <1>0, <2>1 DEF Shape, Alone, OutcomeOf, Before, Claims!Definite, Undecided
  <2>4. OutcomeOf(r)'
    BY <1>0, <2>1 DEF Shape, OutcomeOf, Before, Claims!Definite, Undecided
  <2>5. AnswerIsTrue(r)'
    BY <1>0, <2>1 DEF Shape, AnswerIsTrue, OutcomeOf, Before, Claims!Definite, Undecided
  <2> QED
    BY <2>1, <2>2, <2>3, <2>4, <2>5, <1>a, RowKeeps, StepKeeps
<1>8. CASE Claims!RollsBack(r)
  <2>1. /\ reqPc[r] = "rollback" /\ reqPc' = [reqPc EXCEPT ![r] = "release"]
        /\ tx' = [tx EXCEPT ![r] = IF tx[r] = "open" THEN "none" ELSE tx[r]]
        /\ UNCHANGED <<claim, outcome, applied, answer>>
    BY <1>8 DEF Claims!RollsBack, Claims!GoTo
  <2>2. Shape'
    BY <1>0, <2>1 DEF Shape, Claims!Labels, Claims!Definite, Undecided
  <2>3. Alone(r)
    BY <1>0, <2>1 DEF Shape, Alone, OutcomeOf, Before, Claims!Definite, Undecided
  <2>4. OutcomeOf(r)'
    BY <1>0, <2>1 DEF Shape, OutcomeOf, Before, Claims!Definite, Undecided
  <2>5. AnswerIsTrue(r)'
    BY <1>0, <2>1 DEF Shape, AnswerIsTrue, OutcomeOf, Before, Claims!Definite, Undecided
  <2> QED
    BY <2>1, <2>2, <2>3, <2>4, <2>5, <1>a, RowKeeps, StepKeeps
<1>9. CASE Claims!RollbackFails(r)
  <2>1. /\ reqPc[r] = "rollback" /\ reqPc' = [reqPc EXCEPT ![r] = "done"]
        /\ answer' = [answer EXCEPT ![r] = <<"kept", r>>]
        /\ tx' = [tx EXCEPT ![r] = "none"]
        /\ UNCHANGED <<claim, outcome, applied>>
    BY <1>9 DEF Claims!RollbackFails, Claims!Answer, Claims!Refused
  <2>2. Shape'
    BY <1>0, <2>1 DEF Shape, Claims!Labels, Claims!Definite, Undecided
  <2>3. Alone(r)
    BY <1>0, <2>1 DEF Shape, Alone, OutcomeOf, Before, Claims!Definite, Undecided
  <2>4. OutcomeOf(r)'
    BY <1>0, <2>1 DEF Shape, OutcomeOf, Before, Claims!Definite, Undecided
  <2>5. AnswerIsTrue(r)'
    BY <1>0, <2>1 DEF Shape, AnswerIsTrue, OutcomeOf, Before, Claims!Definite, Undecided
  <2> QED
    BY <2>1, <2>2, <2>3, <2>4, <2>5, <1>a, RowKeeps, StepKeeps
<1>10. CASE Claims!ReleaseRefused(r)
  <2>1. /\ reqPc[r] = "release" /\ reqPc' = [reqPc EXCEPT ![r] = "done"]
        /\ answer' = [answer EXCEPT ![r] = <<"kept", r>>]
        /\ tx' = [tx EXCEPT ![r] = "none"]
        /\ UNCHANGED <<claim, outcome, applied>>
    BY <1>10 DEF Claims!ReleaseRefused, Claims!Answer, Claims!Refused
  <2>2. Shape'
    BY <1>0, <2>1 DEF Shape, Claims!Labels, Claims!Definite, Undecided
  <2>3. Alone(r)
    BY <1>0, <2>1 DEF Shape, Alone, OutcomeOf, Before, Claims!Definite, Undecided
  <2>4. OutcomeOf(r)'
    BY <1>0, <2>1 DEF Shape, OutcomeOf, Before, Claims!Definite, Undecided
  <2>5. AnswerIsTrue(r)'
    BY <1>0, <2>1 DEF Shape, AnswerIsTrue, OutcomeOf, Before, Claims!Definite, Undecided
  <2> QED
    BY <2>1, <2>2, <2>3, <2>4, <2>5, <1>a, RowKeeps, StepKeeps
<1>11. CASE Claims!Release(r)
  <2>1. /\ reqPc[r] = "release" /\ reqPc' = [reqPc EXCEPT ![r] = "done"]
        /\ answer' = [answer EXCEPT ![r] = <<"retry", r>>]
        /\ tx' = [tx EXCEPT ![r] = "none"]
        /\ claim' = NoClaim
        /\ applied' = IF tx[r] = "none" THEN applied ELSE applied \cup {r}
        /\ UNCHANGED outcome
    BY <1>11 DEF Claims!Release, Claims!Answer, Claims!Deleted
  <2>2. Shape'
    BY <1>0, <2>1 DEF Shape, Claims!Labels, Claims!Definite, Undecided
  <2>3. Alone(r)
    BY <1>0, <2>1 DEF Shape, Alone, OutcomeOf, Before, Claims!Definite, Undecided
  <2>4. OutcomeOf(r)'
    BY <1>0, <2>1 DEF Shape, OutcomeOf, Before, Claims!Definite, Undecided
  <2>5. AnswerIsTrue(r)'
    BY <1>0, <2>1 DEF Shape, AnswerIsTrue, OutcomeOf, Before, Claims!Definite, Undecided
  <2> QED
    BY <2>1, <2>2, <2>3, <2>4, <2>5, <1>a, RowKeeps, StepKeeps
<1>12. CASE Claims!Crash(r)
  <2>1. /\ reqPc[r] \notin {"new", "done", "crashed"}
        /\ reqPc' = [reqPc EXCEPT ![r] = "crashed"]
        /\ tx' = [tx EXCEPT ![r] = "none"]
        /\ UNCHANGED <<claim, outcome, applied, answer>>
    BY <1>12 DEF Claims!Crash, Claims!GoTo
  <2>2. Shape'
    BY <1>0, <2>1 DEF Shape, Claims!Labels, Claims!Definite, Undecided
  <2>3. Alone(r)
    BY <1>0, <2>1 DEF Shape, Alone, OutcomeOf, Before, Claims!Definite, Undecided
  <2>4. OutcomeOf(r)'
    BY <1>0, <2>1 DEF Shape, OutcomeOf, Before, Claims!Definite, Undecided
  <2>5. AnswerIsTrue(r)'
    BY <1>0, <2>1 DEF Shape, AnswerIsTrue, OutcomeOf, Before, Claims!Definite, Undecided
  <2> QED
    BY <2>1, <2>2, <2>3, <2>4, <2>5, <1>a, RowKeeps, StepKeeps
<1> QED
  BY <1>1, <1>2, <1>3, <1>4, <1>5, <1>6, <1>7, <1>8, <1>9, <1>10, <1>11, <1>12

-----------------------------------------------------------------------------
(* The steps that read the row or write it.                                 *)

LEMMA SelectKeeps ==
    ASSUME RunInv, NEW r \in Requests, Claims!Select(r)
    PROVE  RunInv'
<1>0. Shape /\ OutcomeOf(r) /\ RowIsTrue
  BY DEF RunInv
<1>1. /\ reqPc[r] = "select"
      /\ UNCHANGED <<claim, outcome, applied>>
  BY DEF Claims!Select
<1>2. \/ /\ \/ reqPc' = [reqPc EXCEPT ![r] = "insert"]
            \/ reqPc' = [reqPc EXCEPT ![r] = "clear"]
         /\ UNCHANGED <<tx, answer>>
      \/ /\ reqPc' = [reqPc EXCEPT ![r] = "done"]
         /\ tx' = [tx EXCEPT ![r] = "none"]
         /\ \/ answer' = [answer EXCEPT ![r] = <<"busy", r>>]
            \/ /\ claim # NoClaim /\ claim.status # "in-progress"
               /\ answer' = [answer EXCEPT ![r] = <<claim.status, claim.result>>]
  BY DEF Claims!Select, Claims!GoTo, Claims!Answer
<1>3. Shape'
  BY <1>0, <1>1, <1>2 DEF Shape, Claims!Labels, Claims!Definite, Undecided
<1>4. Alone(r)
  BY <1>0, <1>1, <1>2 DEF Shape, Alone
<1>5. OutcomeOf(r)'
  BY <1>0, <1>1, <1>2 DEF Shape, OutcomeOf, Before
<1>6. AnswerIsTrue(r)'
  <2>1. CASE UNCHANGED answer
    BY <1>1, <2>1 DEF RunInv, AnswerIsTrue
  <2>2. CASE /\ reqPc' = [reqPc EXCEPT ![r] = "done"]
             /\ answer' = [answer EXCEPT ![r] = <<"busy", r>>]
    BY <1>0, <2>2 DEF Shape, AnswerIsTrue, Claims!Definite
  <2>3. CASE /\ reqPc' = [reqPc EXCEPT ![r] = "done"]
             /\ claim # NoClaim /\ claim.status # "in-progress"
             /\ answer' = [answer EXCEPT ![r] = <<claim.status, claim.result>>]
    <3>1. /\ claim.status \in Claims!Definite /\ claim.result \in Requests
          /\ outcome[claim.result] = claim.status
      BY <1>0, <2>3 DEF RowIsTrue, ClaimRow
    <3>2. answer'[r] = <<claim.status, claim.result>> /\ reqPc'[r] = "done"
      BY <1>0, <2>3 DEF Shape
    <3> QED
      BY <1>1, <3>1, <3>2 DEF AnswerIsTrue, Claims!Definite
  <2> QED
    BY <1>2, <2>1, <2>2, <2>3
<1>7. Clocks'
  BY ClocksKeep DEF RunInv, Claims!Step
<1> QED
  BY <1>1, <1>3, <1>4, <1>5, <1>6, <1>7, RowKeeps, StepKeeps

LEMMA InsertKeeps ==
    ASSUME RunInv, NEW r \in Requests, Claims!Insert(r)
    PROVE  RunInv'
<1>0. Shape /\ OutcomeOf(r) /\ RowIsTrue
  BY DEF RunInv
<1>1. reqPc[r] = "insert" /\ UNCHANGED <<outcome, applied>>
  BY DEF Claims!Insert
<1>2. \/ /\ reqPc' = [reqPc EXCEPT ![r] = "run"]
         /\ claim' = [owner |-> r, at |-> stamp[r], status |-> "in-progress",
                      result |-> r]
         /\ UNCHANGED <<tx, answer>>
      \/ /\ reqPc' = [reqPc EXCEPT ![r] = "done"]
         /\ tx' = [tx EXCEPT ![r] = "none"]
         /\ answer' = [answer EXCEPT ![r] = <<"busy", r>>]
         /\ UNCHANGED claim
  BY DEF Claims!Insert, Claims!GoTo, Claims!Answer
<1>3. Shape'
  BY <1>0, <1>1, <1>2 DEF Shape, Claims!Labels, Claims!Definite, Undecided
<1>4. Alone(r)
  BY <1>0, <1>1, <1>2 DEF Shape, Alone
<1>5. OutcomeOf(r)'
  BY <1>0, <1>1, <1>2 DEF Shape, OutcomeOf, Before
<1>6. AnswerIsTrue(r)'
  BY <1>0, <1>1, <1>2 DEF Shape, AnswerIsTrue, RunInv, Claims!Definite
<1>7. RowIsTrue'
  BY <1>0, <1>1, <1>2 DEF RowIsTrue, ClaimRow, Claims!Definite, RunInv, Clocks
<1>8. Clocks'
  BY ClocksKeep DEF RunInv, Claims!Step
<1> QED
  BY <1>3, <1>4, <1>5, <1>6, <1>7, <1>8, StepKeeps

LEMMA RunEscapesKeeps ==
    ASSUME RunInv, NEW r \in Requests, Claims!RunEscapes(r)
    PROVE  RunInv'
<1>0. Shape /\ OutcomeOf(r) /\ AnswerIsTrue(r)
  BY DEF RunInv
<1>1. reqPc[r] = "run" /\ UNCHANGED <<claim, applied>>
  BY DEF Claims!RunEscapes
<1>2. \/ /\ reqPc' = [reqPc EXCEPT ![r] = "rollback"]
         /\ \/ UNCHANGED <<tx, outcome>>
            \/ tx' = [tx EXCEPT ![r] = "open"] /\ UNCHANGED outcome
            \/ /\ tx' = [tx EXCEPT ![r] = "orphaned"]
               /\ outcome' = [outcome EXCEPT ![r] = "refused"]
         /\ UNCHANGED answer
      \/ /\ reqPc' = [reqPc EXCEPT ![r] = "done"]
         /\ tx' = [tx EXCEPT ![r] = "none"]
         /\ answer' = [answer EXCEPT ![r] = <<"error", r>>]
         /\ UNCHANGED outcome
  BY DEF Claims!RunEscapes, Claims!GoTo, Claims!Answer
<1>3. Shape'
  BY <1>0, <1>1, <1>2 DEF Shape, Claims!Labels, Claims!Definite, Undecided
<1>4. Alone(r)
  BY <1>0, <1>1, <1>2 DEF Shape, Alone, OutcomeOf, Before, Claims!Definite
<1>5. OutcomeOf(r)'
  BY <1>0, <1>1, <1>2 DEF Shape, OutcomeOf, Before
<1>6. AnswerIsTrue(r)'
  BY <1>0, <1>1, <1>2 DEF Shape, AnswerIsTrue, Claims!Definite
<1>7. Clocks'
  BY ClocksKeep DEF RunInv, Claims!Step
<1> QED
  BY <1>1, <1>3, <1>4, <1>5, <1>6, <1>7, RowKeeps, StepKeeps

LEMMA ClaimFinishKeeps ==
    ASSUME RunInv, NEW r \in Requests, Claims!Finish(r)
    PROVE  RunInv'
<1>0. Shape /\ OutcomeOf(r) /\ RowIsTrue
  BY DEF RunInv
<1>1. /\ reqPc[r] = "finish" /\ reqPc' = [reqPc EXCEPT ![r] = "done"]
      /\ tx' = [tx EXCEPT ![r] = "none"]
      /\ answer' = [answer EXCEPT ![r] = <<outcome[r], r>>]
      /\ claim' = IF claim = NoClaim THEN NoClaim
                  ELSE [claim EXCEPT !.status = outcome[r], !.result = r]
      /\ UNCHANGED <<outcome, applied>>
  BY DEF Claims!Finish, Claims!Answer
<1>2. outcome[r] \in Claims!Definite
  BY <1>0, <1>1 DEF OutcomeOf
<1>3. Shape'
  BY <1>0, <1>1 DEF Shape, Claims!Labels
<1>4. Alone(r)
  BY <1>0, <1>1 DEF Shape, Alone
<1>5. OutcomeOf(r)'
  BY <1>0, <1>1 DEF Shape, OutcomeOf, Before
<1>6. AnswerIsTrue(r)'
  BY <1>0, <1>1, <1>2 DEF Shape, AnswerIsTrue, Claims!Definite
<1>7. RowIsTrue'
  BY <1>0, <1>1, <1>2 DEF RowIsTrue, ClaimRow
<1>8. Clocks'
  BY ClocksKeep DEF RunInv, Claims!Step
<1> QED
  BY <1>3, <1>4, <1>5, <1>6, <1>7, <1>8, StepKeeps

-----------------------------------------------------------------------------

LEMMA InitRunInv ==
    ASSUME Claims!Init PROVE RunInv
BY DEF Claims!Init, RunInv, Shape, Clocks, RowIsTrue, OutcomeOf, AnswerIsTrue, Claims!Labels,
       Before, Undecided, Claims!Definite

LEMMA NextRunInv ==
    ASSUME RunInv, [Claims!Next]_Claims!vars PROVE RunInv'
<1>1. ASSUME NEW r \in Requests, Claims!Step(r) PROVE RunInv'
  BY <1>1, PlainStepKeeps, SelectKeeps, InsertKeeps, RunEscapesKeeps, ClaimFinishKeeps
     DEF Claims!Step
<1>2. CASE Claims!Tick
  BY <1>2 DEF Claims!Tick, RunInv, Shape, Clocks, RowIsTrue, OutcomeOf, AnswerIsTrue
<1>3. CASE UNCHANGED Claims!vars
  BY <1>3 DEF Claims!vars, RunInv, Shape, Clocks, RowIsTrue, OutcomeOf, AnswerIsTrue
<1> QED
  BY <1>1, <1>2, <1>3 DEF Claims!Next, Claims!AllAnswered

LEMMA RunInvariant == Claims!Spec => []RunInv
BY InitRunInv, NextRunInv, PTL DEF Claims!Spec

(* What a client is told is what happened (_respond, _respond_event_consume, *)
(* idempotency_begin): an answer, the run's own or a replayed one, agrees    *)
(* with the store, for any number of requests of one key.                    *)
LEMMA AnswersAreTruthful == Claims!Spec => []Claims!TruthfulAnswers
<1>1. RunInv => Claims!TruthfulAnswers
  <2> SUFFICES ASSUME RunInv, NEW r \in Requests, answer[r] # NoAnswer
               PROVE  /\ answer[r][1] = "completed" => answer[r][2] \in applied
                      /\ answer[r][1] \in {"failed", "retry", "kept"}
                         /\ outcome[answer[r][2]] # "refused"
                         => answer[r][2] \notin applied
    BY DEF Claims!TruthfulAnswers
  <2>1. AnswerIsTrue(r) /\ \A q \in Requests : OutcomeOf(q)
    BY DEF RunInv
  <2>2. CASE answer[r][1] \in Claims!Definite
    BY <2>1, <2>2 DEF AnswerIsTrue, OutcomeOf, Claims!Definite
  <2>3. CASE answer[r][1] \in {"retry", "kept"}
    BY <2>1, <2>3 DEF AnswerIsTrue, OutcomeOf, Undecided
  <2> QED
    BY <2>2, <2>3 DEF Claims!Definite
<1> QED
  BY <1>1, RunInvariant, PTL

-----------------------------------------------------------------------------
(* A key is blocked only while its owner is at work or unaccounted for.     *)

AtWork == {"run", "finish", "rollback", "release", "crashed"}

(* The owner of a claim in progress is at work, or has been answered that   *)
(* its fate is unknown.                                                      *)
OwnerIsKnown ==
    claim # NoClaim /\ claim.status = "in-progress" =>
      \/ reqPc[claim.owner] \in AtWork
      \/ reqPc[claim.owner] = "done" /\ answer[claim.owner][1] \in {"error", "kept"}

LEMMA OwnerKeeps ==
    ASSUME RunInv, OwnerIsKnown, NEW r \in Requests, Claims!Step(r)
    PROVE  OwnerIsKnown'
<1>0. /\ Shape /\ RowIsTrue /\ RowIsTrue' /\ OutcomeOf(r)
      /\ claim # NoClaim => claim.owner \in Requests
  BY NextRunInv DEF RunInv, Claims!Next, RowIsTrue, ClaimRow
<1> SUFFICES ASSUME claim' # NoClaim, claim'.status = "in-progress"
             PROVE  \/ reqPc'[claim'.owner] \in AtWork
                    \/ /\ reqPc'[claim'.owner] = "done"
                       /\ answer'[claim'.owner][1] \in {"error", "kept"}
  BY DEF OwnerIsKnown
<1>1. CASE Claims!Insert(r) /\ claim = NoClaim
  <2>1. claim'.owner = r /\ reqPc' = [reqPc EXCEPT ![r] = "run"]
    BY <1>1 DEF Claims!Insert, Claims!GoTo
  <2> QED
    BY <1>0, <2>1 DEF Shape, AtWork
<1>2. CASE Claims!Finish(r)
  <2>1. claim # NoClaim /\ claim'.status = outcome[r]
    BY <1>0, <1>2 DEF Claims!Finish, RowIsTrue, ClaimRow
  <2>2. outcome[r] \in Claims!Definite
    BY <1>0, <1>2 DEF Claims!Finish, OutcomeOf
  <2> QED
    BY <2>1, <2>2 DEF Claims!Definite
<1>3. CASE Claims!Clear(r) \/ Claims!Release(r)
  BY <1>3 DEF Claims!Clear, Claims!Release, Claims!Deleted
<1>4. CASE ~ (Claims!Insert(r) /\ claim = NoClaim) /\ ~ Claims!Finish(r)
           /\ ~ (Claims!Clear(r) \/ Claims!Release(r))
  <2>1. UNCHANGED claim
    BY <1>4 DEF Claims!Step, Claims!Arrive, Claims!Select, Claims!Insert, Claims!BeginRefused,
       Claims!PreconditionFails,
                Claims!RunCompletes, Claims!RunFails, Claims!RunEscapes, Claims!FinishRefused,
                Claims!RollsBack,
                Claims!RollbackFails, Claims!ReleaseRefused, Claims!Crash, Claims!Refused
  <2>2. \/ reqPc[claim.owner] \in AtWork
        \/ reqPc[claim.owner] = "done" /\ answer[claim.owner][1] \in {"error", "kept"}
    BY <2>1 DEF OwnerIsKnown
  <2>3. CASE claim.owner # r
    <3>1. /\ reqPc' \in {[reqPc EXCEPT ![r] = label] : label \in Claims!Labels}
          /\ \/ UNCHANGED answer
             \/ \E kind, by : answer' = [answer EXCEPT ![r] = <<kind, by>>]
      BY <1>4 DEF Claims!Step, Claims!Arrive, Claims!Select, Claims!Insert,
         Claims!BeginRefused, Claims!PreconditionFails,
                  Claims!RunCompletes, Claims!RunFails, Claims!RunEscapes,
                  Claims!FinishRefused, Claims!RollsBack,
                  Claims!RollbackFails, Claims!ReleaseRefused, Claims!Crash, Claims!GoTo,
                  Claims!Answer, Claims!Labels
    <3> QED
      BY <1>0, <2>1, <2>2, <2>3, <3>1 DEF Shape
  <2>4. CASE claim.owner = r
    <3>1. reqPc[r] \in AtWork \cup {"done"}
      BY <2>2, <2>4
    <3>2. \/ \E label \in AtWork : reqPc' = [reqPc EXCEPT ![r] = label]
          \/ /\ reqPc' = [reqPc EXCEPT ![r] = "done"]
             /\ \/ answer' = [answer EXCEPT ![r] = <<"error", r>>]
                \/ answer' = [answer EXCEPT ![r] = <<"kept", r>>]
      BY <1>4, <3>1
         DEF Claims!Step, Claims!Arrive, Claims!Select, Claims!Insert, Claims!BeginRefused,
         Claims!PreconditionFails,
             Claims!RunCompletes, Claims!RunFails, Claims!RunEscapes, Claims!FinishRefused,
             Claims!RollsBack,
             Claims!RollbackFails, Claims!ReleaseRefused, Claims!Crash, Claims!GoTo,
             Claims!Answer, AtWork
    <3> QED
      BY <1>0, <2>1, <2>4, <3>2 DEF Shape
  <2> QED
    BY <2>3, <2>4
<1> QED
  BY <1>1, <1>2, <1>3, <1>4

(* No orderly answer leaves a key blocked until its TTL (idempotency_finish, *)
(* idempotency_release): whoever finds a claim in progress finds its owner   *)
(* at work, dead, or told that its last statement was refused.               *)
LEMMA NoClaimIsStuck == Claims!Spec => []Claims!NoStuckClaim
<1>1. Claims!Init => OwnerIsKnown
  BY DEF Claims!Init, OwnerIsKnown
<1>2. RunInv /\ OwnerIsKnown /\ [Claims!Next]_Claims!vars => OwnerIsKnown'
  <2> SUFFICES ASSUME RunInv, OwnerIsKnown, [Claims!Next]_Claims!vars PROVE OwnerIsKnown'
    OBVIOUS
  <2>1. CASE Claims!Tick \/ UNCHANGED Claims!vars
    BY <2>1 DEF Claims!Tick, Claims!vars, OwnerIsKnown
  <2>2. ASSUME NEW r \in Requests, Claims!Step(r) PROVE OwnerIsKnown'
    BY <2>2, OwnerKeeps
  <2> QED
    BY <2>1, <2>2 DEF Claims!Next, Claims!AllAnswered
<1>3. OwnerIsKnown => Claims!NoStuckClaim
  BY DEF OwnerIsKnown, Claims!NoStuckClaim, AtWork
<1> QED
  BY <1>1, <1>2, <1>3, RunInvariant, PTL DEF Claims!Spec

-----------------------------------------------------------------------------
(* One execution per window.                                                *)

(* The requests whose claim counts: the run is not over, or took effect.    *)
Live(r) == reqPc[r] \in {"run", "finish"} \/ (r \in applied /\ outcome[r] = "completed")

Holds(r) == claim # NoClaim /\ claim.owner = r /\ claim.at = stamp[r]

(* A claim that counts is in the row, is past its time, or was ousted.      *)
Covered(r) == Holds(r) \/ now - stamp[r] >= TTL \/ r \in ousted

Apart(r, q) == \/ since[r] - stamp[q] >= TTL \/ since[q] - stamp[r] >= TTL
               \/ {r, q} \cap ousted # {}

WindowInv ==
    /\ \A r \in Requests : Live(r) => Covered(r)
    /\ \A r, q \in Requests : Live(r) /\ Live(q) /\ r # q => Apart(r, q)

(* A step that makes no claim count keeps the windows apart when each claim *)
(* that still counts stays, is past its time or is ousted.                  *)
LEMMA NoNewClaimKeeps ==
    ASSUME RunInv, WindowInv, Clocks', Claims!RequestAssumption,
           \A q \in Requests :
              Live(q)' => /\ Live(q)
                          /\ since'[q] = since[q] /\ stamp'[q] = stamp[q]
                          /\ Holds(q) => \/ Holds(q)'
                                         \/ now - stamp[q] >= TTL
                                         \/ q \in ousted',
           ousted \subseteq ousted', now <= now'
    PROVE  WindowInv'
<1>0. /\ TTL \in Nat /\ now \in Nat /\ now' \in Nat
      /\ stamp \in [Requests -> Nat] /\ since \in [Requests -> Nat]
  BY DEF Claims!RequestAssumption, RunInv, Clocks
<1>1. ASSUME NEW q \in Requests, Live(q)' PROVE Covered(q)'
  <2>1. Covered(q) /\ stamp'[q] = stamp[q] /\ stamp[q] \in Nat
    BY <1>0, <1>1 DEF WindowInv
  <2>2. CASE Holds(q)
    BY <1>0, <1>1, <2>1, <2>2 DEF Covered
  <2>3. CASE now - stamp[q] >= TTL \/ q \in ousted
    BY <1>0, <2>1, <2>3 DEF Covered
  <2> QED
    BY <2>1, <2>2, <2>3 DEF Covered
<1>2. ASSUME NEW r \in Requests, NEW q \in Requests, Live(r)', Live(q)', r # q
      PROVE  Apart(r, q)'
  BY <1>2 DEF WindowInv, Apart
<1> QED
  BY <1>1, <1>2 DEF WindowInv

(* A claim is inserted into an empty row: the others that count are past   *)
(* their time, or were ousted.                                              *)
LEMMA NewClaimKeeps ==
    ASSUME RunInv, WindowInv, Claims!RequestAssumption,
           NEW r \in Requests, Claims!Insert(r), claim = NoClaim
    PROVE  WindowInv'
<1>0. /\ TTL \in Nat /\ now \in Nat
      /\ stamp \in [Requests -> Nat] /\ since \in [Requests -> Nat]
      /\ reqPc \in [Requests -> Claims!Labels]
  BY DEF Claims!RequestAssumption, RunInv, Clocks, Shape
<1>1. /\ claim' = [owner |-> r, at |-> stamp[r], status |-> "in-progress",
                   result |-> r]
      /\ since' = [since EXCEPT ![r] = now]
      /\ reqPc' = [reqPc EXCEPT ![r] = "run"]
      /\ UNCHANGED <<now, stamp, outcome, applied, ousted>>
  BY DEF Claims!Insert, Claims!GoTo
<1>2. claim' # NoClaim
  BY <1>0, <1>1 DEF Claims!RequestAssumption
<1>3. \A q \in Requests \ {r} : Live(q)' => Live(q)
  BY <1>0, <1>1 DEF Live
<1>4. \A q \in Requests \ {r} :
         Live(q)' => now - stamp[q] >= TTL \/ q \in ousted
  BY <1>3 DEF WindowInv, Covered, Holds
<1>5. Covered(r)'
  BY <1>1, <1>2 DEF Covered, Holds
<1>6. \A q \in Requests : Live(q)' => Covered(q)'
  BY <1>1, <1>4, <1>5 DEF Covered
<1>7. ASSUME NEW q \in Requests \ {r}, Live(q)'
      PROVE  Apart(r, q)' /\ Apart(q, r)'
  <2>1. since'[r] = now /\ since'[q] = since[q]
    BY <1>0, <1>1
  <2> QED
    BY <1>1, <1>4, <1>7, <2>1 DEF Apart
<1>8. ASSUME NEW p \in Requests \ {r}, NEW q \in Requests \ {r},
             Live(p)', Live(q)', p # q
      PROVE  Apart(p, q)'
  <2>1. Apart(p, q)
    BY <1>3, <1>8 DEF WindowInv
  <2>2. since'[p] = since[p] /\ since'[q] = since[q]
    BY <1>0, <1>1
  <2> QED
    BY <1>1, <2>1, <2>2 DEF Apart
<1> QED
  BY <1>6, <1>7, <1>8 DEF WindowInv

LEMMA WindowStep ==
    ASSUME RunInv, WindowInv, Claims!RequestAssumption, NEW r \in Requests, Claims!Step(r)
    PROVE  WindowInv'
<1>0. /\ Shape /\ OutcomeOf(r) /\ RowIsTrue /\ Clocks'
      /\ reqPc \in [Requests -> Claims!Labels] /\ stamp \in [Requests -> Nat]
  BY ClocksKeep DEF RunInv, Shape, Clocks
<1>1. CASE Claims!Insert(r) /\ claim = NoClaim
  BY <1>1, NewClaimKeeps
<1>2. CASE Claims!Clear(r) \/ Claims!Release(r)
  <2>1. /\ reqPc' = [reqPc EXCEPT ![r] = IF reqPc[r] = "clear" THEN "insert" ELSE "done"]
        /\ reqPc[r] \in {"clear", "release"}
        /\ applied' \in {applied, applied \cup {r}}
        /\ Claims!Deleted(r)
        /\ UNCHANGED <<now, stamp, since, outcome>>
    BY <1>2 DEF Claims!Clear, Claims!Release, Claims!GoTo, Claims!Answer
  <2>2. outcome[r] # "completed"
    BY <1>0, <2>1 DEF OutcomeOf, Before, Undecided
  <2>3. ASSUME NEW q \in Requests, Live(q)'
        PROVE  /\ Live(q) /\ q # r
               /\ Holds(q) => now - stamp[q] >= TTL \/ q \in ousted'
    <3>1. q # r
      BY <1>0, <2>1, <2>2, <2>3 DEF Live
    <3>2. Live(q)
      BY <1>0, <2>1, <2>3, <3>1 DEF Live
    <3>3. ASSUME Holds(q), now - stamp[q] < TTL PROVE q \in ousted'
      BY <2>1, <3>1, <3>3 DEF Claims!Deleted, Holds
    <3>4. now - stamp[q] < TTL \/ now - stamp[q] >= TTL
      BY <1>0 DEF Claims!RequestAssumption, RunInv, Clocks
    <3> QED
      BY <3>1, <3>2, <3>3, <3>4
  <2>4. ousted \subseteq ousted' /\ now <= now'
    BY <2>1 DEF Claims!Deleted, RunInv, Clocks
  <2> QED
    BY <1>0, <2>1, <2>3, <2>4, NoNewClaimKeeps
<1>3. CASE ~ (Claims!Insert(r) /\ claim = NoClaim) /\ ~ (Claims!Clear(r) \/ Claims!Release(r))
           /\ ~ Claims!Arrive(r)
  <2>1. /\ \/ UNCHANGED claim
           \/ /\ claim # NoClaim /\ reqPc[r] = "finish"
              /\ claim' = [claim EXCEPT !.status = outcome[r], !.result = r]
        /\ UNCHANGED <<now, stamp, since, ousted>>
    BY <1>3 DEF Claims!Step, Claims!Select, Claims!Insert, Claims!BeginRefused,
       Claims!PreconditionFails,
                Claims!RunCompletes, Claims!RunFails, Claims!RunEscapes, Claims!Finish,
                Claims!FinishRefused,
                Claims!RollsBack, Claims!RollbackFails, Claims!ReleaseRefused, Claims!Crash,
                Claims!Refused
  <2>2. \A q \in Requests : Holds(q) => Holds(q)'
    <3> SUFFICES ASSUME NEW q \in Requests, Holds(q) PROVE Holds(q)'
      OBVIOUS
    <3>1. CASE UNCHANGED claim
      BY <2>1, <3>1 DEF Holds
    <3>2. CASE /\ reqPc[r] = "finish"
               /\ claim' = [claim EXCEPT !.status = outcome[r], !.result = r]
      <4>1. claim \in ClaimRow
        BY <1>0 DEF Holds, RowIsTrue
      <4>2. claim' \in ClaimRow
        <5>1. outcome[r] \in Claims!Definite
          BY <1>0, <3>2 DEF OutcomeOf
        <5> QED
          BY <3>2, <4>1, <5>1 DEF ClaimRow
      <4>3. claim'.owner = claim.owner /\ claim'.at = claim.at
        BY <3>2, <4>1 DEF ClaimRow
      <4> QED
        BY <2>1, <4>2, <4>3 DEF Holds, Claims!RequestAssumption, ClaimRow, Claims!Definite
    <3> QED
      BY <2>1, <3>1, <3>2
  <2>3. \A q \in Requests : Live(q)' => Live(q)
    <3>1. \/ UNCHANGED <<applied, outcome>>
             /\ \/ reqPc[r] \in {"run", "finish"}
                \/ \E label \in Claims!Labels \ {"run", "finish"} :
                      reqPc' = [reqPc EXCEPT ![r] = label]
          \/ reqPc[r] = "run"
      BY <1>3 DEF Claims!Step, Claims!Select, Claims!Insert, Claims!BeginRefused,
         Claims!PreconditionFails,
                  Claims!RunCompletes, Claims!RunFails, Claims!RunEscapes, Claims!Finish,
                  Claims!FinishRefused,
                  Claims!RollsBack, Claims!RollbackFails, Claims!ReleaseRefused, Claims!Crash,
                  Claims!Refused,
                  Claims!GoTo, Claims!Answer, Claims!Labels
    <3>2. \A q \in Requests \ {r} :
             /\ reqPc'[q] = reqPc[q] /\ outcome'[q] = outcome[q]
             /\ q \in applied' <=> q \in applied
      BY <1>0, <1>3
         DEF Claims!Step, Claims!Select, Claims!Insert, Claims!BeginRefused,
         Claims!PreconditionFails, Claims!RunCompletes,
             Claims!RunFails, Claims!RunEscapes, Claims!Finish, Claims!FinishRefused,
             Claims!RollsBack,
             Claims!RollbackFails, Claims!ReleaseRefused, Claims!Crash, Claims!Refused,
             Claims!GoTo, Claims!Answer, Shape
    <3>3. Live(r)' => Live(r)
      BY <1>0, <3>1 DEF Live
    <3> QED
      BY <3>2, <3>3 DEF Live
  <2>4. ousted \subseteq ousted' /\ now <= now'
    BY <2>1 DEF RunInv, Clocks
  <2> QED
    BY <1>0, <2>1, <2>2, <2>3, <2>4, NoNewClaimKeeps
<1>4. CASE Claims!Arrive(r)
  <2>1. /\ reqPc' = [reqPc EXCEPT ![r] = "select"] /\ reqPc[r] = "new"
        /\ stamp' = [stamp EXCEPT ![r] = now]
        /\ UNCHANGED <<claim, now, since, outcome, applied, ousted>>
    BY <1>4 DEF Claims!Arrive, Claims!GoTo
  <2>2. ~ Live(r)'
    BY <1>0, <2>1 DEF Live, OutcomeOf, Before
  <2>3. \A q \in Requests \ {r} :
           (Live(q)' => Live(q)) /\ stamp'[q] = stamp[q] /\ (Holds(q) => Holds(q)')
    BY <1>0, <2>1 DEF Live, Holds
  <2>4. ousted \subseteq ousted' /\ now <= now'
    BY <2>1 DEF RunInv, Clocks
  <2> QED
    BY <1>0, <2>1, <2>2, <2>3, <2>4, NoNewClaimKeeps
<1> QED
  BY <1>1, <1>2, <1>3, <1>4

(* "A same-key retry gets back the SAME result, never a second execution"  *)
(* (idempotency_begin), for any number of requests and any time to live:   *)
(* of two runs of one key that take effect one was claimed when the other's *)
(* time was over, unless a DELETE by key ousted a live claim or a refused   *)
(* COMMIT was made good.                                                     *)
LEMMA OncePerWindowHolds ==
    Claims!Spec => []Claims!OncePerWindow
<1>0. Claims!RequestAssumption
  BY DatabaseAssumption
<1>1. Claims!Init => WindowInv
  BY DEF Claims!Init, WindowInv, Live
<1>2. RunInv /\ WindowInv /\ [Claims!Next]_Claims!vars => WindowInv'
  <2> SUFFICES ASSUME RunInv, WindowInv, [Claims!Next]_Claims!vars PROVE WindowInv'
    OBVIOUS
  <2>1. CASE Claims!Tick
    <3>1. /\ now' = now + 1 /\ now \in Nat
          /\ UNCHANGED <<claim, reqPc, stamp, since, outcome, applied, ousted>>
      BY <2>1 DEF Claims!Tick, RunInv, Clocks
    <3>2. Clocks'
      BY <3>1 DEF RunInv, Clocks
    <3> QED
      BY <1>0, <3>1, <3>2, NoNewClaimKeeps DEF Live, Holds
  <2>2. CASE UNCHANGED Claims!vars
    BY <2>2 DEF Claims!vars, WindowInv, Live, Covered, Holds, Apart
  <2>3. ASSUME NEW r \in Requests, Claims!Step(r) PROVE WindowInv'
    BY <1>0, <2>3, WindowStep
  <2> QED
    BY <2>1, <2>2, <2>3 DEF Claims!Next, Claims!AllAnswered
<1>3. RunInv /\ WindowInv => Claims!OncePerWindow
  <2> SUFFICES ASSUME RunInv, WindowInv, NEW r \in applied, NEW q \in applied,
                      r # q, "refused" \notin {outcome[r], outcome[q]}
               PROVE  Apart(r, q)
    BY DEF Claims!OncePerWindow, Apart
  <2>1. r \in Requests /\ q \in Requests
    BY DEF RunInv, Shape
  <2>2. Live(r) /\ Live(q)
    BY <2>1 DEF RunInv, OutcomeOf, Live
  <2> QED
    BY <2>1, <2>2 DEF WindowInv
<1> QED
  BY <1>1, <1>2, <1>3, RunInvariant, PTL DEF Claims!Spec

-----------------------------------------------------------------------------
(* Beside whatever else the database does.                                  *)

LEMMA ClaimsAlone == MCSpec => Claims!Spec
<1>1. MCInit => Claims!Init
  BY DEF MCInit
<1>2. [MCNext]_allVars => [Claims!Next]_Claims!vars
  BY DEF MCNext, RowsNext, ClaimsNext, UpkeepNext, allVars, claimVars, Claims!vars
<1> QED
  BY <1>1, <1>2, PTL DEF MCSpec, Claims!Spec

(* "A same-key retry gets back the SAME result, never a second execution"   *)
(* (idempotency_begin), beside whatever else happens to the database: of    *)
(* two runs of one key that take effect one was claimed when the other's    *)
(* window was over, but for the two exceptions the property names.          *)
THEOREM OncePerWindowInDatabase == MCSpec => []OncePerWindow
BY ClaimsAlone, OncePerWindowHolds, PTL DEF OncePerWindow

(* An answer says what became of the run it is about (_respond,             *)
(* _respond_event_consume): completed means its writes are in the store, a  *)
(* definite failure or a 503 that none is.                                  *)
THEOREM TruthfulAnswersInDatabase == MCSpec => []TruthfulAnswers
BY ClaimsAlone, AnswersAreTruthful, PTL DEF TruthfulAnswers

(* No orderly answer leaves a key blocked until its claim expires (#118).   *)
THEOREM NoStuckClaimInDatabase == MCSpec => []NoStuckClaim
BY ClaimsAlone, NoClaimIsStuck, PTL DEF NoStuckClaim

-----------------------------------------------------------------------------
(* Maintenance                                                              *)

-----------------------------------------------------------------------------
(* The migration and the backup beside a live server.                       *)

(* What the migration read of a row and the row as it is now: as long as it *)
(* is the same row, the version tells whether it changed.                   *)
StillRead(row, now1) ==
  now1 # Gone /\ now1.born = row.born =>
    /\ row.ver <= now1.ver
    /\ row.ver = now1.ver => now1 = row

UpkeepTypes ==
  /\ stored \in [RowKeys -> Upkeep!RowType \cup {Gone}]
  /\ writes \in Nat
  /\ \A k \in RowKeys : stored[k] # Gone => stored[k].born <= writes
  /\ step \in {"start", "reported", "rows", "rolled back", "committed", "killed"}
  /\ DOMAIN pending \subseteq RowKeys
  /\ counts.updated \in Nat /\ DOMAIN counts = {"found", "updated"}

(* The row in hand is one of those it has still to look at, none of which   *)
(* it has written.                                                          *)
HandIsTrue ==
  /\ candidates \subseteq RowKeys /\ candidates \cap DOMAIN pending = {}
  /\ current # Gone =>
       /\ step = "rows"
       /\ current.key \in candidates /\ current.row \in Upkeep!RowType
       /\ current.row.born <= writes
       /\ StillRead(current.row, stored[current.key])

(* What it wrote is one version ahead of the store, and of the same row     *)
(* takes nothing back.                                                      *)
PendingIsAhead ==
  /\ step # "rows" => DOMAIN pending = {}
  /\ step \in {"start", "rows"} => (counts.updated = 0 <=> DOMAIN pending = {})
  /\ \A k \in DOMAIN pending :
       /\ pending[k] \in Upkeep!RowType /\ pending[k].born <= writes
       /\ stored[k] # Gone /\ pending[k].ver = stored[k].ver + 1
       /\ pending[k].born = stored[k].born =>
            pending[k].data = stored[k].data /\ stored[k].field # "theirs"

(* One backup owns the file at most, and a copy is whole.                   *)
BackupsOwn ==
  /\ copying \in [Backups -> {"start", "created", "copied", "refused", "failed"}]
  /\ \A b, c \in Upkeep!Owners : b = c
  /\ out = NoFile => Upkeep!Owners = {}
  /\ step # "committed" => \A k \in RowKeys : stored[k] # Gone => stored[k].field # "ours"
  /\ \A b \in Backups : copying[b] = "copied" =>
       /\ out \in [RowKeys -> Upkeep!RowType \cup {Gone}]
       /\ step # "committed" => \A k \in RowKeys : out[k] # Gone => out[k].field # "ours"

UpkeepInv == UpkeepTypes /\ HandIsTrue /\ PendingIsAhead /\ BackupsOwn

LEMMA GoneIsNoRow ==
  /\ Gone \notin Upkeep!RowType
  /\ \A f \in [RowKeys -> Upkeep!RowType \cup {Gone}] : f # NoFile /\ f # Partial
BY DatabaseAssumption DEF Upkeep!MaintenanceAssumption

LEMMA NothingPending == DOMAIN << >> = {}
OBVIOUS

(* A transaction of the server: the row it replaces keeps its birth and     *)
(* gets another version, the row it creates is born now.                    *)
LEMMA ServerKeeps ==
  ASSUME UpkeepInv, Upkeep!Serves, NEW k \in RowKeys, NEW row \in Upkeep!RowType \cup {Gone},
         stored' = [stored EXCEPT ![k] = row],
         row # Gone =>
           IF stored[k] = Gone THEN row.born = writes + 1 /\ row.field # "ours"
           ELSE /\ row.born = stored[k].born /\ row.ver = stored[k].ver + 1
                /\ row.field = "ours" => stored[k].field = "ours"
  PROVE  UpkeepInv'
<1>1. /\ writes' = writes + 1 /\ DOMAIN pending = {}
      /\ UNCHANGED <<step, candidates, current, pending, counts, copying, out>>
  BY DEF Upkeep!Serves, Upkeep!Locked, Upkeep!migrationVars, Upkeep!backupVars
<1>2. /\ stored \in [RowKeys -> Upkeep!RowType \cup {Gone}] /\ writes \in Nat
      /\ \A j \in RowKeys : stored[j] # Gone => stored[j].born <= writes
  BY DEF UpkeepInv, UpkeepTypes
<1>3. /\ stored' \in [RowKeys -> Upkeep!RowType \cup {Gone}]
      /\ stored'[k] = row /\ \A j \in RowKeys : j # k => stored'[j] = stored[j]
  BY <1>2
<1>4. \A j \in RowKeys : stored[j] # Gone => stored[j] \in Upkeep!RowType
  BY <1>2
<1>5. \A r \in Upkeep!RowType : r.born \in Nat /\ r.ver \in Nat
  BY DEF Upkeep!RowType
<1>6. \A j \in RowKeys : stored'[j] # Gone => stored'[j].born <= writes'
  <2> SUFFICES ASSUME NEW j \in RowKeys, stored'[j] # Gone PROVE stored'[j].born <= writes'
    OBVIOUS
  <2>1. CASE j # k
    BY <1>1, <1>2, <1>3, <1>4, <1>5, <2>1
  <2>2. CASE j = k /\ stored[k] = Gone
    BY <1>1, <1>2, <1>3, <2>2
  <2>3. CASE j = k /\ stored[k] # Gone
    BY <1>1, <1>2, <1>3, <1>4, <1>5, <2>3
  <2> QED
    BY <2>1, <2>2, <2>3
<1>7. UpkeepTypes'
  <2>1. writes' \in Nat /\ DOMAIN pending' \subseteq RowKeys
    BY <1>1, <1>2
  <2>2. UNCHANGED <<step, counts>>
    BY <1>1
  <2> QED
    BY <1>3, <1>6, <2>1, <2>2 DEF UpkeepInv, UpkeepTypes
<1>8. HandIsTrue'
  <2> SUFFICES ASSUME current # Gone
               PROVE  /\ current.row.born <= writes + 1
                      /\ StillRead(current.row, stored'[current.key])
    BY <1>1 DEF UpkeepInv, HandIsTrue
  <2> DEFINE c == current.key
             r == current.row
  <2>1. c \in RowKeys /\ r \in Upkeep!RowType /\ r.born <= writes /\ StillRead(r, stored[c])
    BY DEF UpkeepInv, HandIsTrue
  <2>2. r.born \in Nat /\ r.ver \in Nat
    BY <1>5, <2>1
  <2> HIDE DEF c, r
  <2>3. StillRead(r, stored'[c])
    <3>1. CASE c # k
      BY <1>3, <2>1, <3>1
    <3>2. CASE c = k /\ row = Gone
      BY <1>3, <3>2 DEF StillRead
    <3>3. CASE c = k /\ row # Gone /\ stored[k] = Gone
      <4>1. row.born = writes + 1
        BY <3>3
      <4> QED
        BY <1>2, <1>3, <2>1, <2>2, <3>3, <4>1 DEF StillRead
    <3>4. CASE c = k /\ row # Gone /\ stored[k] # Gone
      <4>1. row.born = stored[k].born /\ row.ver = stored[k].ver + 1 /\ stored[k].ver \in Nat
        BY <1>4, <1>5, <3>4
      <4> QED
        BY <1>3, <2>1, <2>2, <3>4, <4>1 DEF StillRead
    <3> QED
      BY <2>1, <3>1, <3>2, <3>3, <3>4
  <2>4. r.born <= writes + 1
    BY <1>2, <2>1, <2>2
  <2> QED
    BY <2>3, <2>4 DEF c, r
<1>9. PendingIsAhead'
  BY <1>1 DEF UpkeepInv, PendingIsAhead
<1>10. BackupsOwn'
  <2>1. Upkeep!Owners' = Upkeep!Owners
    BY <1>1 DEF Upkeep!Owners
  <2>2. step # "committed" => \A j \in RowKeys : stored'[j] # Gone => stored'[j].field # "ours"
    <3> SUFFICES ASSUME step # "committed", NEW j \in RowKeys, stored'[j] # Gone
                 PROVE  stored'[j].field # "ours"
      OBVIOUS
    <3>1. stored[j] # Gone => stored[j].field # "ours"
      BY DEF UpkeepInv, BackupsOwn
    <3> QED
      BY <1>3, <3>1
  <2> QED
    BY <1>1, <2>1, <2>2 DEF UpkeepInv, BackupsOwn
<1> QED
  BY <1>7, <1>8, <1>9, <1>10 DEF UpkeepInv

(* What every action of the migration but the commit leaves alone.          *)
LEMMA StoreStays ==
  ASSUME UpkeepInv, UNCHANGED <<stored, writes, copying, out>>,
         step' \in {"start", "reported", "rows", "rolled back", "killed"},
         step' # step => step # "committed",
         DOMAIN pending' \subseteq RowKeys, counts'.updated \in Nat,
         DOMAIN counts' = {"found", "updated"}
  PROVE  UpkeepTypes' /\ BackupsOwn'
<1>1. Upkeep!Owners' = Upkeep!Owners
  BY DEF Upkeep!Owners
<1>2. step # "committed"
  OBVIOUS
<1>3. BackupsOwn'
  BY <1>1, <1>2 DEF UpkeepInv, BackupsOwn
<1> QED
  BY <1>3 DEF UpkeepInv, UpkeepTypes

LEMMA OverKeeps ==
  ASSUME UpkeepInv, NEW ending \in {"rolled back", "killed"}, step = "rows",
         Upkeep!Over(ending), UNCHANGED stored
  PROVE  UpkeepInv'
<1>1. /\ step' = ending /\ candidates' = {} /\ current' = Gone /\ pending' = << >>
      /\ UNCHANGED <<stored, writes, counts, copying, out>>
  BY DEF Upkeep!Over, Upkeep!backupVars
<1>2. DOMAIN pending' = {}
  BY <1>1, NothingPending
<1>3. UpkeepTypes' /\ BackupsOwn'
  <2>1. counts'.updated \in Nat /\ DOMAIN counts' = {"found", "updated"}
    BY <1>1 DEF UpkeepInv, UpkeepTypes
  <2> QED
    BY <1>1, <1>2, <2>1, StoreStays
<1>4. HandIsTrue' /\ PendingIsAhead'
  BY <1>1, <1>2 DEF HandIsTrue, PendingIsAhead
<1> QED
  BY <1>3, <1>4 DEF UpkeepInv

LEMMA ScanKeeps ==
  ASSUME UpkeepInv, Upkeep!Scan
  PROVE  UpkeepInv'
<1>1. /\ step = "start" /\ step' \in {"reported", "rows"} /\ candidates' \subseteq RowKeys
      /\ counts' = [counts EXCEPT !.found = Upkeep!Cardinality(candidates')]
      /\ UNCHANGED <<stored, writes, current, pending, copying, out>>
  BY DEF Upkeep!Scan, Upkeep!backupVars
<1>2. DOMAIN pending = {} /\ current = Gone /\ counts.updated = 0
  BY <1>1 DEF UpkeepInv, PendingIsAhead, HandIsTrue
<1>3. counts'.updated = counts.updated /\ DOMAIN counts' = {"found", "updated"}
  BY <1>1 DEF UpkeepInv, UpkeepTypes
<1>4. UpkeepTypes' /\ BackupsOwn'
  <2>1. /\ UNCHANGED <<stored, writes, copying, out>>
        /\ step' \in {"start", "reported", "rows", "rolled back", "killed"}
        /\ step # "committed"
    BY <1>1
  <2>2. /\ DOMAIN pending' \subseteq RowKeys /\ counts'.updated \in Nat
        /\ DOMAIN counts' = {"found", "updated"}
    BY <1>1, <1>2, <1>3
  <2> QED
    BY <2>1, <2>2, StoreStays
<1> QED
  BY <1>1, <1>2, <1>3, <1>4 DEF UpkeepInv, HandIsTrue, PendingIsAhead

LEMMA ReReadKeeps ==
  ASSUME UpkeepInv, NEW k \in RowKeys, Upkeep!ReRead(k)
  PROVE  UpkeepInv'
<1>1. CASE Upkeep!Seen(k) = Gone
  BY <1>1, OverKeeps DEF Upkeep!ReRead
<1>2. CASE Upkeep!Seen(k) # Gone
  <2>1. /\ step = "rows" /\ k \in candidates /\ current' = [key |-> k, row |-> Upkeep!Seen(k)]
        /\ UNCHANGED <<stored, writes, step, candidates, pending, counts, copying, out>>
    BY <1>2 DEF Upkeep!ReRead, Upkeep!backupVars
  <2>2. Upkeep!Seen(k) = stored[k]
    BY <2>1 DEF UpkeepInv, HandIsTrue, Upkeep!Seen
  <2>3. stored[k] \in Upkeep!RowType /\ stored[k].born <= writes
    BY <1>2, <2>2 DEF UpkeepInv, UpkeepTypes
  <2>4. stored[k].ver \in Nat
    BY <2>3 DEF Upkeep!RowType
  <2>5. StillRead(stored[k], stored[k])
    BY <2>4 DEF StillRead
  <2>6. HandIsTrue'
    BY <2>1, <2>2, <2>3, <2>5 DEF UpkeepInv, HandIsTrue
  <2>7. UpkeepTypes' /\ BackupsOwn'
    BY <2>1, StoreStays DEF UpkeepInv, UpkeepTypes
  <2>8. PendingIsAhead'
    BY <2>1 DEF UpkeepInv, PendingIsAhead
  <2> QED
    BY <2>6, <2>7, <2>8 DEF UpkeepInv
<1> QED
  BY <1>1, <1>2

LEMMA SkipKeeps ==
  ASSUME UpkeepInv, Upkeep!Skip
  PROVE  UpkeepInv'
<1>1. /\ step = "rows" /\ candidates' = candidates \ {current.key} /\ current' = Gone
      /\ UNCHANGED <<stored, writes, step, pending, counts, copying, out>>
  BY DEF Upkeep!Skip, Upkeep!backupVars
<1>2. UpkeepTypes' /\ BackupsOwn'
  BY <1>1, StoreStays DEF UpkeepInv, UpkeepTypes
<1> QED
  BY <1>1, <1>2 DEF UpkeepInv, HandIsTrue, PendingIsAhead

(* The versioned write: the row it goes to has the version that was read,   *)
(* and unless it was deleted and created again it is the row that was read. *)
LEMMA PersistKeeps ==
  ASSUME UpkeepInv, Upkeep!Persist
  PROVE  UpkeepInv'
<1> DEFINE k == current.key
           row == Upkeep!Row("ours", current.row.data, current.row.ver + 1, current.row.born)
<1>1. /\ step = "rows" /\ current # Gone /\ current.row.field = "missing"
      /\ Upkeep!VersionHolds(k)
      /\ pending' = [key \in DOMAIN pending \cup {k} |-> IF key = k THEN row ELSE pending[key]]
      /\ candidates' = candidates \ {k} /\ current' = Gone
      /\ counts' = [counts EXCEPT !.updated = @ + 1]
      /\ UNCHANGED <<stored, writes, step, copying, out>>
  BY DEF Upkeep!Persist, Upkeep!backupVars
<1>2. /\ k \in candidates /\ k \in RowKeys /\ k \notin DOMAIN pending
      /\ current.row \in Upkeep!RowType /\ current.row.born <= writes
      /\ StillRead(current.row, stored[k])
  BY <1>1 DEF UpkeepInv, HandIsTrue
<1>3. stored[k] # Gone /\ stored[k].ver = current.row.ver
  BY <1>1, <1>2 DEF Upkeep!VersionHolds, Upkeep!Seen
<1>4. /\ row \in Upkeep!RowType /\ row.born = current.row.born /\ row.data = current.row.data
      /\ row.ver = current.row.ver + 1
  BY <1>2 DEF Upkeep!RowType, Upkeep!Row
<1>5. row.born = stored[k].born => row.data = stored[k].data /\ stored[k].field # "theirs"
  BY <1>1, <1>2, <1>3, <1>4 DEF StillRead
<1>6. /\ DOMAIN pending' = DOMAIN pending \cup {k} /\ pending'[k] = row
      /\ \A j \in DOMAIN pending : pending'[j] = pending[j]
  BY <1>1, <1>2
<1>7. counts'.updated = counts.updated + 1 /\ counts.updated \in Nat
      /\ DOMAIN counts' = {"found", "updated"}
  BY <1>1 DEF UpkeepInv, UpkeepTypes
<1> HIDE DEF row, k
<1>8. PendingIsAhead'
  <2>1. ASSUME NEW j \in DOMAIN pending'
        PROVE  /\ pending'[j] \in Upkeep!RowType /\ pending'[j].born <= writes
               /\ stored[j] # Gone /\ pending'[j].ver = stored[j].ver + 1
               /\ pending'[j].born = stored[j].born =>
                    pending'[j].data = stored[j].data /\ stored[j].field # "theirs"
    <3>1. CASE j = k
      BY <1>2, <1>3, <1>4, <1>5, <1>6, <3>1
    <3>2. CASE j \in DOMAIN pending
      BY <1>6, <3>2 DEF UpkeepInv, PendingIsAhead
    <3> QED
      BY <1>6, <2>1, <3>1, <3>2
  <2>2. counts'.updated # 0 /\ DOMAIN pending' # {}
    BY <1>6, <1>7
  <2> QED
    BY <1>1, <2>1, <2>2 DEF PendingIsAhead
<1>9. UpkeepTypes' /\ BackupsOwn'
  <2>1. DOMAIN pending' \subseteq RowKeys /\ counts'.updated \in Nat
    <3>1. DOMAIN pending \subseteq RowKeys
      BY DEF UpkeepInv, UpkeepTypes
    <3> QED
      BY <1>2, <1>6, <1>7, <3>1
  <2> QED
    BY <1>1, <1>7, <2>1, StoreStays
<1>10. HandIsTrue'
  BY <1>1, <1>6 DEF UpkeepInv, HandIsTrue
<1> QED
  BY <1>8, <1>9, <1>10 DEF UpkeepInv

(* The commit, which is what the next two lemmas are about.                 *)
LEMMA CommitWrites ==
  ASSUME UpkeepInv, Upkeep!Finish, counts.updated # 0
  PROVE  /\ step = "rows" /\ step' = "committed" /\ DOMAIN pending # {}
         /\ candidates' = {} /\ current' = Gone /\ pending' = << >>
         /\ UNCHANGED <<writes, counts, copying, out>>
         /\ stored' \in [RowKeys -> Upkeep!RowType \cup {Gone}]
         /\ \A k \in RowKeys : stored'[k] = IF k \in DOMAIN pending THEN pending[k] ELSE stored[k]
<1>1. /\ step = "rows" /\ stored' = [k \in RowKeys |-> Upkeep!Seen(k)]
      /\ Upkeep!Over("committed")
  BY DEF Upkeep!Finish
<1>2. \A k \in RowKeys : stored'[k] = IF k \in DOMAIN pending THEN pending[k] ELSE stored[k]
  BY <1>1 DEF Upkeep!Seen
<1>3. \A k \in RowKeys : stored'[k] \in Upkeep!RowType \cup {Gone}
  BY <1>2 DEF UpkeepInv, UpkeepTypes, PendingIsAhead
<1>4. stored' \in [RowKeys -> Upkeep!RowType \cup {Gone}]
  BY <1>1, <1>2, <1>3
<1>5. DOMAIN pending # {}
  BY <1>1 DEF UpkeepInv, PendingIsAhead
<1> QED
  BY <1>1, <1>2, <1>4, <1>5 DEF Upkeep!Over, Upkeep!backupVars

LEMMA FinishKeeps ==
  ASSUME UpkeepInv, Upkeep!Finish
  PROVE  UpkeepInv'
<1>1. CASE counts.updated = 0
  BY <1>1, OverKeeps DEF Upkeep!Finish
<1>2. CASE counts.updated # 0
  <2>1. DOMAIN pending' = {}
    BY <1>2, CommitWrites, NothingPending
  <2>2. Upkeep!Owners' = Upkeep!Owners
    BY <1>2, CommitWrites DEF Upkeep!Owners
  <2>3. UpkeepTypes'
    <3>1. ASSUME NEW k \in RowKeys, stored'[k] # Gone PROVE stored'[k].born <= writes
      BY <1>2, <3>1, CommitWrites DEF UpkeepInv, UpkeepTypes, PendingIsAhead
    <3> QED
      BY ZenonT(60), <1>2, <2>1, <3>1, CommitWrites DEF UpkeepInv, UpkeepTypes
  <2>4. HandIsTrue' /\ PendingIsAhead'
    BY <1>2, <2>1, CommitWrites DEF HandIsTrue, PendingIsAhead
  <2>5. BackupsOwn'
    BY <1>2, <2>2, CommitWrites DEF UpkeepInv, BackupsOwn
  <2> QED
    BY <2>3, <2>4, <2>5 DEF UpkeepInv
<1> QED
  BY <1>1, <1>2

LEMMA CardinalityInUpkeep == \A S : Upkeep!Cardinality(S) = Cardinality(S)
BY DEF Upkeep!Cardinality, Cardinality, Upkeep!IsFiniteSet, IsFiniteSet

LEMMA BackupKeeps ==
  ASSUME UpkeepInv, NEW b \in Backups,
         Upkeep!CreateOut(b) \/ Upkeep!Copy(b) \/ Upkeep!CopyFails(b)
  PROVE  UpkeepInv'
<1>1. UNCHANGED <<stored, writes, step, candidates, current, pending, counts>>
  BY DEF Upkeep!CreateOut, Upkeep!Copy, Upkeep!CopyFails, Upkeep!migrationVars
<1>2. UpkeepTypes' /\ HandIsTrue' /\ PendingIsAhead'
  BY <1>1 DEF UpkeepInv, UpkeepTypes, HandIsTrue, PendingIsAhead
<1>3. copying \in [Backups -> {"start", "created", "copied", "refused", "failed"}]
  BY DEF UpkeepInv, BackupsOwn
<1>4. CASE copying[b] = "start" /\ out = NoFile
  <2>1. copying' = [copying EXCEPT ![b] = "created"] /\ out' = Partial
    BY <1>4 DEF Upkeep!CreateOut, Upkeep!Copy, Upkeep!CopyFails
  <2>2. Upkeep!Owners = {}
    BY <1>4 DEF UpkeepInv, BackupsOwn
  <2>3. Upkeep!Owners' = {b}
    BY <1>3, <2>1, <2>2 DEF Upkeep!Owners
  <2>4. \A x \in Backups : copying'[x] # "copied"
    BY <1>3, <2>1, <2>2 DEF Upkeep!Owners
  <2>5. out' # NoFile
    BY <2>1, DatabaseAssumption DEF Upkeep!MaintenanceAssumption
  <2> QED
    BY <1>1, <1>2, <1>3, <2>1, <2>3, <2>4, <2>5 DEF UpkeepInv, BackupsOwn
<1>5. CASE copying[b] = "start" /\ out # NoFile
  <2>1. copying' = [copying EXCEPT ![b] = "refused"] /\ out' = out
    BY <1>5 DEF Upkeep!CreateOut, Upkeep!Copy, Upkeep!CopyFails
  <2>2. Upkeep!Owners' = Upkeep!Owners
    BY <1>3, <1>5, <2>1 DEF Upkeep!Owners
  <2>3. \A x \in Backups : copying'[x] = "copied" => copying[x] = "copied"
    BY <1>3, <2>1
  <2>4. copying' \in [Backups -> {"start", "created", "copied", "refused", "failed"}]
    BY <1>3, <2>1
  <2> QED
    BY <1>1, <1>2, <2>1, <2>2, <2>3, <2>4 DEF UpkeepInv, BackupsOwn
<1>6. CASE copying[b] = "created"
  <2>1. b \in Upkeep!Owners /\ Upkeep!Owners = {b}
    BY <1>3, <1>6 DEF UpkeepInv, BackupsOwn, Upkeep!Owners
  <2>2. CASE Upkeep!Copy(b)
    <3>1. copying' = [copying EXCEPT ![b] = "copied"] /\ out' = stored
      BY <2>2 DEF Upkeep!Copy
    <3>2. Upkeep!Owners' = {b}
      BY <1>3, <2>1, <3>1 DEF Upkeep!Owners
    <3>3. stored \in [RowKeys -> Upkeep!RowType \cup {Gone}]
      BY DEF UpkeepInv, UpkeepTypes
    <3>4. out' # NoFile
      BY <3>1, <3>3, GoneIsNoRow
    <3> QED
      BY <1>1, <1>2, <1>3, <3>1, <3>2, <3>3, <3>4 DEF UpkeepInv, BackupsOwn
  <2>3. CASE Upkeep!CopyFails(b)
    <3>1. copying' = [copying EXCEPT ![b] = "failed"] /\ out' = NoFile
      BY <2>3 DEF Upkeep!CopyFails
    <3>2. Upkeep!Owners' = {}
      BY <1>3, <2>1, <3>1 DEF Upkeep!Owners
    <3>3. \A x \in Backups : copying'[x] # "copied"
      BY <1>3, <3>1, <3>2 DEF Upkeep!Owners
    <3> QED
      BY <1>1, <1>2, <1>3, <3>1, <3>2, <3>3 DEF UpkeepInv, BackupsOwn
  <2> QED
    BY <1>6, <2>2, <2>3 DEF Upkeep!CreateOut
<1> QED
  BY <1>4, <1>5, <1>6 DEF Upkeep!CreateOut, Upkeep!Copy, Upkeep!CopyFails

LEMMA ServerStepKeeps ==
  ASSUME UpkeepInv, NEW k \in RowKeys,
         Upkeep!ServerSets(k) \/ Upkeep!ServerDeletes(k) \/ Upkeep!ServerCreates(k)
  PROVE  UpkeepInv'
<1>0. /\ stored \in [RowKeys -> Upkeep!RowType \cup {Gone}] /\ writes \in Nat
      /\ stored[k] # Gone => stored[k] \in Upkeep!RowType
  BY DEF UpkeepInv, UpkeepTypes
<1>1. CASE Upkeep!ServerSets(k)
  <2>1. PICK field \in {"theirs", stored[k].field} :
           stored' = [stored EXCEPT ![k] = Upkeep!Row(field, @.data + 1, @.ver + 1, @.born)]
    BY <1>1 DEF Upkeep!ServerSets
  <2> DEFINE row == Upkeep!Row(field, stored[k].data + 1, stored[k].ver + 1, stored[k].born)
  <2>2. stored[k] # Gone /\ Upkeep!Serves /\ stored[k] \in Upkeep!RowType
    BY <1>0, <1>1 DEF Upkeep!ServerSets
  <2>3. /\ row \in Upkeep!RowType /\ row.born = stored[k].born /\ row.ver = stored[k].ver + 1
        /\ row.field = field
    BY <2>2 DEF Upkeep!RowType, Upkeep!Row
  <2>4. stored' = [stored EXCEPT ![k] = row]
    BY <2>1
  <2> HIDE DEF row
  <2> QED
    BY <2>2, <2>3, <2>4, ServerKeeps
<1>2. CASE Upkeep!ServerDeletes(k)
  BY <1>2, ServerKeeps DEF Upkeep!ServerDeletes
<1>3. CASE Upkeep!ServerCreates(k)
  <2>1. PICK field \in {"missing", "theirs"} :
           stored' = [stored EXCEPT ![k] = Upkeep!Row(field, 0, 1, writes')]
    BY <1>3 DEF Upkeep!ServerCreates
  <2> DEFINE row == Upkeep!Row(field, 0, 1, writes + 1)
  <2>2. stored[k] = Gone /\ Upkeep!Serves /\ writes' = writes + 1
    BY <1>3 DEF Upkeep!ServerCreates, Upkeep!Serves
  <2>3. /\ row \in Upkeep!RowType /\ row.born = writes + 1 /\ row.field = field
    BY <1>0 DEF Upkeep!RowType, Upkeep!Row
  <2>4. stored' = [stored EXCEPT ![k] = row]
    BY <2>1, <2>2
  <2> HIDE DEF row
  <2> QED
    BY <2>2, <2>3, <2>4, ServerKeeps
<1> QED
  BY <1>1, <1>2, <1>3

LEMMA UpkeepStep ==
  ASSUME UpkeepInv, [MCNext]_allVars
  PROVE  UpkeepInv'
<1>1. CASE UNCHANGED upkeepVars
  BY <1>1 DEF upkeepVars, UpkeepInv, UpkeepTypes, HandIsTrue, PendingIsAhead,
      BackupsOwn,
     Upkeep!Owners
<1>2. CASE Upkeep!MaintenanceNext
  <2>1. ASSUME NEW k \in RowKeys, Upkeep!ReRead(k) PROVE UpkeepInv'
    BY <2>1, ReReadKeeps
  <2>2. ASSUME NEW k \in RowKeys,
               Upkeep!ServerSets(k) \/ Upkeep!ServerDeletes(k) \/ Upkeep!ServerCreates(k)
        PROVE  UpkeepInv'
    BY <2>2, ServerStepKeeps
  <2>3. CASE Upkeep!PersistFails
    BY <2>3, OverKeeps DEF Upkeep!PersistFails
  <2>4. CASE Upkeep!Killed
    BY <2>4, OverKeeps DEF Upkeep!Killed
  <2> QED
    BY <1>2, <2>1, <2>2, <2>3, <2>4, ScanKeeps, SkipKeeps, PersistKeeps,
        FinishKeeps, BackupKeeps
       DEF Upkeep!MaintenanceNext
<1> QED
  BY <1>1, <1>2 DEF MCNext, RowsNext, ClaimsNext, UpkeepNext, allVars

LEMMA UpkeepStart == MCInit => UpkeepInv
<1> SUFFICES ASSUME MCInit PROVE UpkeepInv
  OBVIOUS
<1>1. /\ stored = [k \in RowKeys |-> Upkeep!Row("missing", 0, 1, 0)]
      /\ writes = 0 /\ step = "start" /\ candidates = {} /\ current = Gone
      /\ pending = << >> /\ counts = [found |-> 0, updated |-> 0]
      /\ copying = [b \in Backups |-> "start"] /\ out = NoFile
  BY DEF MCInit, Upkeep!Init
<1>2. DOMAIN pending = {}
  BY <1>1, NothingPending
<1>3. Upkeep!Row("missing", 0, 1, 0) \in Upkeep!RowType
  BY DEF Upkeep!RowType, Upkeep!Row
<1>4. \A k \in RowKeys : stored[k].born = 0 /\ stored[k].field = "missing"
  BY <1>1 DEF Upkeep!Row
<1>5. UpkeepTypes
  BY <1>1, <1>2, <1>3, <1>4 DEF UpkeepTypes
<1>6. HandIsTrue /\ PendingIsAhead
  BY <1>1, <1>2 DEF HandIsTrue, PendingIsAhead
<1>7. Upkeep!Owners = {}
  BY <1>1 DEF Upkeep!Owners
<1>8. BackupsOwn
  BY <1>1, <1>4, <1>7 DEF BackupsOwn
<1> QED
  BY <1>5, <1>6, <1>8 DEF UpkeepInv

-----------------------------------------------------------------------------
(* What it comes to.                                                        *)

LEMMA MigrationStepKeeps ==
  ASSUME UpkeepInv, [MCNext]_allVars
  PROVE  Upkeep!MigrationKeeps
<1> SUFFICES ASSUME NEW k \in RowKeys, stored[k] # Gone, stored'[k] # Gone,
                    stored'[k].born = stored[k].born
             PROVE  /\ stored'[k].data >= stored[k].data
                    /\ stored[k].field = "theirs" => stored'[k].field = "theirs"
  BY DEF Upkeep!MigrationKeeps
<1>1. stored \in [RowKeys -> Upkeep!RowType \cup {Gone}] /\ stored[k].data \in Nat
  BY DEF UpkeepInv, UpkeepTypes, Upkeep!RowType
<1>2. CASE UNCHANGED stored
  BY <1>1, <1>2
<1>3. ASSUME NEW j \in RowKeys, Upkeep!ServerSets(j)
      PROVE  /\ stored'[k].data >= stored[k].data
             /\ stored[k].field = "theirs" => stored'[k].field = "theirs"
  <2>1. PICK field \in {"theirs", stored[j].field} :
           stored' = [stored EXCEPT ![j] = Upkeep!Row(field, @.data + 1, @.ver + 1, @.born)]
    BY <1>3 DEF Upkeep!ServerSets
  <2>2. CASE j = k
    <3>1. stored'[k] = Upkeep!Row(field, stored[k].data + 1, stored[k].ver + 1, stored[k].born)
      BY <1>1, <2>1, <2>2
    <3>2. stored'[k].data = stored[k].data + 1 /\ stored'[k].field = field
      BY <3>1 DEF Upkeep!Row
    <3> QED
      BY <1>1, <2>2, <3>2
  <2>3. CASE j # k
    BY <1>1, <2>1, <2>3
  <2> QED
    BY <2>2, <2>3
<1>4. ASSUME NEW j \in RowKeys, Upkeep!ServerDeletes(j) \/ Upkeep!ServerCreates(j)
      PROVE  stored'[k] = stored[k]
  <2>1. j # k /\ \E row : stored' = [stored EXCEPT ![j] = row]
    <3>1. CASE Upkeep!ServerDeletes(j)
      BY <1>1, <3>1 DEF Upkeep!ServerDeletes
    <3>2. CASE Upkeep!ServerCreates(j)
      BY <3>2 DEF Upkeep!ServerCreates
    <3> QED
      BY <1>4, <3>1, <3>2
  <2> QED
    BY <1>1, <2>1
<1>5. CASE Upkeep!Finish
  <2>1. CASE counts.updated = 0
    BY <1>2, <1>5, <2>1 DEF Upkeep!Finish
  <2>2. CASE counts.updated # 0
    <3>1. stored'[k] = IF k \in DOMAIN pending THEN pending[k] ELSE stored[k]
      BY <1>5, <2>2, CommitWrites
    <3> QED
      BY <1>1, <3>1 DEF UpkeepInv, PendingIsAhead
  <2> QED
    BY <2>1, <2>2
<1>6. CASE Upkeep!MaintenanceNext
  <2>1. \/ UNCHANGED stored \/ Upkeep!Finish
        \/ \E j \in RowKeys : Upkeep!ServerSets(j) \/ Upkeep!ServerDeletes(j) \/ Upkeep!ServerCreates(j)
    BY <1>6 DEF Upkeep!MaintenanceNext, Upkeep!ReRead, Upkeep!Scan, Upkeep!Skip,
        Upkeep!Persist,
       Upkeep!PersistFails, Upkeep!Killed, Upkeep!CreateOut, Upkeep!Copy, Upkeep!CopyFails
  <2> QED
    BY <1>1, <1>2, <1>3, <1>4, <1>5, <2>1
<1> QED
  BY <1>2, <1>6 DEF MCNext, RowsNext, ClaimsNext, UpkeepNext, allVars, upkeepVars

LEMMA EffectIsSeen ==
  ASSUME UpkeepInv, [MCNext]_allVars
  PROVE  Upkeep!EffectIsReported
<1> SUFFICES ASSUME step # step' PROVE (step' = "committed") <=> (stored' # stored)
  BY DEF Upkeep!EffectIsReported
<1>1. CASE Upkeep!Finish /\ counts.updated # 0
  <2>1. /\ step' = "committed" /\ DOMAIN pending # {}
        /\ \A k \in RowKeys : stored'[k] = IF k \in DOMAIN pending THEN pending[k] ELSE stored[k]
    BY <1>1, CommitWrites
  <2>2. PICK k \in DOMAIN pending : TRUE
    BY <2>1
  <2>3. /\ k \in RowKeys /\ pending[k].ver = stored[k].ver + 1
        /\ stored[k] \in Upkeep!RowType
    BY DEF UpkeepInv, UpkeepTypes, PendingIsAhead
  <2>4. stored[k].ver \in Nat
    BY <2>3 DEF Upkeep!RowType
  <2>5. stored'[k] # stored[k]
    BY <2>1, <2>3, <2>4
  <2> QED
    BY <2>1, <2>5
<1>2. CASE ~(Upkeep!Finish /\ counts.updated # 0)
  <2>1. Upkeep!MaintenanceNext
    BY DEF MCNext, RowsNext, ClaimsNext, UpkeepNext, allVars, upkeepVars
  <2>2. stored' = stored /\ step' \in {"reported", "rows", "rolled back", "killed"}
    BY <1>2, <2>1 DEF Upkeep!MaintenanceNext, Upkeep!ReRead, Upkeep!Scan,
        Upkeep!Skip,
       Upkeep!Persist, Upkeep!PersistFails, Upkeep!Killed, Upkeep!CreateOut, Upkeep!Copy,
       Upkeep!CopyFails, Upkeep!Finish, Upkeep!Over, Upkeep!ServerSets, Upkeep!ServerDeletes,
       Upkeep!ServerCreates, Upkeep!Serves, Upkeep!migrationVars
  <2> QED
    BY <2>2
<1> QED
  BY <1>1, <1>2

LEMMA BackupsWhole ==
  ASSUME UpkeepInv
  PROVE  Upkeep!BackupsAreWhole
<1>1. Upkeep!Cardinality(Upkeep!Owners) <= 1
  <2>1. CASE Upkeep!Owners = {}
    BY <2>1, FS_EmptySet, CardinalityInUpkeep
  <2>2. ASSUME NEW b \in Upkeep!Owners PROVE Upkeep!Cardinality(Upkeep!Owners) <= 1
    <3>1. Upkeep!Owners = {b}
      BY DEF UpkeepInv, BackupsOwn
    <3> QED
      BY <3>1, FS_Singleton, CardinalityInUpkeep
  <2> QED
    BY <2>1, <2>2
<1>2. \A b \in Upkeep!Owners : copying[b] = "copied" =>
        /\ out \notin {NoFile, Partial}
        /\ (\E k \in RowKeys : out[k] # Gone /\ out[k].field = "ours") => step = "committed"
  BY GoneIsNoRow DEF UpkeepInv, BackupsOwn, Upkeep!Owners
<1> QED
  BY <1>1, <1>2 DEF Upkeep!BackupsAreWhole

(* `lnpl migrate` and `lnpl db backup` beside a live server: while a row is *)
(* the same row no step takes away what the server wrote to it, only the    *)
(* migration's commit changes the store and it does change it, and the file *)
(* a backup reported is whole and of one moment.                            *)
THEOREM MaintenanceStaysSafe == MCSpec => MaintenanceIsSafe
<1>1. UpkeepInv /\ [MCNext]_allVars => UpkeepInv'
  BY UpkeepStep
<1>2. UpkeepInv /\ [MCNext]_allVars => [Upkeep!MigrationKeeps /\ Upkeep!EffectIsReported]_allVars
  BY MigrationStepKeeps, EffectIsSeen
<1>3. UpkeepInv => Upkeep!BackupsAreWhole
  BY BackupsWhole
<1> QED
  BY UpkeepStart, <1>1, <1>2, <1>3, PTL DEF MCSpec, MaintenanceIsSafe
=============================================================================
