----------------------------- MODULE MCDatabase -----------------------------
(* What connections do to one database file: the transactions of runs on the *)
(* rows and the outbox (extended), the claims on idempotency keys, and the   *)
(* migration and the backup of a live store (instantiated).  The claims live *)
(* in a table of their own and carry the run's writes as one fact; the       *)
(* maintenance carries a transaction of the server as one step.  The three   *)
(* have no state in common and a behaviour is one of them.                   *)
EXTENDS MCSqliteRepository

CONSTANTS Requests, Events, TTL, MaxTime, Wal, NoClaim, NoAnswer,
          RowKeys, Backups, MaxWrites, Gone, NoFile, Partial

VARIABLES which,
          claim, now, reqPc, stamp, since, tx, outcome, applied, answer, ousted,
          stored, writes, step, candidates, current, pending, counts, copying, out

claimVars == <<claim, now, reqPc, stamp, since, tx, outcome, applied, answer, ousted>>

Claims == INSTANCE IdempotentRequest WITH pc <- reqPc

upkeepVars == <<stored, writes, step, candidates, current, pending, counts, copying, out>>

Upkeep == INSTANCE Maintenance

ASSUME DatabaseAssumption == Claims!RequestAssumption /\ Upkeep!MaintenanceAssumption

MCInit == Init /\ Claims!Init /\ Upkeep!Init /\ which \in {"rows", "claims", "upkeep"}

RowsNext == which = "rows" /\ Next /\ UNCHANGED <<which, claimVars, upkeepVars>>
ClaimsNext == which = "claims" /\ Claims!Next /\ UNCHANGED <<which, vars, upkeepVars>>
UpkeepNext == which = "upkeep" /\ Upkeep!MaintenanceNext /\ UNCHANGED <<which, vars, claimVars>>

MCNext == RowsNext \/ ClaimsNext \/ UpkeepNext

allVars == <<which, vars, claimVars, upkeepVars>>

MCSpec == MCInit /\ [][MCNext]_allVars

(* Runs are interchangeable, and so are requests on the same route.          *)
MCSymmetry == Permutations(Runs) \cup Permutations(Events) \cup Permutations(Requests \ Events)

(* IdempotentRequest: of two runs of one key that take effect, one was       *)
(* claimed when the other's window was over.                                 *)
OncePerWindow == Claims!OncePerWindow

(* IdempotentRequest: an answer says what became of the run it is about.     *)
TruthfulAnswers == Claims!TruthfulAnswers

(* IdempotentRequest: an orderly answer leaves no key blocked.               *)
NoStuckClaim == Claims!NoStuckClaim

(* Maintenance: the migration and the backup take nothing from a live server. *)
MaintenanceIsSafe ==
  /\ [][Upkeep!MigrationKeeps /\ Upkeep!EffectIsReported]_allVars
  /\ []Upkeep!BackupsAreWhole

(* Maintenance: the claim of migrate.py about values that are there.          *)
NeverOverwritten == [][Upkeep!KeepsTheirs]_allVars
=============================================================================
