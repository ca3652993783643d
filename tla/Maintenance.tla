--------------------------- MODULE Maintenance ---------------------------
(***************************************************************************)
(* `lnpl migrate` and `lnpl db backup` on a store that a live server       *)
(* writes (migrate.py, sqlite_backup.py).  The migration backfills one     *)
(* field on every row that lacks it: it scans before any transaction, and  *)
(* then re-reads and persists one row after another in a transaction whose *)
(* BEGIN is issued by the first write.  The backup copies the committed    *)
(* store to a new file.                                                    *)
(*                                                                         *)
(* A transaction of the server is one step here (SqliteRepository has the  *)
(* steps of those); it needs the write lock, which the migration holds     *)
(* from its first write on.                                                *)
(***************************************************************************)
EXTENDS Naturals, FiniteSets

CONSTANTS
  RowKeys,
  Backups,         \* runs of `lnpl db backup`, all to one --out
  MaxWrites,       \* bound: the server's transactions
  Gone,            \* no row
  NoFile, Partial  \* no file; the file before it holds a copy

(* A row: who set the field, the count of the server's writes to it, its     *)
(* version, and (history) the transaction that created it.  A create inserts *)
(* version 0 and the same run's first persist makes it 1.                    *)
RowType == [field : {"missing", "theirs", "ours"}, data : Nat, ver : Nat, born : Nat]

MaintenanceAssumption ==
  /\ MaxWrites \in Nat
  /\ NoFile # Partial /\ Gone \notin {NoFile, Partial} \cup RowType
  /\ \A file \in {NoFile, Partial} : file \notin [RowKeys -> RowType \cup {Gone}]

VARIABLES
  stored,          \* key -> the committed row, Gone when there is none
  writes,          \* the server's transactions so far
  step,            \* where the migration is
  candidates,      \* keys of the rows it has still to look at
  current,         \* the row it re-read, Gone when it has none
  pending,         \* its uncommitted rows: a function on the keys it wrote
  counts,          \* rows it found lacking the field, and rows it wrote
  copying,         \* backup -> where it is
  out              \* the file at --out: NoFile, Partial, or the rows it has

migrationVars == <<step, candidates, current, pending, counts>>
backupVars == <<copying, out>>
maintenanceVars == <<stored, writes, migrationVars, backupVars>>

Row(field, data, ver, born) == [field |-> field, data |-> data, ver |-> ver, born |-> born]

Init ==
  /\ stored = [k \in RowKeys |-> Row("missing", 0, 1, 0)]
  /\ writes = 0
  /\ step = "start" /\ candidates = {} /\ current = Gone /\ pending = << >>
  /\ counts = [found |-> 0, updated |-> 0]
  /\ copying = [b \in Backups |-> "start"] /\ out = NoFile

---------------------------------------------------------------------------
(* The server. *)

Locked == DOMAIN pending # {}

Serves == /\ writes < MaxWrites /\ writes' = writes + 1 /\ ~Locked
          /\ UNCHANGED <<migrationVars, backupVars>>

(* A workflow sets the field, or another one; deletes the row; creates it.  *)
ServerSets(k) ==
  /\ Serves /\ stored[k] # Gone
  /\ \E field \in {"theirs", stored[k].field} :
       stored' = [stored EXCEPT ![k] = Row(field, @.data + 1, @.ver + 1, @.born)]

ServerDeletes(k) == Serves /\ stored[k] # Gone /\ stored' = [stored EXCEPT ![k] = Gone]

ServerCreates(k) ==
  /\ Serves /\ stored[k] = Gone
  /\ \E field \in {"missing", "theirs"} :
       stored' = [stored EXCEPT ![k] = Row(field, 0, 1, writes')]

---------------------------------------------------------------------------
(* run_migration. *)

(* What the migration's own connection sees. *)
Seen(k) == IF k \in DOMAIN pending THEN pending[k] ELSE stored[k]

Over(outcome) == /\ step' = outcome /\ candidates' = {} /\ current' = Gone
                 /\ pending' = << >> /\ UNCHANGED <<writes, counts, backupVars>>

(* The scan; a dry run only reports it. *)
Scan ==
  /\ step = "start"
  /\ candidates' = {k \in RowKeys : stored[k] # Gone /\ stored[k].field = "missing"}
  /\ counts' = [counts EXCEPT !.found = Cardinality(candidates')]
  /\ step' \in IF candidates' = {} THEN {"reported"} ELSE {"reported", "rows"}
  /\ UNCHANGED <<stored, writes, current, pending, backupVars>>

(* The row is read again, under the key it derives or under its own id; a   *)
(* row that is there under neither aborts the batch.                        *)
ReRead(k) ==
  /\ step = "rows" /\ current = Gone /\ k \in candidates
  /\ IF Seen(k) = Gone THEN Over("rolled back") /\ UNCHANGED stored
     ELSE /\ current' = [key |-> k, row |-> Seen(k)]
          /\ UNCHANGED <<stored, writes, step, candidates, pending, counts, backupVars>>

(* Another writer came first. *)
Skip ==
  /\ step = "rows" /\ current # Gone /\ current.row.field # "missing"
  /\ candidates' = candidates \ {current.key} /\ current' = Gone
  /\ UNCHANGED <<stored, writes, step, pending, counts, backupVars>>

(* Mutant: the update is not conditional. *)
VersionHoldsAnyway(k) == Seen(k) # Gone

(* The version that was read is the one that would be replaced.             *)
VersionHolds(k) == Seen(k) # Gone /\ Seen(k).ver = current.row.ver

Persist ==
  /\ step = "rows" /\ current # Gone /\ current.row.field = "missing"
  /\ LET k == current.key
     IN  /\ VersionHolds(k)
         /\ pending' = [key \in DOMAIN pending \cup {k} |->
                          IF key = k
                          THEN Row("ours", current.row.data, current.row.ver + 1,
                                   current.row.born)
                          ELSE pending[key]]
         /\ candidates' = candidates \ {k} /\ current' = Gone
  /\ counts' = [counts EXCEPT !.updated = @ + 1]
  /\ UNCHANGED <<stored, writes, step, backupVars>>

(* The batch fails: another version, or the lock could not be had.          *)
PersistFails ==
  /\ step = "rows" /\ current # Gone /\ current.row.field = "missing"
  /\ ~VersionHolds(current.key) \/ ~Locked
  /\ Over("rolled back") /\ UNCHANGED stored

(* A run that wrote nothing does not report success.                        *)
Finish ==
  /\ step = "rows" /\ candidates = {} /\ current = Gone
  /\ IF counts.updated = 0 THEN UNCHANGED stored /\ Over("rolled back")
     ELSE stored' = [k \in RowKeys |-> Seen(k)] /\ Over("committed")

(* The process dies, or its commit is refused: the connection closes. *)
Killed == step = "rows" /\ UNCHANGED stored /\ Over("killed")

---------------------------------------------------------------------------
(* backup_sqlite. *)

(* O_CREAT with O_EXCL; what is refused leaves the file alone. *)
CreateOut(b) ==
  /\ copying[b] = "start"
  /\ IF out = NoFile
     THEN copying' = [copying EXCEPT ![b] = "created"] /\ out' = Partial
     ELSE copying' = [copying EXCEPT ![b] = "refused"] /\ UNCHANGED out
  /\ UNCHANGED <<stored, writes, migrationVars>>

(* `.backup`: the committed rows, and none of a transaction's. *)
Copy(b) ==
  /\ copying[b] = "created" /\ copying' = [copying EXCEPT ![b] = "copied"]
  /\ out' = stored
  /\ UNCHANGED <<stored, writes, migrationVars>>

(* sqlite fails: the partial copy is removed. *)
CopyFails(b) ==
  /\ copying[b] = "created" /\ copying' = [copying EXCEPT ![b] = "failed"]
  /\ out' = NoFile
  /\ UNCHANGED <<stored, writes, migrationVars>>

MaintenanceNext ==
  \/ \E k \in RowKeys : ServerSets(k) \/ ServerDeletes(k) \/ ServerCreates(k) \/ ReRead(k)
  \/ Scan \/ Skip \/ Persist \/ PersistFails \/ Finish \/ Killed
  \/ \E b \in Backups : CreateOut(b) \/ Copy(b) \/ CopyFails(b)

MaintenanceSpec == Init /\ [][MaintenanceNext]_maintenanceVars

---------------------------------------------------------------------------
(* While the server does not replace a row, no step of the migration takes   *)
(* away what it wrote: its data stays and a field it set keeps its value     *)
(* (expand semantics and the versioned persist of run_migration).            *)
MigrationKeeps ==
  \A k \in RowKeys :
    stored[k] # Gone /\ stored'[k] # Gone /\ stored'[k].born = stored[k].born =>
      /\ stored'[k].data >= stored[k].data
      /\ stored[k].field = "theirs" => stored'[k].field = "theirs"

(* Only its commit changes the store, and it changes it (#179 of             *)
(* run_migration: no success with zero effect).                              *)
EffectIsReported ==
  step # step' => ((step' = "committed") <=> (stored' # stored))

(* No two backups own --out, and a copy that was reported is there, whole    *)
(* and of a single moment: it has all the rows of the migration or none      *)
(* (O_EXCL and `.backup` of backup_sqlite).                                  *)
Owners == {b \in Backups : copying[b] \in {"created", "copied"}}

BackupsAreWhole ==
  /\ Cardinality(Owners) <= 1
  /\ \A b \in Owners : copying[b] = "copied" =>
       /\ out \notin {NoFile, Partial}
       /\ (\E k \in RowKeys : out[k] # Gone /\ out[k].field = "ours") => step = "committed"

(* A field that a row has is never overwritten by the migration, whoever set *)
(* it and whenever (migrate.py:4, "an existing value is never overwritten"). *)
KeepsTheirs ==
  \A k \in RowKeys : stored[k] # Gone /\ stored[k].field = "theirs" /\ stored'[k] # Gone =>
    stored'[k].field = "theirs"

NeverOverwritten == [][KeepsTheirs]_maintenanceVars

============================================================================
