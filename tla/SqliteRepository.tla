-------------------------- MODULE SqliteRepository --------------------------
(***************************************************************************)
(* Concurrent workflow runs over one sqlite store (drivers.py, class       *)
(* SqliteRepositoryDriver, driven by Interpreter.run_workflow).            *)
(*                                                                         *)
(* Every run has a connection of its own.  begin() opens no SQL            *)
(* transaction: the BEGIN is issued by the first write, so earlier reads   *)
(* see the latest commit.  From its first write to its commit or rollback  *)
(* a run holds sqlite's single write lock and works on its own view of the *)
(* store.  A write that cannot get the lock within busy_timeout fails with *)
(* "database is locked", with the BEGIN already issued: the next read then *)
(* pins a snapshot, and a write on a snapshot that is no longer the latest *)
(* is refused at once.                                                     *)
(*                                                                         *)
(* The payload of a row is abstracted to the set of runs whose assignments *)
(* it carries: that is all that lost updates and dirty data tell apart.    *)
(***************************************************************************)
EXTENDS Integers, Sequences

CONSTANTS
    Runs,       \* executions; each opens a fresh connection and is run once
    Keys,       \* row keys of one entity
    Seeded,     \* keys that hold a row before the first run
    Ops,        \* the operations the deployed workflows use
    MaxOps,     \* bound: effects one run executes, retried ones included
    NoRow, NoRun, NoTouch

AllOps == {"read", "query", "set", "create", "update", "delete", "emit"}

Row == [by : SUBSET Runs, ver : Nat]

ASSUME RepositoryAssumption ==
    /\ Seeded \subseteq Keys
    /\ Ops \subseteq AllOps
    /\ MaxOps \in Nat
    /\ NoRow \notin Row
    /\ \A s \in SUBSET Runs : NoRow # s
    /\ NoRun \notin Runs
    /\ NoTouch \notin [key : Keys, row : Row \cup {NoRow}]

VARIABLES
    rows, outbox, gen,          \* the committed store and its commit count
    lock,                       \* the run that holds sqlite's write lock
    pc,                         \* run -> where the execution is
    sql,                        \* run -> the state of its SQL transaction
    vrows, voutbox, vgen,       \* run -> its snapshot or uncommitted view
    bound,                      \* run -> key -> row object a read bound
    made,                       \* run -> keys its `create ... as` rows live under
    touch,                      \* run -> the row _touch read and will rewrite
    owed,                       \* run -> effects the retried step must complete
    assigned, deleted,          \* run -> keys it assigned to / deleted (repo_ops)
    emitted,                    \* run -> number of emissions it registered
    left                        \* run -> effects it may still execute

store == <<rows, outbox, gen>>
conn  == <<lock, sql, vrows, voutbox, vgen>>
audit == <<assigned, deleted, emitted>>
vars  == <<store, conn, pc, bound, made, touch, owed, audit, left>>

NoView  == [k \in Keys |-> NoRow]
Ended   == {"committed", "rolledback", "crashed"}
Running == {"running", "erring", "failing"}

Init ==
    /\ rows = [k \in Keys |->
                 IF k \in Seeded THEN [by |-> {}, ver |-> 0] ELSE NoRow]
    /\ outbox = <<>>
    /\ gen = 0
    /\ lock = NoRun
    /\ pc = [r \in Runs |-> "idle"]
    /\ sql = [r \in Runs |-> "none"]
    /\ vrows = [r \in Runs |-> NoView]
    /\ voutbox = [r \in Runs |-> <<>>]
    /\ vgen = [r \in Runs |-> 0]
    /\ bound = [r \in Runs |-> NoView]
    /\ made = [r \in Runs |-> {}]
    /\ touch = [r \in Runs |-> NoTouch]
    /\ owed = [r \in Runs |-> {}]
    /\ assigned = [r \in Runs |-> {}]
    /\ deleted = [r \in Runs |-> {}]
    /\ emitted = [r \in Runs |-> 0]
    /\ left = [r \in Runs |-> MaxOps]

-----------------------------------------------------------------------------
(* The connection: what a statement of run r sees, and when it may write.  *)

InView(r) == sql[r] \in {"pinned", "writing"}

SeenRows(r) == IF InView(r) THEN vrows[r] ELSE rows

SeenOutbox(r) == IF InView(r) THEN voutbox[r] ELSE outbox

(* A SELECT after a BEGIN whose first write was refused pins the snapshot. *)
SelectStatement(r) ==
    IF sql[r] = "begun"
    THEN /\ sql' = [sql EXCEPT ![r] = "pinned"]
         /\ vrows' = [vrows EXCEPT ![r] = rows]
         /\ voutbox' = [voutbox EXCEPT ![r] = outbox]
         /\ vgen' = [vgen EXCEPT ![r] = gen]
         /\ UNCHANGED lock
    ELSE UNCHANGED conn

CanWrite(r) ==
    \/ sql[r] = "writing"
    \/ sql[r] \in {"none", "begun"} /\ lock = NoRun
    \/ sql[r] = "pinned" /\ lock = NoRun /\ vgen[r] = gen

(* _ensure_sql_transaction and the statement behind it, when it executes:  *)
(* the lock is held from here on, whether or not a row matched.             *)
WriteStatement(r, newRows, newOutbox) ==
    /\ CanWrite(r)
    /\ lock' = r
    /\ sql' = [sql EXCEPT ![r] = "writing"]
    /\ vrows' = [vrows EXCEPT ![r] = newRows]
    /\ voutbox' = [voutbox EXCEPT ![r] = newOutbox]
    /\ vgen' = [vgen EXCEPT ![r] = gen]

(* The same, refused: "database is locked", the BEGIN stays open.           *)
WriteRefused(r) ==
    /\ ~ CanWrite(r)
    /\ sql' = [sql EXCEPT ![r] = IF @ = "none" THEN "begun" ELSE @]
    /\ UNCHANGED <<lock, vrows, voutbox, vgen>>

-----------------------------------------------------------------------------
(* The run: an effect is executed and the run goes on, or it raises and    *)
(* the step is decided by _retryable.                                       *)

Executes(r, op) ==
    /\ op \in Ops
    /\ pc[r] = "running"
    /\ left[r] > 0
    /\ touch[r] = NoTouch
    /\ left' = [left EXCEPT ![r] = @ - 1]

Completes(r, op, k) ==
    /\ owed' = [owed EXCEPT ![r] = @ \ {<<op, k>>}]
    /\ UNCHANGED pc

(* An idempotent effect raised: the step may be executed again.             *)
Raises(r, op, k) ==
    /\ pc' = [pc EXCEPT ![r] = "erring"]
    /\ owed' = [owed EXCEPT ![r] = @ \cup {<<op, k>>}]

(* A create or an emit raised: the step is never executed again.            *)
RaisesForGood(r) ==
    /\ pc' = [pc EXCEPT ![r] = "failing"]
    /\ UNCHANGED owed

Begin(r) ==
    /\ pc[r] = "idle"
    /\ pc' = [pc EXCEPT ![r] = "running"]
    /\ UNCHANGED <<store, conn, bound, made, touch, owed, audit, left>>

(* `find`: the row object is registered in _bound_rows and bound.           *)
Read(r, k) ==
    /\ Executes(r, "read")
    /\ SelectStatement(r)
    /\ IF SeenRows(r)[k] = NoRow
       THEN Raises(r, "read", k) /\ UNCHANGED bound
       ELSE /\ bound' = [bound EXCEPT ![r][k] = SeenRows(r)[k]]
            /\ Completes(r, "read", k)
    /\ UNCHANGED <<store, made, touch, audit>>

(* `list`: rows without versions, bound to a RowSet no write goes through.  *)
Query(r) ==
    /\ Executes(r, "query")
    /\ SelectStatement(r)
    /\ UNCHANGED <<store, pc, bound, made, touch, owed, audit>>

(* Mutant: the UPDATE's row count is not looked at.                         *)
VersionMatchesAnything(r, k) == SeenRows(r)[k] # NoRow

VersionMatches(r, k) ==
    SeenRows(r)[k] # NoRow /\ SeenRows(r)[k].ver = bound[r][k].ver

(* `set` on a row a read bound.  The bound object is changed first, then   *)
(* persisted by an UPDATE that names the version the object observed.       *)
Assigned(r, k) == bound[r][k].by \cup {r}

SetExecutes(r, k) ==
    /\ Executes(r, "set")
    /\ bound[r][k] # NoRow
    /\ assigned' = [assigned EXCEPT ![r] = @ \cup {k}]
    /\ UNCHANGED <<store, made, touch, deleted, emitted>>

SetLands(r, k) ==
    /\ SetExecutes(r, k)
    /\ VersionMatches(r, k)
    /\ LET row == [by |-> Assigned(r, k), ver |-> bound[r][k].ver + 1]
       IN  /\ WriteStatement(r, [SeenRows(r) EXCEPT ![k] = row], SeenOutbox(r))
           /\ bound' = [bound EXCEPT ![r][k] = row]
    /\ Completes(r, "set", k)

(* Mutant: a conditional UPDATE that matched no row is taken as success.    *)
SetConflictsSilently(r, k) ==
    /\ SetExecutes(r, k)
    /\ ~ VersionMatches(r, k)
    /\ WriteStatement(r, SeenRows(r), SeenOutbox(r))
    /\ bound' = [bound EXCEPT ![r][k].by = Assigned(r, k)]
    /\ Completes(r, "set", k)

SetConflicts(r, k) ==
    /\ SetExecutes(r, k)
    /\ ~ VersionMatches(r, k)
    /\ WriteStatement(r, SeenRows(r), SeenOutbox(r))
    /\ bound' = [bound EXCEPT ![r][k].by = Assigned(r, k)]
    /\ Raises(r, "set", k)

SetRefused(r, k) ==
    /\ SetExecutes(r, k)
    /\ WriteRefused(r)
    /\ bound' = [bound EXCEPT ![r][k].by = Assigned(r, k)]
    /\ Raises(r, "set", k)

(* `create ... as`: the INSERT and the UPDATE that seeds the row from the  *)
(* payload, which finds the lock already held.                              *)
CreateExecutes(r) ==
    /\ Executes(r, "create")
    /\ owed[r] = {}
    /\ UNCHANGED <<store, bound, touch, audit>>

CreateLands(r, k) ==
    /\ CreateExecutes(r)
    /\ SeenRows(r)[k] = NoRow
    /\ WriteStatement(r, [SeenRows(r) EXCEPT ![k] = [by |-> {r}, ver |-> 1]],
                      SeenOutbox(r))
    /\ made' = [made EXCEPT ![r] = @ \cup {k}]
    /\ Completes(r, "create", k)

CreateConflicts(r, k) ==
    /\ CreateExecutes(r)
    /\ SeenRows(r)[k] # NoRow
    /\ WriteStatement(r, SeenRows(r), SeenOutbox(r))
    /\ RaisesForGood(r)
    /\ UNCHANGED made

CreateRefused(r, k) ==
    /\ CreateExecutes(r)
    /\ WriteRefused(r)
    /\ RaisesForGood(r)
    /\ UNCHANGED made

(* `set` on a row `create ... as` bound: that object carries no version,   *)
(* so the UPDATE is unconditional and its row count is not looked at.       *)
SetCreated(r, k) ==
    /\ Executes(r, "set")
    /\ k \in made[r]
    /\ WriteStatement(r,
         IF SeenRows(r)[k] = NoRow THEN SeenRows(r)
         ELSE [SeenRows(r) EXCEPT ![k] = [by |-> {r}, ver |-> @.ver + 1]],
         SeenOutbox(r))
    /\ Completes(r, "set", k)
    /\ UNCHANGED <<store, bound, made, touch, audit>>

(* `update`: _touch reads the row in one statement ...                      *)
TouchRead(r, k) ==
    /\ Executes(r, "update")
    /\ SelectStatement(r)
    /\ touch' = [touch EXCEPT ![r] = [key |-> k, row |-> SeenRows(r)[k]]]
    /\ UNCHANGED <<store, pc, bound, made, owed, audit>>

(* ... and rewrites it in the next, with no version in the WHERE; a row the *)
(* run has bound under this key is advanced with it.                        *)
Touching(r) ==
    /\ pc[r] = "running"
    /\ touch[r] # NoTouch
    /\ touch' = [touch EXCEPT ![r] = NoTouch]
    /\ UNCHANGED <<store, made, audit, left>>

TouchedBy(r) == IF touch[r].row = NoRow THEN {} ELSE touch[r].row.by

TouchLands(r) ==
    /\ Touching(r)
    /\ LET k == touch[r].key
           row == SeenRows(r)[k]
       IN  /\ row # NoRow
           /\ WriteStatement(r, [SeenRows(r) EXCEPT
                                   ![k] = [by |-> TouchedBy(r),
                                           ver |-> row.ver + 1]],
                             SeenOutbox(r))
           /\ bound' = IF bound[r][k] = NoRow THEN bound
                       ELSE [bound EXCEPT ![r][k].ver = @ + 1]
           /\ Completes(r, "update", k)

TouchMissing(r) ==
    /\ Touching(r)
    /\ SeenRows(r)[touch[r].key] = NoRow
    /\ WriteStatement(r, SeenRows(r), SeenOutbox(r))
    /\ Raises(r, "update", touch[r].key)
    /\ UNCHANGED bound

TouchRefused(r) ==
    /\ Touching(r)
    /\ WriteRefused(r)
    /\ Raises(r, "update", touch[r].key)
    /\ UNCHANGED bound

(* `delete`: one statement; no row is a not-found failure.                  *)
DeleteExecutes(r, k) ==
    /\ Executes(r, "delete")
    /\ deleted' = [deleted EXCEPT ![r] = @ \cup {k}]
    /\ UNCHANGED <<store, bound, made, touch, assigned, emitted>>

DeleteLands(r, k) ==
    /\ DeleteExecutes(r, k)
    /\ SeenRows(r)[k] # NoRow
    /\ WriteStatement(r, [SeenRows(r) EXCEPT ![k] = NoRow], SeenOutbox(r))
    /\ Completes(r, "delete", k)

DeleteMissing(r, k) ==
    /\ DeleteExecutes(r, k)
    /\ SeenRows(r)[k] = NoRow
    /\ WriteStatement(r, SeenRows(r), SeenOutbox(r))
    /\ Raises(r, "delete", k)

DeleteRefused(r, k) ==
    /\ DeleteExecutes(r, k)
    /\ WriteRefused(r)
    /\ Raises(r, "delete", k)

(* `emit`: record_emission inserts the outbox row inside the transaction;  *)
(* its emission_id counts the emissions of this run.                        *)
EmitExecutes(r) ==
    /\ Executes(r, "emit")
    /\ owed[r] = {}
    /\ UNCHANGED <<store, bound, made, touch, assigned, deleted>>

(* Mutant: the emission is published at once, outside the transaction.      *)
EmitLandsAtOnce(r) ==
    /\ Executes(r, "emit")
    /\ owed[r] = {}
    /\ outbox' = Append(outbox, <<r, emitted[r] + 1>>)
    /\ emitted' = [emitted EXCEPT ![r] = @ + 1]
    /\ UNCHANGED <<rows, gen, conn, bound, made, touch, assigned, deleted, pc, owed>>

EmitLands(r) ==
    /\ EmitExecutes(r)
    /\ WriteStatement(r, SeenRows(r),
                      Append(SeenOutbox(r), <<r, emitted[r] + 1>>))
    /\ emitted' = [emitted EXCEPT ![r] = @ + 1]
    /\ UNCHANGED <<pc, owed>>

EmitRefused(r) ==
    /\ EmitExecutes(r)
    /\ WriteRefused(r)
    /\ RaisesForGood(r)
    /\ UNCHANGED emitted

(* _retryable: a step of idempotent effects is executed again; owed keeps  *)
(* the effects it must get through before the run can go on.                *)
RetryStep(r) ==
    /\ pc[r] = "erring"
    /\ pc' = [pc EXCEPT ![r] = "running"]
    /\ UNCHANGED <<store, conn, bound, made, touch, owed, audit, left>>

-----------------------------------------------------------------------------
(* The end of a run: the driver's flags are cleared, the connection closed *)
(* and with it everything the run held in memory.                           *)

EndRun(r, outcome) ==
    /\ pc' = [pc EXCEPT ![r] = outcome]
    /\ lock' = IF lock = r THEN NoRun ELSE lock
    /\ sql' = [sql EXCEPT ![r] = "none"]
    /\ vrows' = [vrows EXCEPT ![r] = NoView]
    /\ voutbox' = [voutbox EXCEPT ![r] = <<>>]
    /\ vgen' = [vgen EXCEPT ![r] = 0]
    /\ bound' = [bound EXCEPT ![r] = NoView]
    /\ made' = [made EXCEPT ![r] = {}]
    /\ touch' = [touch EXCEPT ![r] = NoTouch]
    /\ owed' = [owed EXCEPT ![r] = {}]
    /\ assigned' = [assigned EXCEPT ![r] = {}]
    /\ deleted' = [deleted EXCEPT ![r] = {}]
    /\ left' = [left EXCEPT ![r] = 0]
    /\ UNCHANGED emitted

Commit(r) ==
    /\ pc[r] = "running"
    /\ touch[r] = NoTouch
    /\ owed[r] = {}
    /\ IF sql[r] = "writing"
       THEN rows' = vrows[r] /\ outbox' = voutbox[r] /\ gen' = gen + 1
       ELSE UNCHANGED store
    /\ EndRun(r, "committed")

(* A failed step, a failed `respond` term, an effect outside the repository *)
(* that failed, or a commit() that raised.                                  *)
Rollback(r) ==
    /\ pc[r] \in Running
    /\ touch[r] = NoTouch
    /\ UNCHANGED store
    /\ EndRun(r, "rolledback")

(* The process dies; sqlite discards the uncommitted frames.                *)
Crash(r) ==
    /\ pc[r] \in Running
    /\ UNCHANGED store
    /\ EndRun(r, "crashed")

KeyStep(r, k) ==
    \/ Read(r, k)
    \/ SetLands(r, k) \/ SetConflicts(r, k) \/ SetRefused(r, k)
    \/ SetCreated(r, k)
    \/ CreateLands(r, k) \/ CreateConflicts(r, k) \/ CreateRefused(r, k)
    \/ TouchRead(r, k)
    \/ DeleteLands(r, k) \/ DeleteMissing(r, k) \/ DeleteRefused(r, k)

RunStep(r) ==
    \/ Begin(r) \/ Query(r)
    \/ TouchLands(r) \/ TouchMissing(r) \/ TouchRefused(r)
    \/ EmitLands(r) \/ EmitRefused(r)
    \/ RetryStep(r) \/ Commit(r) \/ Rollback(r) \/ Crash(r)

AllEnded == (\A r \in Runs : pc[r] \in Ended) /\ UNCHANGED vars

Next ==
    \/ \E r \in Runs : RunStep(r)
    \/ \E r \in Runs : \E k \in Keys : KeyStep(r, k)
    \/ AllEnded

Spec == Init /\ [][Next]_vars

-----------------------------------------------------------------------------
(* Properties.                                                              *)

Emission == Runs \X Nat

RowsType == [Keys -> Row \cup {NoRow}]

StoreType ==
    /\ rows \in RowsType
    /\ outbox \in Seq(Emission)
    /\ gen \in Nat

ConnType ==
    /\ lock \in Runs \cup {NoRun}
    /\ sql \in [Runs -> {"none", "begun", "pinned", "writing"}]
    /\ vrows \in [Runs -> RowsType]
    /\ voutbox \in [Runs -> Seq(Emission)]
    /\ vgen \in [Runs -> Nat]

ControlType ==
    /\ pc \in [Runs -> {"idle"} \cup Running \cup Ended]
    /\ owed \in [Runs -> SUBSET (AllOps \X Keys)]
    /\ left \in [Runs -> 0..MaxOps]

DataType ==
    /\ bound \in [Runs -> RowsType]
    /\ made \in [Runs -> SUBSET Keys]
    /\ touch \in [Runs -> [key : Keys, row : Row \cup {NoRow}] \cup {NoTouch}]
    /\ assigned \in [Runs -> SUBSET Keys]
    /\ deleted \in [Runs -> SUBSET Keys]
    /\ emitted \in [Runs -> Nat]

(* Type invariant; a run never executes more effects than its budget.       *)
TypeOK == StoreType /\ ConnType /\ ControlType /\ DataType

(* A run with uncommitted writes is the only one, and its view was taken   *)
(* from the store as it is now: its commit overwrites nobody (the point of *)
(* the lazy BEGIN, drivers.py begin()).                                     *)
WriterOnCurrent ==
    \A r \in Runs : sql[r] = "writing" => lock = r /\ vgen[r] = gen

(* Run r has in outbox o exactly its first n emissions, each once, in the  *)
(* order it emitted them.                                                   *)
Carries(o, r, n) ==
    /\ \A i \in 1..Len(o) : o[i][1] = r => o[i][2] \in 1..n
    /\ \A m \in 1..n : \E i \in 1..Len(o) : o[i] = <<r, m>>
    /\ \A i, j \in 1..Len(o) :
          i < j /\ o[i][1] = r /\ o[j][1] = r => o[i][2] < o[j][2]

Committed == {r \in Runs : pc[r] = "committed"}

(* One transaction per execution (RFC-0032): a run that has not committed  *)
(* has left nothing in any row nor in the outbox; a committed one has all  *)
(* of its emissions there, each exactly once.                               *)
AllOrNothing ==
    \A r \in Runs :
       /\ Carries(outbox, r, IF r \in Committed THEN emitted[r] ELSE 0)
       /\ r \notin Committed =>
            \A k \in Keys : rows[k] # NoRow => r \notin rows[k].by

(* A run that commits reports its `set`s as done, and they are: the row    *)
(* carries the assignment unless the run itself deleted the row.            *)
Commits(r) == pc[r] # "committed" /\ pc'[r] = "committed"

CommittedSetsLand ==
    [][\A r \in Runs : Commits(r) =>
         \A k \in assigned[r] : \/ rows'[k] # NoRow /\ r \in rows'[k].by
                                \/ rows'[k] = NoRow /\ k \in deleted[r]]_vars

(* The lost-update guard (persist(), _UPDATE_ROW_VERSIONED): what a        *)
(* committed run assigned to a row stays in it until a run that deletes    *)
(* the row commits.                                                         *)
NoLostUpdate ==
    [][\A k \in Keys : rows[k] # NoRow =>
         \/ rows'[k] # NoRow /\ rows[k].by \subseteq rows'[k].by
         \/ \E r \in Runs : Commits(r) /\ k \in deleted[r]]_vars

(* What AllOrNothing rests on, step by step: the inductive invariant.      *)

(* Only a run between its begin and its end has an open SQL transaction,   *)
(* and only a run that holds the lock has emitted.                          *)
OpenWhileRunning ==
    \A r \in Runs :
       /\ sql[r] # "none" => pc[r] \in Running
       /\ sql[r] # "writing" /\ pc[r] \notin Ended => emitted[r] = 0

(* A pinned snapshot of the current generation is the current store.        *)
SnapshotsHold ==
    \A r \in Runs : sql[r] = "pinned" =>
       /\ vgen[r] <= gen
       /\ vgen[r] = gen => vrows[r] = rows /\ voutbox[r] = outbox

(* A writer's outbox is the committed one followed by its own emissions.    *)
FeedExtends ==
    \A r \in Runs : sql[r] = "writing" =>
       /\ Len(outbox) <= Len(voutbox[r])
       /\ \A i \in 1..Len(outbox) : voutbox[r][i] = outbox[i]
       /\ \A i \in (Len(outbox) + 1)..Len(voutbox[r]) : voutbox[r][i][1] = r
       /\ Carries(voutbox[r], r, emitted[r])

(* A run only ever sees rows made of committed assignments and its own.     *)
MadeOf(row, writers) == row # NoRow => row.by \subseteq writers

NothingDirty ==
    /\ \A k \in Keys : MadeOf(rows[k], Committed)
    /\ \A r \in Runs :
         /\ \A k \in Keys : /\ MadeOf(vrows[r][k], Committed \cup {r})
                            /\ MadeOf(bound[r][k], Committed \cup {r})
         /\ touch[r] # NoTouch => MadeOf(touch[r].row, Committed \cup {r})

StoreInv == /\ TypeOK /\ WriterOnCurrent /\ OpenWhileRunning /\ SnapshotsHold
            /\ FeedExtends /\ NothingDirty /\ AllOrNothing

-----------------------------------------------------------------------------
(* Refinement.                                                              *)

(* Each run is one atomic step of the abstract ledger.                      *)
Stored == [k \in Keys |-> IF rows[k] = NoRow THEN NoRow ELSE rows[k].by]

Fate == [r \in Runs |-> IF pc[r] = "committed" THEN "committed"
                        ELSE IF pc[r] \in Ended THEN "aborted" ELSE "open"]

Ledger == INSTANCE RunLedger WITH stored <- Stored, feed <- outbox, fate <- Fate

ImplementsLedger == Ledger!LedgerSpec

(* What makes it so: `update` and `delete` change a row without its version. *)
NoRewrites == Ops \cap {"update", "delete"} = {}
=============================================================================
