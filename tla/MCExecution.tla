---------------------------- MODULE MCExecution ----------------------------
(* The interpreter at work: the threads of a parallel block (extended), the  *)
(* step loop of one run, runs that share a read-through cache, runs that     *)
(* share a store, and the evaluation of one guard or assignment (all         *)
(* instantiated).  They have no state in common, so a behaviour is one of    *)
(* them, chosen at the start.                                                *)
EXTENDS ParallelBlock

CONSTANTS Program, Guarded, RunRetry, RunDeadline, Readers, Updaters, Creators,
          Fields, Bare, Known, Foreign, Members, Texts, ValuesOf, Rowsets, MinInt, MaxInt,
          StoreRuns, Brief, Keys, Seeded, Ops, MaxOps, AbsentRow, NoRun, NoTouch

VARIABLES which,
          at, runAttempts, runClock, bound, stored, tx, made, status, ran, found, again,
          row, rowsMade, mine, cache, cachePc, read, filled, committed, excused, abandoned,
          text, lowered, holding, outcome,
          storeRows, outbox, gen, lock, sql, vrows, voutbox, vgen, runPc, rowObject, created,
          touch, owed, assigned, deleted, emitted, unspent

loopVars == <<at, runAttempts, runClock, bound, stored, tx, made, status, ran, found, again>>
cacheVars == <<row, rowsMade, mine, cache, cachePc, read, filled, committed, excused, abandoned>>

valueVars == <<text, lowered, holding, outcome>>

storeVars == <<storeRows, outbox, gen, lock, sql, vrows, voutbox, vgen, runPc, rowObject, created,
               touch, owed, assigned, deleted, emitted, unspent>>

Loop == INSTANCE WorkflowRun WITH
            Retry <- RunRetry, Deadline <- RunDeadline,
            attempts <- runAttempts, clock <- runClock

Shared == INSTANCE ReadThroughCache WITH
            stored <- row, made <- rowsMade, pc <- cachePc, bound <- read

Evaluating == INSTANCE Values

Repo == INSTANCE SqliteRepository WITH
            Runs <- StoreRuns, NoRow <- AbsentRow, rows <- storeRows,
            pc <- runPc, bound <- rowObject, made <- created, left <- unspent

ASSUME ExecutionAssumption ==
    /\ Loop!RunAssumption /\ Shared!CacheAssumption /\ Evaluating!ValuesAssumption
    /\ Repo!RepositoryAssumption

AnyText == CHOOSE t \in Texts : TRUE

MCInit ==
    /\ Init /\ Loop!Init /\ Shared!Init /\ Evaluating!Init /\ Repo!Init
    /\ which \in {"block", "loop", "cache", "values", "store"}
    /\ which # "loop" => stored = 1
    /\ which # "cache" => row = 0 /\ cache = 0
    /\ which # "values" => text = AnyText

BlockNext ==
    which = "block" /\ Next /\ UNCHANGED <<which, loopVars, cacheVars, valueVars, storeVars>>
LoopNext ==
    which = "loop" /\ Loop!Next /\ UNCHANGED <<which, vars, cacheVars, valueVars, storeVars>>
CacheNext ==
    which = "cache" /\ Shared!Next /\ UNCHANGED <<which, vars, loopVars, valueVars, storeVars>>
ValueNext ==
    /\ which = "values" /\ Evaluating!Next
    /\ UNCHANGED <<which, vars, loopVars, cacheVars, storeVars>>

(* Bounds of the store: the brief runs execute one effect; the others are    *)
(* alike, so they begin in the order of their numbers.                       *)
OneEffect == \A r \in Brief : runPc'[r] \in Repo!Ended \/ unspent'[r] >= MaxOps - 1

InTurn ==
    \A q, r \in StoreRuns \ Brief : q < r /\ runPc'[q] = "idle" => runPc'[r] = "idle"

StoreNext ==
    /\ which = "store" /\ Repo!NoRewrites /\ Repo!Next /\ OneEffect /\ InTurn
    /\ UNCHANGED <<which, vars, loopVars, cacheVars, valueVars>>

MCNext == BlockNext \/ LoopNext \/ CacheNext \/ ValueNext \/ StoreNext

allVars == <<which, vars, loopVars, cacheVars, valueVars, storeVars>>

(* ParallelBlock!FairSpec, where the block runs.                             *)
MCFairness == /\ WF_vars(which = "block" /\ MainStep)
              /\ \A s \in Steps : WF_vars(which = "block" /\ WorkerStep(s))

MCSpec == MCInit /\ [][MCNext]_allVars /\ MCFairness

(* ParallelBlock: a started block returns.                                   *)
BlockDone == which = "block" => BlockReturns

(* Verdicts: a completed block ran every step and misses its deadline by     *)
(* cost alone (ParallelBlock), and no run past its deadline is reported      *)
(* completed (WorkflowRun).                                                  *)
VerdictsAreHonest == CompletedRanAll /\ DeadlineVerdict /\ Loop!CompletedInTime

(* WorkflowRun: sets and external effects of a run apply once.               *)
EffectsApplyOnce == Loop!EffectsApplyOnce

(* ReadThroughCache: an entry is stale or uncommitted only as far as an       *)
(* overlap or an outage makes it.                                            *)
CacheIsHonest == Shared!CacheIsHonest

(* SqliteRepository: concurrent runs that read, list, set, create and emit   *)
(* are atomic steps of the ledger, in commit order.                          *)
ImplementsLedger == Repo!ImplementsLedger

(* Values: an accepted text fails for its values alone, or was warned about,  *)
(* and what it decides or writes does not depend on where the epoch is.      *)
DimensionsAreSound == Evaluating!DimensionsAreSound

(* Values: where mode A decides a guard the compiled one decides it alike.   *)
CompiledAgrees == Evaluating!CompiledAgrees

(* Values: an assignment leaves its field with a value of the declared type. *)
StoredAsDeclared == Evaluating!StoredAsDeclared

-----------------------------------------------------------------------------
(* Every effect kind; what the row is before the run decides which of the    *)
(* guarded `create` and the rest can succeed.                                *)
Order == <<"create", "read", "set", "call", "set", "emit", "reject">>

(* A document with a field of each kind, bound by a read or given as input;  *)
(* `free` and `paid` are bare names, `reply` is bound by a call.             *)
Field(type, optional, of) == [type |-> type, optional |-> optional, of |-> of]
MCFields ==
  [qty |-> Field("Integer", FALSE, "row"), bonus |-> Field("Integer", TRUE, "row"),
   asked |-> Field("Integer", TRUE, "input"), both |-> Field("Integer", TRUE, "disputed-input"),
   born |-> Field("DateTime", FALSE, "row"), due |-> Field("DateTime", FALSE, "row"),
   price |-> Field("Money", FALSE, "row"), fee |-> Field("Money", FALSE, "input"),
   name |-> Field("Text", FALSE, "row"), mail |-> Field("Email", FALSE, "input"),
   state |-> Field("Status", TRUE, "row"), pin |-> Field("Password", FALSE, "row")]

Held(is, n, tag) == [is |-> is, n |-> n, tag |-> tag]
Nothing == Held("absent", 0, "")
MCValuesOf ==
  [n \in DOMAIN MCFields \cup {"free", "paid", "reply"} |->
     CASE n = "qty" -> {Held("int", i, "") : i \in {-3, 0, 2}}
       [] n \in {"bonus", "asked", "both"} -> {Held("int", 2, ""), Nothing}
       [] n \in {"born", "due"} ->
            {Held("instant", 0, ""), Held("instant", 5, ""), Held("zoneless", 0, "")}
       [] n \in {"price", "fee"} ->
            {Held("money", 3, "EUR"), Held("money", 3, "USD"), Held("unscaled", 0, "EUR")}
       [] n = "state" -> {Held("text", 0, "paid"), Nothing}
       [] n \in {"name", "mail", "pin"} -> {Held("text", 0, "paid"), Held("text", 0, "other")}
       [] n = "paid" -> {Nothing}
       [] OTHER -> {Held("int", 2, ""), Held("bool", 1, ""), Held("instant", 5, ""),
                    Held("digits", 2, ""), Held("text", 0, "paid"), Held("money", 3, "EUR"),
                    Nothing}]

Ref(name) == [kind |-> "ref", name |-> name]
Lit(n) == [kind |-> "lit", n |-> n]
Direct == {Ref(n) : n \in DOMAIN MCValuesOf \ {"both"}} \cup {Lit(2)}
Sides == {Ref(n) : n \in {"qty", "bonus", "asked", "born", "due", "price", "fee", "name", "reply"}}
         \cup {Lit(0), Lit(2)}
Computed == {[kind |-> "arith", left |-> x, op |-> op, right |-> y] :
               x \in Sides, y \in Sides, op \in {"+", "-", "*", "/"}}

Term(x, op, y) == [left |-> x, op |-> op, right |-> y]
Guards(c) == [kind |-> "compare", terms |-> c]

MCTexts ==
  {Guards(<<Term(x, op, y)>>) : x \in Direct, y \in Direct, op \in {"<", "!="}}
  \cup {Guards(<<Term(x, op, Ref(n))>>) :
           x \in Computed, n \in {"qty", "born", "fee"}, op \in {"<=", "=="}}
  \cup {Guards(<<Term(Ref("state"), "==", Ref("paid")), Term(x, ">", y)>>) :
           x \in Sides, y \in Sides}
  \cup {Guards(<<Term(Ref("qty"), ">=", Lit(2)), Term(x, "<", Lit(2))>>) : x \in Computed}
  \cup {[kind |-> "test", is |-> is, name |-> n] :
           is \in {"exists", "missing", "is-numeric", "is-not-numeric"}, n \in DOMAIN MCValuesOf}
  \cup {[kind |-> "set", target |-> t, value |-> v, under |-> u] :
           t \in {"qty", "born", "price", "name", "asked"}, v \in Direct \cup Computed,
           u \in {"nothing", "bonus"}}
  \cup {[kind |-> "aggregate", target |-> t, func |-> f, field |-> g] :
           t \in {"qty", "born", "price", "name"}, f \in {"count", "sum", "avg", "min", "max"},
           g \in {"none", "qty", "bonus", "born", "price", "name"}}

Lists == UNION {[1..n -> UNION {MCValuesOf[f] : f \in {"qty", "bonus", "born", "price"}}] :
                  n \in 0..3}

Lowest == -8

StoreOps == {"read", "query", "set", "create", "emit"}
============================================================================
