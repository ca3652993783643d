------------------------- MODULE ReadThroughCache -------------------------
(***************************************************************************)
(* The `cached` reads of a service (interp.py, the RepositoryCall branch   *)
(* of _run_effect and the three read-through helpers): runs that share one *)
(* row of the store and the cache entry under its key.                     *)
(*                                                                         *)
(* The compiler keeps a workflow that reads an entity `cached` from        *)
(* updating it, but not from creating it.  A row is the number of the      *)
(* write that made it; 0 is no row, or no cache entry.                     *)
(***************************************************************************)
EXTENDS Integers

CONSTANTS
    Readers,        \* runs of `find E cached`
    Updaters,       \* runs that update E, in a workflow without `cached`
    Creators        \* runs of `create E as e`, then `find E cached`

Runs == Readers \cup Updaters \cup Creators
Writers == Updaters \cup Creators

CacheAssumption ==
    Readers \cap Writers = {} /\ Updaters \cap Creators = {}

VARIABLES
    stored,         \* the committed row
    made,           \* rows made so far
    mine,           \* run -> the row it has written and not committed
    cache,          \* the entry under the row's key
    pc,
    bound,          \* run -> the row its read has found
    filled,         \* runs with the key in _read_through_writes
    committed,      \* rows that have been committed (history)
    excused,        \* the entry was put by a read older than a commit, or
                    \* an outage kept it from being deleted (history)
    abandoned       \* rows whose entry no discard was made of (history)

store == <<stored, made, mine, committed>>
vars == <<store, cache, pc, bound, filled, excused, abandoned>>

Init ==
    /\ stored \in {0, 1} /\ made = stored
    /\ committed = {stored} \ {0}
    /\ mine = [r \in Runs |-> 0]
    /\ cache \in {0, stored}
    /\ pc = [r \in Runs |-> IF r \in Readers THEN "get" ELSE "write"]
    /\ bound = [r \in Runs |-> 0]
    /\ filled = {}
    /\ excused = FALSE /\ abandoned = {}

Goes(r, label) == pc' = [pc EXCEPT ![r] = label]
InView(r) == IF mine[r] # 0 THEN mine[r] ELSE stored

(* cache.set and cache.invalidate, which an outage makes no-ops.            *)
PutEntry(row) == cache' = row /\ excused' = (row < stored)
DropEntry == cache' = 0 /\ excused' = FALSE

-----------------------------------------------------------------------------
(* The writes of a run, under the store's single write lock.                *)

Locked == \E r \in Runs : mine[r] # 0
Finds(r) == r \in Updaters <=> stored # 0

Write(r) ==
    /\ pc[r] = "write"
    /\ ~ Locked /\ Finds(r)
    /\ made' = made + 1
    /\ mine' = [mine EXCEPT ![r] = made + 1]
    /\ Goes(r, IF r \in Creators THEN "get" ELSE "end")
    /\ UNCHANGED <<stored, committed, cache, bound, filled, excused, abandoned>>

(* Locked out, nothing to update, or already there: the step fails.         *)
WriteFails(r) ==
    /\ pc[r] = "write"
    /\ Locked \/ ~ Finds(r)
    /\ Goes(r, "rollback")
    /\ UNCHANGED <<store, cache, bound, filled, excused, abandoned>>

-----------------------------------------------------------------------------
(* A `cached` read.                                                         *)

GetHits(r) ==
    /\ pc[r] = "get"
    /\ cache # 0
    /\ bound' = [bound EXCEPT ![r] = cache]
    /\ Goes(r, "end")
    /\ UNCHANGED <<store, cache, filled, excused, abandoned>>

(* No entry, or a cache that cannot be asked.                               *)
GetMisses(r) ==
    /\ pc[r] = "get"
    /\ Goes(r, "load")
    /\ UNCHANGED <<store, cache, bound, filled, excused, abandoned>>

(* repo.execute(read); a row that is not there fails the step.              *)
Load(r) ==
    /\ pc[r] = "load"
    /\ bound' = [bound EXCEPT ![r] = InView(r)]
    /\ Goes(r, IF InView(r) = 0 THEN "rollback" ELSE "fill")
    /\ UNCHANGED <<store, cache, filled, excused, abandoned>>

Fill(r) ==
    /\ pc[r] = "fill"
    /\ PutEntry(bound[r])
    /\ filled' = filled \cup {r}
    /\ Goes(r, "end")
    /\ UNCHANGED <<store, bound, abandoned>>

FillLost(r) ==
    /\ pc[r] = "fill"
    /\ Goes(r, "end")
    /\ UNCHANGED <<store, cache, bound, filled, excused, abandoned>>

-----------------------------------------------------------------------------
(* The end of a run.                                                        *)

(* Mutant: the written key is invalidated inside the open transaction.      *)
CommitAfterInvalidation(r) ==
    \/ /\ pc[r] = "end" /\ r \in Updaters
       /\ DropEntry /\ Goes(r, "invalidate")
       /\ UNCHANGED <<store, bound, filled, abandoned>>
    \/ /\ pc[r] = "invalidate" \/ (pc[r] = "end" /\ r \notin Updaters)
       /\ stored' = InView(r)
       /\ committed' = committed \cup ({mine[r]} \ {0})
       /\ mine' = [mine EXCEPT ![r] = 0]
       /\ Goes(r, "done")
       /\ UNCHANGED <<made, cache, bound, filled, excused, abandoned>>

Commit(r) ==
    /\ pc[r] = "end"
    /\ stored' = InView(r)
    /\ committed' = committed \cup ({mine[r]} \ {0})
    /\ mine' = [mine EXCEPT ![r] = 0]
    /\ Goes(r, IF r \in Updaters THEN "invalidate" ELSE "done")
    /\ UNCHANGED <<made, cache, bound, filled, excused, abandoned>>

(* _invalidate_written_after_commit.                                        *)
Invalidate(r) ==
    /\ pc[r] = "invalidate"
    /\ DropEntry
    /\ Goes(r, "done")
    /\ UNCHANGED <<store, bound, filled, abandoned>>

InvalidateLost(r) ==
    /\ pc[r] = "invalidate"
    /\ excused' = (cache # 0)
    /\ Goes(r, "done")
    /\ UNCHANGED <<store, cache, bound, filled, abandoned>>

(* commit() raises: run_workflow is left at once, and its caller rolls the *)
(* store back.                                                              *)
CommitRaises(r) ==
    /\ pc[r] = "end"
    /\ mine[r] # 0
    /\ mine' = [mine EXCEPT ![r] = 0]
    /\ Goes(r, "done")
    /\ abandoned' = abandoned \cup {mine[r]}
    /\ UNCHANGED <<stored, made, committed, cache, bound, filled, excused>>

(* A later step fails (a guarded `fail`).                                   *)
StepFails(r) ==
    /\ pc[r] = "end"
    /\ Goes(r, "rollback")
    /\ UNCHANGED <<store, cache, bound, filled, excused, abandoned>>

Rollback(r) ==
    /\ pc[r] = "rollback"
    /\ mine' = [mine EXCEPT ![r] = 0]
    /\ Goes(r, "discard")
    /\ UNCHANGED <<stored, made, committed, cache, bound, filled, excused, abandoned>>

(* _discard_read_through_writes.                                            *)
Discard(r) ==
    /\ pc[r] = "discard"
    /\ IF r \in filled THEN DropEntry ELSE UNCHANGED <<cache, excused>>
    /\ Goes(r, "done")
    /\ UNCHANGED <<store, bound, filled, abandoned>>

DiscardLost(r) ==
    /\ pc[r] = "discard"
    /\ Goes(r, "done")
    /\ abandoned' = IF r \in filled THEN abandoned \cup {bound[r]} ELSE abandoned
    /\ UNCHANGED <<store, cache, bound, filled, excused>>

(* The TTL runs out.                                                        *)
Expire ==
    /\ cache # 0
    /\ DropEntry
    /\ UNCHANGED <<store, pc, bound, filled, abandoned>>

Done == (\A r \in Runs : pc[r] = "done") /\ UNCHANGED vars

RunStep(r) ==
    \/ Write(r) \/ WriteFails(r)
    \/ GetHits(r) \/ GetMisses(r) \/ Load(r) \/ Fill(r) \/ FillLost(r)
    \/ Commit(r) \/ Invalidate(r) \/ InvalidateLost(r) \/ CommitRaises(r)
    \/ StepFails(r) \/ Rollback(r) \/ Discard(r) \/ DiscardLost(r)

Next == Expire \/ Done \/ \E r \in Runs : RunStep(r)

Spec == Init /\ [][Next]_vars

-----------------------------------------------------------------------------
(* Properties.                                                              *)

(* Type invariant; one run at a time has an uncommitted row.                *)
TypeOK ==
    /\ stored \in 0..made /\ made \in Nat
    /\ mine \in [Runs -> 0..made]
    /\ cache \in 0..made
    /\ pc \in [Runs -> {"write", "get", "load", "fill", "end", "invalidate",
                        "rollback", "discard", "done"}]
    /\ bound \in [Runs -> 0..made]
    /\ filled \subseteq Runs \ Updaters
    /\ committed \subseteq 1..made
    /\ excused \in BOOLEAN /\ abandoned \subseteq 1..made
    /\ \A r, q \in Runs : mine[r] # 0 /\ mine[q] # 0 => r = q

(* A committed row that is older than the store's was put there by a read  *)
(* that a commit overtook, or kept by a cache outage: invalidating only    *)
(* after the commit leaves no other way.                                    *)
StaleOnlyByOverlap ==
    cache \in committed /\ cache < stored =>
        excused \/ \E r \in Updaters : pc[r] = "invalidate"

(* "A rolled-back run must not leave rows it read in the cache": an entry  *)
(* that was never committed belongs to a run that is not over, or its      *)
(* discard was lost in an outage or, after a commit() that raised, never   *)
(* made.                                                                    *)
RolledBackLeavesNothing ==
    cache # 0 => \/ cache \in committed
                 \/ \E r \in Creators : bound[r] = cache /\ pc[r] # "done"
                 \/ cache \in abandoned

(* What a reader may find in the cache while runs write and roll back.      *)
CacheIsHonest == StaleOnlyByOverlap /\ RolledBackLeavesNothing
=============================================================================
