------------------------------ MODULE Lowering ------------------------------
(* What the compiler decides about the items of a workflow before any run:   *)
(* which bodies it refuses and what it warns of (lower.py).  Everything here *)
(* is a function of the items, and every judgement is made on the text alone: *)
(* the order steps are written in, and the guards that own them.             *)
(*                                                                           *)
(* The module has one entity, bound as "e" by the step that reads it, one    *)
(* event, declared `on` the creation of an e, and the results that steps     *)
(* bind themselves: "made" of `create e as made`, "reply" of `call .. as     *)
(* reply`.  "input" and "token" are of the run's payload.  Each binding has  *)
(* the one field that conditions and assignments are about.                  *)
EXTENDS Naturals, Sequences, SequencesExt

CONSTANT HasCacheBudget    \* the service declares `performance cache`

(* What VERB_LEXICON and the trailing clauses of a step make of its words:   *)
(* the operation, the name it binds, the name whose field it assigns, and    *)
(* the names it reads.                                                       *)
Effect(op, binds, sets, refs) == [op |-> op, binds |-> binds, sets |-> sets, refs |-> refs]

Lexicon == {
    <<"note",           Effect("none",    "",      "",     {})>>,
    <<"read",           Effect("read",    "e",     "",     {})>>,
    <<"read cached",    Effect("cached",  "e",     "",     {})>>,
    <<"create",         Effect("create",  "",      "",     {})>>,
    <<"create as made", Effect("create",  "made",  "",     {})>>,
    <<"update",         Effect("update",  "",      "",     {})>>,
    <<"delete",         Effect("delete",  "",      "",     {})>>,
    <<"list",           Effect("query",   "",      "",     {})>>,
    <<"call",           Effect("call",    "",      "",     {})>>,
    <<"call as reply",  Effect("call",    "reply", "",     {})>>,
    <<"call send made", Effect("call",    "",      "",     {"made"})>>,
    <<"set e",          Effect("set",     "",      "e",    {"e"})>>,
    <<"set e to reply", Effect("set",     "",      "e",    {"reply"})>>,
    <<"set e to sum",   Effect("sum",     "",      "e",    {})>>,
    <<"emit",           Effect("emit",    "",      "",     {})>>,
    <<"emit with made", Effect("emit",    "",      "",     {"made"})>>,
    <<"emit with reply", Effect("emit",    "",      "",     {"reply"})>>,
    <<"respond e",      Effect("respond", "",      "",     {"e"})>>,
    <<"respond made",   Effect("respond", "",      "",     {"made"})>>,
    <<"fail",           Effect("fail",    "",      "",     {})>>,
    <<"cache",          Effect("cache",   "",      "",     {})>>}

EffectOf == [w \in {entry[1] : entry \in Lexicon} |->
                (CHOOSE entry \in Lexicon : entry[1] = w)[2]]

(* A word outside the lexicon derives no effect.                             *)
Of(step) == IF step \in DOMAIN EffectOf THEN EffectOf[step] ELSE EffectOf["note"]

(* The conditions: a comparison of one field, or the presence of one.        *)
Comparison(ref, want) == [kind |-> "comparison", ref |-> ref, want |-> want]
Presence(ref, want) == [kind |-> "presence", ref |-> ref, want |-> want]

Condition ==
    ("e = 1"         :> Comparison("e", 1)) @@
    ("e = 0"         :> Comparison("e", 0)) @@
    ("made = 1"      :> Comparison("made", 1)) @@
    ("reply = 1"     :> Comparison("reply", 1)) @@
    ("input = 1"     :> Comparison("input", 1)) @@
    ("token exists"  :> Presence("token", TRUE)) @@
    ("token missing" :> Presence("token", FALSE))

Counts == ("0" :> 0) @@ ("1" :> 1) @@ ("2" :> 2)

-----------------------------------------------------------------------------

(* A step in its place: the item, the branch of its guard (_guard_owner_map) *)
(* and its position in a block.                                              *)
In(i, name, branch) ==
    [k \in DOMAIN branch.steps |->
        [item |-> i, branch |-> name, block |-> branch.block, at |-> k,
         step |-> branch.steps[k], does |-> Of(branch.steps[k])]]

(* All steps in the order the compiler emits them: the text's.               *)
Sites(items) ==
    FlattenSeq([i \in DOMAIN items |-> In(i, "then", items[i].body)
                                       \o In(i, "otherwise", items[i].otherwise)])

SiteSet(items) == Range(Sites(items))

Before(a, b) ==
    \/ a.item < b.item
    \/ a.item = b.item /\ a.branch = "then" /\ b.branch = "otherwise"
    \/ a.item = b.item /\ a.branch = b.branch /\ a.at < b.at

SameBlock(a, b) == a.item = b.item /\ a.branch = b.branch

Mode(item) == IF item.guard = <<>> THEN "none" ELSE item.guard[1]

(* The conditions of a guard and of its `or` lines; a repeat has none.       *)
ConditionsOf(item) ==
    IF Mode(item) \in {"when", "until"}
    THEN <<item.guard[2]>> \o item.alternatives ELSE <<>>

(* Mutant: both branches of a guard are one scope.                            *)
GuardKeyOfTheGuard(items, site) == items[site.item].guard

(* _guard_key: the identity of a guard's scope.  Two guards written alike    *)
(* are one scope, the alternatives of a guard are no part of it, and the     *)
(* branch that runs when the guard is false is a scope of its own.           *)
GuardKey(items, site) ==
    LET item == items[site.item] IN
    IF Mode(item) = "none" THEN <<>>
    ELSE IF Mode(item) = "repeat" \/ site.branch = "then" THEN item.guard
    ELSE item.guard \o <<"otherwise">>

-----------------------------------------------------------------------------
(* Refusals.                                                                 *)

WriteOps == {"create", "update", "delete"}

EmptyBlock(items) ==
    \E i \in DOMAIN items : \E b \in {items[i].body, items[i].otherwise} :
        b.block # "none" /\ b.steps = <<>>

Reads(items) == \E s \in SiteSet(items) : s.does.op \in {"read", "cached"}

Binders(items, name) == {s \in SiteSet(items) : s.does.binds = name}

(* resolve_field: a binding can exist if some step of the workflow makes it, *)
(* wherever that step is.                                                    *)
CanBind(items, name) == name \in {"input", "token"} \/ Binders(items, name) # {}

(* _registry_with_create_bindings: what is assigned or answered is looked up *)
(* among the entities and the rows created so far, when the step is lowered. *)
KnownAt(items, site, name) ==
    \/ name = "e"
    \/ name = "made" /\ \E c \in Binders(items, "made") : Before(c, site)

Resolves(items, site) ==
    /\ \A name \in site.does.refs : CanBind(items, name)
    /\ site.does.op = "respond" =>
          \A name \in site.does.refs : KnownAt(items, site, name)
    /\ site.does.sets # "" =>
          CanBind(items, site.does.sets) /\ KnownAt(items, site, site.does.sets)

GuardsResolve(items) ==
    \A i \in DOMAIN items : \A c \in Range(ConditionsOf(items[i])) :
        CanBind(items, Condition[c].ref)

(* _check_fail_is_guarded: a `fail` needs a guard that can skip its item.    *)
FailUnguarded(items) ==
    \E s \in SiteSet(items) : s.does.op = "fail" /\ Mode(items[s.item]) \in {"none", "repeat"}

(* _check_parallel_write_conflict.                                           *)
ParallelWriteConflict(items) ==
    \E a, b \in SiteSet(items) :
        /\ a # b /\ SameBlock(a, b) /\ a.block = "parallel"
        /\ a.does.op \in WriteOps /\ b.does.op \in WriteOps

(* _check_cached_read_not_written; and a cached read needs a budget.         *)
CachedRefused(items) ==
    /\ \E s \in SiteSet(items) : s.does.op = "cached"
    /\ \/ ~HasCacheBudget
       \/ \E s \in SiteSet(items) : s.does.op \in {"update", "delete"} \/ s.does.sets = "e"

Accepted(items) ==
    /\ ~EmptyBlock(items) /\ \A s \in SiteSet(items) : Resolves(items, s)
    /\ GuardsResolve(items)
    /\ ~FailUnguarded(items) /\ ~ParallelWriteConflict(items) /\ ~CachedRefused(items)

-----------------------------------------------------------------------------
(* Warnings.                                                                 *)

ResultNames == {"made", "reply"}

Unconditional(items, name) ==
    \E c \in Binders(items, name) : GuardKey(items, c) = <<>>

(* _check_guard_scoped_binding_reads: the step reads a result that is bound  *)
(* under guards only, and none of them is the step's own.                    *)
Escapes(items, site, name) ==
    /\ name \in ResultNames /\ name \in site.does.refs
    /\ Binders(items, name) # {} /\ ~Unconditional(items, name)
    /\ \A c \in Binders(items, name) : GuardKey(items, c) # GuardKey(items, site)

(* _check_event_source_mismatch: the event is emitted where the operation    *)
(* its declaration names does not run (the event is `on e create`).          *)
SourceMismatch(items, site) ==
    \A c \in SiteSet(items) :
        c.does.op = "create" => GuardKey(items, c) # GuardKey(items, site)

(* The walk of _check_scoped_conditions: a list that no guard owns fills the *)
(* rows an aggregate after it reads.                                         *)
ListedBefore(items, site) ==
    \E q \in SiteSet(items) :
        q.does.op = "query" /\ Mode(items[q.item]) = "none" /\ Before(q, site)

AggregationOrphaned(items, site) == site.does.op = "sum" /\ ~ListedBefore(items, site)
=============================================================================
