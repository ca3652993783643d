------------------------------ MODULE TwoModes ------------------------------
(* A workflow from its text to its run, in both execution modes.  The text   *)
(* is parsed (WorkflowText) and lowered (Lowering); an accepted one is run   *)
(* by the interpreter, step by step (mode A: interp._flatten_items,          *)
(* Interpreter._run_effect and the loop of run_workflow), and is also given  *)
(* to the back end, which unrolls it into a plan and evaluates every guard   *)
(* with the values the run starts with (mode B: backend.py, differential.py).*)
(*                                                                           *)
(* A run has one row at most, that of the payload's id: the seed rule copies *)
(* the payload into it.  There is no policy, so a step is not retried and    *)
(* nothing times out (WorkflowRun has those), and one transaction encloses   *)
(* the run (SqliteRepository).  The steps of a parallel block run one after  *)
(* the other in any order; ParallelBlock has what they share.                *)
EXTENDS WorkflowText, Lowering

CONSTANTS
    RoundCap,    \* _UNTIL_ROUND_CAP
    NoRow        \* no row, no binding, no list

ASSUME NoRowAssumption == NoRow \notin {0, 1}

VARIABLES
    verdict,     \* of the compiler: "none", "accepted" or "rejected"
    given,       \* the payload and the network: [input, token, answers]
    at, branch, round, left,  \* where _flatten_items is: item, branch, round, steps to come
    bound,       \* the execution scope
    row,         \* the stored row of the one entity
    listed,      \* the RowSet of the last list
    order,       \* names of the steps that ran
    skips,       \* result["skipped"], one entry per step
    did,         \* operations that took effect
    misses,      \* reads of a result that was not bound: <<site, name>>
    status       \* "none", "running", "completed" or "failed"

runVars == <<given, at, branch, round, left, bound, row, listed, order, skips, did,
             misses, status>>

vars == <<textVars, verdict, runVars>>

Values == {0, 1}
Names == {"e", "made", "reply"}

Givens == [input : Values, token : BOOLEAN, answers : BOOLEAN]

Unbound == [name \in Names |-> NoRow]

(* seeded_entities: the entity has a row if its first read precedes its      *)
(* first create.                                                             *)
Seeded(its) ==
    \E r \in SiteSet(its) :
        /\ r.does.op \in {"read", "cached"}
        /\ \A c \in SiteSet(its) : c.does.op = "create" => ~Before(c, r)

-----------------------------------------------------------------------------
(* Values and conditions in a scope (resolve_reference, _condition_holds).   *)

ValueIn(scope, name, g) == IF name = "input" THEN g.input ELSE scope[name]

(* A reference that resolves to nothing makes a comparison false.            *)
HoldsIn(scope, c, g) ==
    IF Condition[c].kind = "presence" THEN g.token = Condition[c].want
    ELSE ValueIn(scope, Condition[c].ref, g) = Condition[c].want

(* A guard with alternatives evaluates all of them.                          *)
GuardHolds(item, scope, g) ==
    \E c \in Range(ConditionsOf(item)) : HoldsIn(scope, c, g)

(* What a step does not name it does not bind.                               *)
Bind(scope, name, value) == [n \in DOMAIN scope |-> IF n = name THEN value ELSE scope[n]]

(* One step's effect on [bound, row, listed]; ok is FALSE when it fails.     *)
Scope(b, r, l) == [bound |-> b, row |-> r, listed |-> l]

After(s, does, g) ==
    LET failed == [ok |-> FALSE, to |-> s]
        done(to) == [ok |-> TRUE, to |-> to]
        value == IF does.op = "sum" THEN (IF s.listed = NoRow THEN 0 ELSE s.listed)
                 ELSE LET v == ValueIn(s.bound, CHOOSE n \in does.refs : TRUE, g)
                      IN IF v = NoRow THEN NoRow ELSE 1 - v
    IN CASE does.op \in {"read", "cached"} ->
                IF s.row = NoRow THEN failed ELSE done([s EXCEPT !.bound["e"] = s.row])
         [] does.op = "create" ->
                IF s.row # NoRow THEN failed
                ELSE done([s EXCEPT !.row = g.input,
                                    !.bound = Bind(@, does.binds, g.input)])
         [] does.op = "update" -> IF s.row = NoRow THEN failed ELSE done(s)
         [] does.op = "delete" -> IF s.row = NoRow THEN failed
                                  ELSE done([s EXCEPT !.row = NoRow])
         [] does.op = "query" -> done([s EXCEPT !.listed = s.row])
         [] does.op \in {"set", "sum"} ->
                IF s.bound[does.sets] = NoRow \/ value = NoRow THEN failed
                ELSE done([s EXCEPT !.bound[does.sets] = value, !.row = value])
         [] does.op = "call" ->
                IF ~g.answers /\ does.binds \notin Names THEN failed
                ELSE done([s EXCEPT !.bound =
                        Bind(@, does.binds, IF g.answers THEN 1 ELSE 0)])
         [] does.op = "fail" -> failed
         [] does.op = "cache" -> IF HasCacheBudget THEN done(s) ELSE failed
         [] OTHER -> done(s)

-----------------------------------------------------------------------------
(* Mode A.                                                                   *)

Here == items[at]
BranchOf(item, name) == IF name = "then" THEN item.body ELSE item.otherwise

Positions(b) == [k \in DOMAIN b.steps |-> k]

SkipEntries(mode, item, name) ==
    [k \in DOMAIN BranchOf(item, name).steps |->
        [mode |-> mode, conditions |-> ConditionsOf(item),
         step |-> BranchOf(item, name).steps[k]]]

Running == status = "running" /\ at <= Len(items)

Enter(name, r) ==
    /\ branch' = name /\ round' = r /\ left' = Positions(BranchOf(Here, name))
    /\ UNCHANGED at

NextItem ==
    /\ at' = at + 1 /\ branch' = "none" /\ round' = 0 /\ left' = <<>>

Unmoved == UNCHANGED <<textVars, verdict, given, bound, row, listed, order, did, misses, status>>

(* The generator comes to an item.                                           *)
EnterItem ==
    /\ Running /\ branch = "none"
    /\ LET holds == GuardHolds(Here, bound, given) IN
       \/ /\ Mode(Here) = "none"
          /\ Enter("then", 1) /\ UNCHANGED skips
       \/ /\ Mode(Here) = "when" /\ holds
          /\ Enter("then", 1) /\ UNCHANGED skips
       \/ /\ Mode(Here) = "when" /\ ~holds
          /\ skips' = skips \o SkipEntries("when", Here, "then")
          /\ IF Here.otherwise = NoBranch THEN NextItem ELSE Enter("otherwise", 1)
       \/ /\ Mode(Here) = "repeat"
          /\ IF Counts[Here.guard[2]] = 0 THEN NextItem ELSE Enter("then", 1)
          /\ UNCHANGED skips
       \/ /\ Mode(Here) = "until" /\ holds
          /\ skips' = skips \o SkipEntries("until", Here, "then")
          /\ NextItem
       \/ /\ Mode(Here) = "until" /\ ~holds
          /\ Enter("then", 1) /\ UNCHANGED skips
    /\ Unmoved

SiteAt(k) ==
    [item |-> at, branch |-> branch, block |-> BranchOf(Here, branch).block, at |-> k,
     step |-> BranchOf(Here, branch).steps[k], does |-> Of(BranchOf(Here, branch).steps[k])]

(* What a step reads and does not find; an emit or a call sends it as null.  *)
MissesOf(site) == {<<site, n>> : n \in {m \in site.does.refs : bound[m] = NoRow}}

(* One step.  A parallel block's run in any order, other steps in theirs.    *)
RunStep(i) ==
    /\ Running /\ i \in DOMAIN left
    /\ i = 1 \/ BranchOf(Here, branch).block = "parallel"
    /\ LET site == SiteAt(left[i])
           result == After(Scope(bound, row, listed), site.does, given)
       IN /\ order' = Append(order, site.step)
          /\ misses' = IF site.does.op = "respond" THEN misses ELSE misses \cup MissesOf(site)
          /\ bound' = result.to.bound /\ row' = result.to.row /\ listed' = result.to.listed
          /\ did' = IF result.ok THEN did \cup {site} ELSE did
          /\ status' = IF result.ok THEN "running" ELSE "failed"
          /\ left' = RemoveAt(left, i)
    /\ UNCHANGED <<textVars, verdict, given, at, branch, round, skips>>

(* The generator resumes after the last step of a branch.                    *)
EndRound ==
    /\ Running /\ branch # "none" /\ left = <<>>
    /\ LET over == \/ GuardHolds(Here, bound, given)
                   \/ round >= RoundCap
       IN \/ /\ Mode(Here) = "repeat" /\ round < Counts[Here.guard[2]]
             /\ Enter("then", round + 1) /\ UNCHANGED skips
          \/ /\ Mode(Here) = "until" /\ ~over
             /\ Enter("then", round + 1) /\ UNCHANGED skips
          \/ /\ Mode(Here) = "until" /\ over
             /\ NextItem /\ UNCHANGED skips
          \/ /\ Mode(Here) = "repeat" => round >= Counts[Here.guard[2]]
             /\ Mode(Here) # "until"
             /\ skips' = IF branch = "then" /\ Here.otherwise # NoBranch
                         THEN skips \o SkipEntries("otherwise", Here, "otherwise") ELSE skips
             /\ NextItem
    /\ Unmoved

(* run_workflow after the loop: the answers of the responds that ran are     *)
(* taken from the scope as it is now, and the run is committed.              *)
Complete ==
    /\ status = "running" /\ at > Len(items)
    /\ status' = "completed"
    /\ misses' = misses \cup UNION {MissesOf(s) : s \in {d \in did : d.does.op = "respond"}}
    /\ UNCHANGED <<textVars, verdict, given, at, branch, round, left, bound, row, listed,
                   order, skips, did>>

-----------------------------------------------------------------------------

(* The compiler's verdict, and the start of the run of an accepted text.     *)
Lower ==
    /\ phase = "parsed" /\ verdict = "none"
    /\ verdict' = IF Accepted(items) THEN "accepted" ELSE "rejected"
    /\ UNCHANGED <<textVars, runVars>>

Start ==
    /\ verdict = "accepted" /\ status = "none"
    /\ given' \in Givens
    /\ at' = 1 /\ status' = "running"
    /\ row' = IF Seeded(items) THEN given'.input ELSE NoRow
    /\ UNCHANGED <<textVars, verdict, branch, round, left, bound, listed, order, skips, did,
                   misses>>

Init ==
    /\ TextInit /\ verdict = "none"
    /\ given = [input |-> 0, token |-> FALSE, answers |-> FALSE]
    /\ at = 0 /\ branch = "none" /\ round = 0 /\ left = <<>>
    /\ bound = Unbound /\ row = NoRow /\ listed = NoRow
    /\ order = <<>> /\ skips = <<>> /\ did = {} /\ misses = {}
    /\ status = "none"

Parse == TextNext /\ UNCHANGED <<verdict, runVars>>

Next ==
    \/ Parse \/ Lower \/ Start
    \/ EnterItem \/ EndRound \/ Complete \/ \E i \in DOMAIN left : RunStep(i)

Spec == Init /\ [][Next]_vars

-----------------------------------------------------------------------------
(* Mode B.                                                                   *)

AssignsBefore(its, i) == {s.does.sets : s \in {x \in SiteSet(its) : x.item < i}} \ {""}

(* _assigned_guard_offender: a guard reads what an earlier step assigned.    *)
AssignedGuard(its) ==
    \E i \in DOMAIN its : \E c \in Range(ConditionsOf(its[i])) :
        Condition[c].ref \in AssignsBefore(its, i)

(* _refuse_unsupported_guards: what mode B has no code for.                  *)
RefusedByB(its) ==
    \/ \E s \in SiteSet(its) : s.does.op \in {"fail", "cached"}
    \/ \E i \in DOMAIN its : its[i].otherwise # NoBranch
    \/ AssignedGuard(its)

(* _steps_in_order: repeat and until unroll, until to the cap; a step of a   *)
(* when or of a round of an until keeps its guard.                           *)
Planned(its, i, r) ==
    LET steps == In(i, "then", its[i].body)
    IN [k \in DOMAIN steps |->
            [mode |-> IF Mode(its[i]) = "repeat" THEN "none" ELSE Mode(its[i]),
             conditions |-> ConditionsOf(its[i]), round |-> r,
             step |-> steps[k].step, does |-> steps[k].does]]

RoundsOf(item) ==
    IF Mode(item) = "repeat" THEN Counts[item.guard[2]]
    ELSE IF Mode(item) = "until" THEN RoundCap ELSE 1

Plan(its) ==
    FlattenSeq([i \in DOMAIN its |-> FlattenSeq([r \in 1..RoundsOf(its[i]) |-> Planned(its, i, r)])])

(* Mutant of BackedAfter: a deleted row still backs the entity.              *)
BackedAfterDelete(was, op) == was \/ op = "create"

(* Whether the entity has a row once an op no guard owns has run.            *)
BackedAfter(was, op) == op = "create" \/ (was /\ op # "delete")

(* The failure scan of _lnpl_ops: of the ops no guard owns, the first one    *)
(* that fails, judged by whether the entity has a row.  A guarded op can     *)
(* neither fail nor create here.                                             *)
Scan(plan, seeded) ==
    FoldLeft(LAMBDA acc, op :
                IF acc.cut # 0 THEN acc
                ELSE LET n == acc.n + 1
                         fails == \/ op.does.op \in {"read", "update", "delete"} /\ ~acc.backed
                                  \/ op.does.op = "create" /\ acc.backed
                                  \/ op.does.op = "cache" /\ ~HasCacheBudget
                     IN IF op.mode # "none" THEN [acc EXCEPT !.n = n]
                        ELSE IF fails THEN [acc EXCEPT !.n = n, !.cut = n]
                        ELSE [acc EXCEPT !.n = n, !.backed = BackedAfter(@, op.does.op)],
             [n |-> 0, cut |-> 0, backed |-> seeded], plan)

(* _lnpl_ops: the plan ends with the op that fails.                          *)
Compiled(its) ==
    LET plan == Plan(its)
        cut == Scan(plan, Seeded(its)).cut
    IN [ops |-> IF cut = 0 THEN plan ELSE SubSeq(plan, 1, cut),
        status |-> IF cut = 0 THEN "completed" ELSE "failed"]

(* condition_field_names and seed_bindings: the values the binary is given,  *)
(* a seeded entity's from the payload, and 0 for what does not resolve.      *)
EntryValue(its, name, g) ==
    IF name = "input" \/ (name = "e" /\ Seeded(its)) THEN g.input ELSE 0

IsPresence(c) == Condition[c].kind = "presence"

(* _derive_skip_from_payload: one flag for the run, from the first `when`    *)
(* whose condition is a presence.                                            *)
PresenceWhens(its) ==
    {i \in DOMAIN its : Mode(its[i]) = "when" /\ IsPresence(its[i].guard[2])}

SkipFlag(its, g) ==
    /\ PresenceWhens(its) # {}
    /\ LET first == CHOOSE i \in PresenceWhens(its) : \A j \in PresenceWhens(its) : i <= j
       IN ~HoldsIn(Unbound, its[first].guard[2], g)

EntryHolds(its, c, g) == EntryValue(its, Condition[c].ref, g) = Condition[c].want

(* _render_std: which ops of the plan the binary runs.                       *)
TakenByB(its, op, g) ==
    LET compilable == \A c \in Range(op.conditions) : ~IsPresence(c)
        holds == \E c \in Range(op.conditions) : EntryHolds(its, c, g)
    IN CASE op.mode = "none" -> TRUE
         [] op.mode = "when" -> IF compilable THEN holds ELSE ~SkipFlag(its, g)
         [] op.mode = "until" -> compilable => ~holds

(* observe_mode_b and restore_skips: what is seen of the binary's run.       *)
ObservedB(its, g) ==
    LET b == Compiled(its)
        names(ops) == [k \in DOMAIN ops |-> ops[k].step]
        skipped(op) == /\ ~TakenByB(its, op, g)
                       /\ op.mode = "until" => op.round = 1
        missing == SelectSeq(b.ops, skipped)
    IN [order |-> names(SelectSeq(b.ops, LAMBDA op : TakenByB(its, op, g))),
        skips |-> [k \in DOMAIN missing |->
                      [mode |-> missing[k].mode, conditions |-> missing[k].conditions,
                       step |-> missing[k].step]],
        status |-> b.status]

Over == status \in {"completed", "failed"}

(* observe_mode_a.                                                           *)
ObservedA == [order |-> order, skips |-> skips, status |-> status]

-----------------------------------------------------------------------------
(* Properties.                                                               *)

(* The two guards are written alike, and the steps are in the same branch.   *)
WrittenAlike(its, a, b) == its[a.item].guard = its[b.item].guard /\ a.branch = b.branch

(* Why a step may run without c having run before it, although the compiler  *)
(* takes c for its own: the guards are only written alike, or, for a read,   *)
(* c comes later or in the same parallel block.                              *)
OnlyWrittenAlike(its, c, s) ==
    WrittenAlike(its, c, s) /\ Mode(its[s.item]) # "none" /\ c.item # s.item

NotBefore(c, s) == ~Before(c, s) \/ (SameBlock(c, s) /\ s.block = "parallel")

(* No warning, no surprise: a step that finds a result unbound without a     *)
(* warning of the compiler has a creator that excuses the compiler: one no   *)
(* guard owns, or of the step's own branch, that is not before the step, or  *)
(* one whose guard is only written like the step's.                          *)
UnboundReadsAreExplained ==
    \A m \in misses : m[2] \in ResultNames /\ ~Escapes(items, m[1], m[2]) =>
        \E c \in Binders(items, m[2]) :
            \/ OnlyWrittenAlike(items, c, m[1])
            \/ /\ Mode(items[c.item]) = "none" \/ SameBlock(c, m[1])
               /\ NotBefore(c, m[1])

(* A completed run that emitted the event without a warning has created an   *)
(* e, or the creation in the text is under a guard only written like the     *)
(* emit's.                                                                   *)
SourcedEmitsAreHonest ==
    status = "completed" =>
        \A s \in {d \in did : d.does.op = "emit"} : ~SourceMismatch(items, s) =>
            \/ \E c \in did : c.does.op = "create"
            \/ \E c \in SiteSet(items) : c.does.op = "create" /\ OnlyWrittenAlike(items, c, s)

(* An aggregate that is not reported to read an empty list has had one       *)
(* filled, but in the parallel block of both.                                *)
AggregatesAreFilled ==
    \A s \in did : s.does.op = "sum" /\ ~AggregationOrphaned(items, s) =>
        \/ \E q \in did : q.does.op = "query"
        \/ \E q \in SiteSet(items) :
              q.does.op = "query" /\ SameBlock(q, s) /\ s.block = "parallel"

(* What no warning of the compiler promises of a run: its results are bound, *)
(* its events have happened and its aggregates have their lists.             *)
WarningsAreComplete == UnboundReadsAreExplained /\ SourcedEmitsAreHonest /\ AggregatesAreFilled

(* Whether a run is within what the back end says it can predict: the guards *)
(* read the payload, or a row that was seeded and that an unguarded step     *)
(* read before; a presence stands alone and all of them come out alike; an   *)
(* until does not assign what it waits for; no step is concurrent; and mode  *)
(* A neither failed nor created or deleted the row under a guard, nor failed *)
(* to assign (the scan has no failing assignments and no guarded calls).     *)
GuardKnown(its, i) ==
    \A c \in Range(ConditionsOf(its[i])) :
        \/ Condition[c].ref \in {"input", "token"}
        \/ /\ Condition[c].ref = "e" /\ Seeded(its)
           /\ \E r \in Binders(its, "e") : r.item < i /\ Mode(its[r.item]) = "none"

PresencesAlike(its, g) ==
    /\ \A i \in DOMAIN its : \A c \in Range(ConditionsOf(its[i])) :
          IsPresence(c) => Mode(its[i]) = "when" /\ its[i].alternatives = <<>>
    /\ \A i, j \in PresenceWhens(its) :
          HoldsIn(Unbound, its[i].guard[2], g) = HoldsIn(Unbound, its[j].guard[2], g)

Predictable ==
    /\ ~RefusedByB(items) /\ given.answers
    /\ \A i \in DOMAIN items : GuardKnown(items, i)
    /\ PresencesAlike(items, given)
    /\ \A s \in SiteSet(items) :
          /\ s.block # "parallel"
          /\ Mode(items[s.item]) = "until" =>
                \A c \in Range(ConditionsOf(items[s.item])) : s.does.sets # Condition[c].ref
    /\ \A s \in did : s.does.op \in {"create", "delete"} =>
          Mode(items[s.item]) \in {"none", "repeat"}
    /\ \A s, d \in did : d.does.op = "delete" => s.does.sets = ""
    /\ status = "failed" =>
          /\ Mode(Here) \in {"none", "repeat"}
          /\ Of(Last(order)).sets = ""

(* Within that, both modes run the same steps in the same order, skip the    *)
(* same ones and end alike.                                                  *)
ModesAgree == Over /\ Predictable => ObservedA = ObservedB(items, given)
=============================================================================
