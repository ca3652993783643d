---------------------------- MODULE WorkflowText ----------------------------
(* How the parser turns the lines of a workflow body into items (parser.py). *)
(* An item is a step or a block, perhaps owned by a guard; a guard may own a *)
(* second one, its `otherwise`.  A block is closed by a keyword and never by *)
(* indentation, so what a line means depends on what the lines before it     *)
(* left open: a block, a guard that owns nothing yet, an `otherwise` that    *)
(* owns nothing yet, and whether the last item may still get an `otherwise`. *)
(*                                                                           *)
(* A line is its keyword and the rest of it.  Columns only refuse a layout   *)
(* that contradicts the structure (_check_guard_layout,                      *)
(* _check_pipeline_layout) and are left out.                                 *)
EXTENDS Naturals, Sequences, SequencesExt

CONSTANTS
    Alphabets,   \* sets of lines; a text is written with one of them
    MaxLines     \* bound on the length of a text

VARIABLES
    alphabet,    \* the lines this text is written with
    text,        \* the lines read so far
    items,       \* Decl.items
    open,        \* the open block: "none", "parallel" or "pipeline"
    pending,     \* _pending_guard: the guard that owns nothing yet, or <<>>
    alternatives,\* the conditions its `or` lines added
    owed,        \* _pending_otherwise: an `otherwise` owns nothing yet
    slot,        \* the last item's: "none", "free", "filled" or "refused"
    phase        \* "reading", "parsed" or "refused"

(* The name of a pipeline and what follows a `merge` are left out: the lines  *)
(* that only open, close or announce are said by their keyword.              *)
ASSUME TextAssumption ==
    \A line \in UNION Alphabets :
        /\ line = <<line[1], line[2]>>
        /\ line[1] \in {"parallel", "pipeline", "merge", "otherwise"} => line[2] = ""

textVars == <<alphabet, text, items, open, pending, alternatives, owed, slot, phase>>

Keyword(line) == line[1]
Rest(line) == line[2]

Guards == {"when", "until", "repeat"}
Blocks == {"parallel", "pipeline"}

NoBranch == [block |-> "none", steps |-> <<>>]
Single(step) == [block |-> "none", steps |-> <<step>>]
Opened(kind) == [block |-> kind, steps |-> <<>>]

Lines == UNION Alphabets
Branches == [block : {"none"} \cup Blocks, steps : Seq({Rest(l) : l \in Lines})]

TextTypeOK ==
    /\ alphabet \in Alphabets /\ text \in Seq(alphabet) /\ Len(text) <= MaxLines
    /\ open \in {"none"} \cup Blocks /\ owed \in BOOLEAN
    /\ pending \in {<<>>} \cup {l \in alphabet : Keyword(l) \in Guards}
    /\ alternatives \in Seq({Rest(l) : l \in Lines})
    /\ slot \in {"none", "free", "filled", "refused"}
    /\ phase \in {"reading", "parsed", "refused"}
    /\ \A i \in DOMAIN items :
          /\ items[i].guard \in {<<>>} \cup {l \in alphabet : Keyword(l) \in Guards}
          /\ items[i].body \in Branches /\ items[i].otherwise \in Branches

TextInit ==
    /\ alphabet \in Alphabets
    /\ text = <<>> /\ items = <<>> /\ open = "none" /\ pending = <<>> /\ alternatives = <<>>
    /\ owed = FALSE /\ slot = "none" /\ phase = "reading"

-----------------------------------------------------------------------------

(* The block that is open is the last item's: its `otherwise` if that has    *)
(* been given one, its guarded item else.                                    *)
IntoOpenBlock(step) ==
    LET last == Len(items)
        branch == IF slot = "filled" THEN "otherwise" ELSE "body"
    IN items' = [items EXCEPT ![last][branch].steps = Append(@, step)]

(* _attach: an item fills the `otherwise` that is owed, or ends the last     *)
(* item's claim to one and is appended, under the guard that is pending.     *)
Attach(branch) ==
    IF owed
    THEN /\ items' = [items EXCEPT ![Len(items)].otherwise = branch]
         /\ owed' = FALSE /\ slot' = "filled"
         /\ UNCHANGED <<pending, alternatives>>
    ELSE /\ items' = Append(items, [guard |-> pending, alternatives |-> alternatives,
                                    body |-> branch, otherwise |-> NoBranch])
         /\ slot' = IF pending = <<>> THEN "none"
                    ELSE IF Keyword(pending) = "when" THEN "free" ELSE "refused"
         /\ pending' = <<>> /\ alternatives' = <<>>
         /\ UNCHANGED owed

CanMerge == open = "parallel"

(* Mutant: a guard line replaces a guard that owns nothing yet.               *)
CanGuardOverPending == open # "parallel" /\ ~owed

(* A guard needs no guard before it that still owns nothing, nor an open     *)
(* parallel; CanOtherwise: the last item answers to an unfilled `when`.      *)
CanGuard == open # "parallel" /\ ~owed /\ pending = <<>>

CanOtherwise == open # "parallel" /\ pending = <<>> /\ ~owed /\ slot = "free"

Merge(line) ==
    /\ Keyword(line) = "merge" /\ CanMerge
    /\ open' = "none"
    /\ UNCHANGED <<items, pending, alternatives, owed, slot>>

(* A pipeline ends at the next keyword, so only an open parallel conflicts.  *)
OpenBlock(line) ==
    /\ Keyword(line) \in Blocks /\ open # "parallel"
    /\ Attach(Opened(Keyword(line)))
    /\ open' = Keyword(line)

Guard(line) ==
    /\ Keyword(line) \in Guards /\ CanGuard
    /\ pending' = line /\ alternatives' = <<>> /\ open' = "none"
    /\ UNCHANGED <<items, owed, slot>>

(* `or` continues a pending `when`; anywhere else it is an ordinary word.    *)
Alternative(line) ==
    /\ Keyword(line) = "or" /\ pending # <<>> /\ Keyword(pending) = "when"
    /\ alternatives' = Append(alternatives, Rest(line))
    /\ UNCHANGED <<items, open, pending, owed, slot>>

Otherwise(line) ==
    /\ Keyword(line) = "otherwise" /\ CanOtherwise
    /\ owed' = TRUE /\ open' = "none"
    /\ UNCHANGED <<items, pending, alternatives, slot>>

Step(line) ==
    /\ \/ Keyword(line) = "step"
       \/ Keyword(line) = "or" /\ pending = <<>>
    /\ IF open # "none"
       THEN IntoOpenBlock(Rest(line)) /\ UNCHANGED <<pending, alternatives, owed, slot>>
       ELSE Attach(Single(Rest(line)))
    /\ UNCHANGED open

Taken(line) ==
    \/ Merge(line) \/ OpenBlock(line) \/ Guard(line)
    \/ Alternative(line) \/ Otherwise(line) \/ Step(line)

(* ParseError at this line.                                                  *)
Refused(line) ==
    \/ Keyword(line) = "merge" /\ ~CanMerge
    \/ Keyword(line) \in Blocks /\ open = "parallel"
    \/ Keyword(line) \in Guards /\ ~CanGuard
    \/ Keyword(line) = "or" /\ pending # <<>> /\ Keyword(pending) # "when"
    \/ Keyword(line) = "otherwise" /\ ~CanOtherwise

ReadLine(line) ==
    /\ phase = "reading" /\ Len(text) < MaxLines
    /\ text' = Append(text, line)
    /\ \/ Taken(line) /\ UNCHANGED phase
       \/ /\ Refused(line) /\ phase' = "refused"
          /\ UNCHANGED <<items, open, pending, alternatives, owed, slot>>
    /\ UNCHANGED alphabet

(* What parse checks when the declaration ends.                              *)
EndsOpen == open = "parallel" \/ pending # <<>> \/ owed

EndOfText ==
    /\ phase = "reading"
    /\ phase' = IF EndsOpen THEN "refused" ELSE "parsed"
    /\ UNCHANGED <<alphabet, text, items, open, pending, alternatives, owed, slot>>

TextNext == EndOfText \/ \E line \in alphabet : ReadLine(line)

-----------------------------------------------------------------------------

(* The lines that say what a list of items says.  An `or` that is a step is  *)
(* written as it was read, and a pipeline has no closing line.               *)
Steps(branch) == [k \in DOMAIN branch.steps |-> <<"step", branch.steps[k]>>]

Written(branch) ==
    IF branch.block = "none" THEN Steps(branch)
    ELSE <<<<branch.block, "">>>> \o Steps(branch)
         \o (IF branch.block = "parallel" THEN <<<<"merge", "">>>> ELSE <<>>)

Unparsed(item) ==
    (IF item.guard = <<>> THEN <<>> ELSE <<item.guard>>)
    \o [k \in DOMAIN item.alternatives |-> <<"or", item.alternatives[k]>>]
    \o Written(item.body)
    \o (IF item.otherwise = NoBranch THEN <<>>
        ELSE <<<<"otherwise", "">>>> \o Written(item.otherwise))

(* An `or` that was read as a step.                                          *)
AsStep(line) == <<"step", Rest(line)>>

(* Two texts that differ at most in `or` lines read as steps.                *)
SameLines(a, b) ==
    /\ Len(a) = Len(b)
    /\ \A k \in DOMAIN a : a[k] = b[k] \/ (Keyword(b[k]) = "or" /\ a[k] = AsStep(b[k]))

(* Every line of an accepted text is in its items, once, in its place and    *)
(* under its owner: no guard is overwritten, no block's steps are lost, and  *)
(* no `otherwise` moves to another guard (the silent loss of issue #45).     *)
NothingIsDropped ==
    phase = "parsed" =>
        SameLines(FlattenSeq([i \in DOMAIN items |-> Unparsed(items[i])]), text)
=============================================================================
