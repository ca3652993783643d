------------------------------- MODULE Values -------------------------------
(* What a guard decides and what a `set` writes: the judgement of lowering    *)
(* over the text (lower.py: dimensions, text equality, presence, aggregates), *)
(* the evaluation of an accepted text against a row (interp.py, money.py) and  *)
(* the guard mode B compiles to i64 instructions (backend.py).               *)
(* A value is [is, n, tag]: n the number, the epoch milliseconds or the minor *)
(* units; tag the currency or the text.  The range MinInt..MaxInt stands for  *)
(* the 64 bits.  `or` alternatives are in TwoModes.                           *)
EXTENDS Integers, Sequences, FiniteSets, SequencesExt

CONSTANTS Fields,      \* qualified name |-> [type, optional, of] of its declaration
          Bare,        \* names without a dot
          Known,       \* the Bare ones some entity declares as a field
          Foreign,     \* names bound by a call, or of the caller: no declaration
          Members,     \* the members of the one enum refinement of Text, "Status"
          Texts,       \* what a workflow may hold: guards and assignments
          ValuesOf,    \* name |-> what a row or an input may hold there
          Rowsets,     \* what a `list` may have filled: sequences of field values
          MinInt, MaxInt

VARIABLES text,        \* the guard or assignment
          lowered,     \* "pending", "accepted" or "refused"
          holding,     \* what each name it refers to held when it was evaluated
          outcome      \* what the evaluation came to, NotRun before

valueVars == <<text, lowered, holding, outcome>>

-----------------------------------------------------------------------------
(* Values and texts. *)

V(is, n, tag) == [is |-> is, n |-> n, tag |-> tag]
Absent == V("absent", 0, "")
Fault(why) == V("fault", 0, why)
NotRun == V("not-run", 0, "")
Verdict(b) == V("verdict", IF b THEN 1 ELSE 0, "")

Lit(n) == [kind |-> "lit", n |-> n]
Ref(name) == [kind |-> "ref", name |-> name]
Arith(left, op, right) == [kind |-> "arith", left |-> left, op |-> op, right |-> right]
Term(left, op, right) == [left |-> left, op |-> op, right |-> right]

(* A guard is a conjunction of comparisons, or one presence or numeric-shape *)
(* predicate; an assignment writes a value or an aggregate, below a guard    *)
(* that tests `under` for presence, or "nothing".                            *)
Guard(terms) == [kind |-> "compare", terms |-> terms]
Test(is, name) == [kind |-> "test", is |-> is, name |-> name]
Set(target, value, under) ==
  [kind |-> "set", target |-> target, value |-> value, under |-> under]
Reduce(target, func, field) ==
  [kind |-> "aggregate", target |-> target, func |-> func, field |-> field]

RefsOf(v) == CASE v.kind = "ref" -> {v.name}
               [] v.kind = "arith" -> {o.name : o \in {x \in {v.left, v.right} : x.kind = "ref"}}
               [] OTHER -> {}

TermsOf(t) == IF t.kind = "compare" THEN {t.terms[i] : i \in DOMAIN t.terms} ELSE {}
RefsIn(t) ==
  CASE t.kind = "compare" -> UNION {RefsOf(c.left) \cup RefsOf(c.right) : c \in TermsOf(t)}
    [] t.kind = "test" -> {t.name}
    [] t.kind = "set" -> RefsOf(t.value) \cup ({t.under} \ {"nothing"})
    [] t.kind = "aggregate" -> {}

Equalities == {"==", "!="}

(* The grammar of the texts, and what rows of the declared types hold (a     *)
(* Text is compared as text even where it spells an instant).                *)
Names == DOMAIN Fields \cup Bare \cup Foreign
Operands == [kind : {"lit"}, n : Int] \cup [kind : {"ref"}, name : Names]
Expressions == Operands \cup [kind : {"arith"}, left : Operands, op : {"+", "-", "*", "/"},
                              right : Operands]
Terms == [left : Expressions, op : {"<", "<=", ">", ">="} \cup Equalities, right : Expressions]
Grammar ==
  [kind : {"compare"}, terms : Seq(Terms) \ {<<>>}]
  \cup [kind : {"test"}, is : {"exists", "missing", "is-numeric", "is-not-numeric"}, name : Names]
  \cup [kind : {"set"}, target : Names, value : Expressions, under : Names \cup {"nothing"}]
  \cup [kind : {"aggregate"}, target : Names, func : {"count", "sum", "avg", "min", "max"},
        field : DOMAIN Fields \cup {"none"}]

Types == {"Integer", "DateTime", "Money", "Text", "Email", "Status", "Password"}
Forms(type) == CASE type = "Integer" -> {"int"}
                 [] type = "DateTime" -> {"instant", "zoneless"}
                 [] type = "Money" -> {"money", "unscaled"}
                 [] OTHER -> {"text", "digits"}
AllValues ==
  [is : {"absent", "int", "bool", "digits", "instant", "zoneless", "money", "unscaled", "text"},
   n : Int, tag : STRING]

ValuesAssumption ==
  /\ MinInt \in Int /\ MaxInt \in Int /\ MinInt < 0 /\ MaxInt > 0
  /\ Known \subseteq Bare
  /\ DOMAIN Fields \cap (Bare \cup Foreign) = {} /\ "nothing" \notin Names
  /\ \A f \in DOMAIN Fields :
        /\ Fields[f] \in [type : Types, optional : BOOLEAN, of : {"row", "input", "disputed-input"}]
        /\ \A v \in ValuesOf[f] : \/ v.is \in Forms(Fields[f].type)
                                  \/ Fields[f].optional /\ v = Absent
  /\ \A name \in Names : ValuesOf[name] \subseteq AllValues
  /\ Texts \subseteq Grammar
  /\ \A list \in Rowsets : list \in Seq(AllValues)

-----------------------------------------------------------------------------
(* Lowering. *)

Base(type) == IF type = "Status" THEN "Text" ELSE type
TextBases == {"Text", "Email"}

(* _Scope.check_reference: the dimension of a name, "unknown" when the        *)
(* document declares no type for it.                                         *)
DimensionOf(name, equality, presence) ==
  IF name \notin DOMAIN Fields THEN "unknown"
  ELSE LET base == Base(Fields[name].type)
       IN CASE presence /\ Fields[name].optional -> "any"
            [] equality /\ base \in TextBases -> "text"
            [] base = "Integer" -> "scalar"
            [] base = "DateTime" -> "instant"
            [] base = "Money" -> "money"
            [] OTHER -> "refused"       \* a Password, even in an equality, too

(* Mutant: the sum of two instants is an instant.                            *)
InstantsAdded(op) == IF op = "-" THEN "scalar" ELSE "instant"

(* Two instants have a difference, an elapsed time; their sum names nothing.  *)
Instants(op) == IF op = "-" THEN "scalar" ELSE "refused"

(* Arithmetic has a dimension of its own: Money with Money, Money times a     *)
(* number, an instant and an elapsed time.                                   *)
Combined(op, left, right) ==
  LET both == {left, right}
  IN IF "refused" \in both THEN "refused"
     ELSE IF "unknown" \in both THEN "unknown"
     ELSE CASE both = {"money"} -> IF op \in {"+", "-"} THEN "money" ELSE "refused"
            [] both = {"money", "scalar"} -> IF op = "*" THEN "money" ELSE "refused"
            [] both = {"money", "instant"} -> "refused"
            [] both = {"instant"} -> Instants(op)
            [] both = {"instant", "scalar"} -> "instant"
            [] OTHER -> "scalar"

ValueDimension(v, equality) ==
  LET direct(o, eq) == IF o.kind = "lit" THEN "scalar" ELSE DimensionOf(o.name, eq, FALSE)
  IN IF v.kind = "arith" THEN Combined(v.op, direct(v.left, FALSE), direct(v.right, FALSE))
     ELSE direct(v, equality)

DividesByLiteralZero(v) == v.kind = "arith" /\ v.op = "/" /\ v.right = Lit(0)

DeclaredType(v) ==
  IF v.kind = "ref" /\ v.name \in DOMAIN Fields THEN Fields[v.name].type ELSE "none"

(* A bare name across from an enum is a literal, and must be a member.       *)
IsMember(v, other) ==
  v.kind = "ref" /\ v.name \in Bare /\ DeclaredType(other) = "Status" => v.name \in Members

TextTermAccepted(c, left, right) ==
  /\ c.left.kind # "arith" /\ c.right.kind # "arith"
  /\ {left, right} \subseteq {"text", "unknown"}
  /\ "none" \in {DeclaredType(c.left), DeclaredType(c.right)}
     \/ Base(DeclaredType(c.left)) = Base(DeclaredType(c.right))
  /\ IsMember(c.left, c.right) /\ IsMember(c.right, c.left)

IsTextTerm(c) ==
  c.op \in Equalities /\ "text" \in {ValueDimension(c.left, TRUE), ValueDimension(c.right, TRUE)}

TermAccepted(c) ==
  LET left == ValueDimension(c.left, c.op \in Equalities)
      right == ValueDimension(c.right, c.op \in Equalities)
  IN /\ ~(c.left.kind = "lit" /\ c.right.kind = "lit")
     /\ ~DividesByLiteralZero(c.left) /\ ~DividesByLiteralZero(c.right)
     /\ "refused" \notin {left, right}
     /\ IF "text" \in {left, right} THEN TextTermAccepted(c, left, right)
        ELSE "unknown" \in {left, right} \/ left = right

(* An `input` field two entities declare, and not both as optional, has no   *)
(* presence test.                                                            *)
Disputed(name) == name \in DOMAIN Fields /\ Fields[name].of = "disputed-input"

GuardAccepted(t) ==
  IF t.kind = "compare" THEN \A c \in TermsOf(t) : TermAccepted(c)
  ELSE LET presence == t.is \in {"exists", "missing"}
       IN /\ presence => ~Disputed(t.name)
          /\ DimensionOf(t.name, FALSE, presence) \notin {"refused", "money"}

(* Recorded on the Guard node: the names its text equalities compare.        *)
TextNames(t) ==
  UNION {RefsOf(c.left) \cup RefsOf(c.right) : c \in {x \in TermsOf(t) : IsTextTerm(x)}}

TargetAccepted(name) == name \in DOMAIN Fields /\ Fields[name].of = "row"

SetAccepted(t) ==
  LET target == DimensionOf(t.target, FALSE, FALSE)
      value == ValueDimension(t.value, FALSE)
  IN /\ TargetAccepted(t.target) /\ ~DividesByLiteralZero(t.value)
     /\ target # "refused" /\ value # "refused"
     /\ value = "unknown" \/ value = target
     /\ RefsOf(t.value) \cap Bare \subseteq Known

(* An aggregate checks the field it reads, and its target on its own.        *)
AggregateAccepted(t) ==
  /\ TargetAccepted(t.target) /\ DimensionOf(t.target, FALSE, FALSE) # "refused"
  /\ IF t.func = "count" THEN t.field = "none"
     ELSE /\ t.field # "none"
          /\ Base(Fields[t.field].type) \in
               {"Integer", "Money"} \cup (IF t.func \in {"min", "max"} THEN {"DateTime"} ELSE {})

Accepted(t) == CASE t.kind = "set" -> SetAccepted(t)
                 [] t.kind = "aggregate" -> AggregateAccepted(t)
                 [] OTHER -> GuardAccepted(t)

(* optional-field-unguarded-arithmetic: a bound row's optional field in      *)
(* arithmetic, not below the one guard that tests it.                        *)
Warned(t) ==
  /\ t.kind = "set" /\ t.value.kind = "arith"
  /\ \E f \in RefsOf(t.value) \cap DOMAIN Fields :
        Fields[f].of = "row" /\ Fields[f].optional /\ t.under # f

-----------------------------------------------------------------------------
(* Mode A. *)

Checked(is, n, tag) == IF n \in MinInt..MaxInt THEN V(is, n, tag) ELSE Fault("range")

(* eval_value of a reference: numbers, digits, zoned instants and Money.     *)
Read(v) ==
  CASE v.is \in {"int", "bool", "instant", "digits"} -> Checked("int", v.n, "")
    [] v.is \in {"absent", "money"} -> v
    [] v.is = "zoneless" -> Fault("zoneless")
    [] v.is = "unscaled" -> Fault("precision")
    [] v.is = "text" -> Fault("not-a-number")

Magnitude(n) == IF n < 0 THEN -n ELSE n

(* Toward zero, as the i64 instruction divides.                              *)
Truncated(a, b) ==
  LET q == Magnitude(a) \div Magnitude(b) IN IF (a < 0) # (b < 0) THEN -q ELSE q

MoneyArith(op, a, b) ==
  IF a.is = "money" /\ b.is = "money"
  THEN IF op \notin {"+", "-"} THEN Fault("money-product")
       ELSE IF a.tag # b.tag THEN Fault("currency")
       ELSE Checked("money", IF op = "+" THEN a.n + b.n ELSE a.n - b.n, a.tag)
  ELSE IF op # "*" THEN Fault("money-mix")
  ELSE Checked("money", a.n * b.n, IF a.is = "money" THEN a.tag ELSE b.tag)

(* The left operand is evaluated first, and its fault is the one raised.     *)
Applied(op, a, b) ==
  IF a.is = "fault" THEN a
  ELSE IF b.is = "fault" THEN b
  ELSE CASE "absent" \in {a.is, b.is} -> Absent
         [] "absent" \notin {a.is, b.is} /\ "money" \in {a.is, b.is} -> MoneyArith(op, a, b)
         [] OTHER -> IF op = "/" /\ b.n = 0 THEN Fault("division")
                     ELSE Checked("int", CASE op = "+" -> a.n + b.n [] op = "-" -> a.n - b.n
                                           [] op = "*" -> a.n * b.n
                                           [] op = "/" -> Truncated(a.n, b.n), "")

Eval(v, held) ==
  LET operand(o) == IF o.kind = "lit" THEN V("int", o.n, "") ELSE Read(held[o.name])
  IN IF v.kind = "arith" THEN Applied(v.op, operand(v.left), operand(v.right)) ELSE operand(v)

Compares(op, a, b) == CASE op = "<" -> a < b [] op = "<=" -> a <= b [] op = ">" -> a > b
                        [] op = ">=" -> a >= b [] op = "==" -> a = b [] op = "!=" -> a # b

(* A bare name is its own text; any other is what it refers to.              *)
TextHolds(c, held) ==
  LET textOf(o) == CASE o.kind # "ref" -> Fault("not-text")
                     [] o.name \in Bare -> V("text", 0, o.name)
                     [] OTHER -> held[o.name]
      a == textOf(c.left) b == textOf(c.right)
  IN IF a.is = "fault" THEN a
     ELSE IF b.is = "fault" THEN b
     ELSE Verdict("absent" \notin {a.is, b.is} /\ (a = b) = (c.op = "=="))

TermHolds(c, texts, held) ==
  LET a == Eval(c.left, held) b == Eval(c.right, held)
      named == {o.name : o \in {x \in {c.left, c.right} : x.kind = "ref"}}
  IN IF c.op \in Equalities /\ named \cap texts # {} THEN TextHolds(c, held)
     ELSE IF a.is = "fault" THEN a
     ELSE IF b.is = "fault" THEN b
     ELSE IF "absent" \in {a.is, b.is} THEN Verdict(FALSE)
     ELSE IF a.is # b.is THEN Fault("money-mix")
     ELSE IF a.is # "money" THEN Verdict(Compares(c.op, a.n, b.n))
     ELSE IF c.op \in Equalities THEN Verdict((a = b) = (c.op = "=="))
     ELSE IF a.tag # b.tag THEN Fault("currency")
     ELSE Verdict(Compares(c.op, a.n, b.n))

(* Every term is evaluated, so a fault in a later one is never skipped.      *)
Holds(t, held) ==
  LET results == [i \in DOMAIN t.terms |-> TermHolds(t.terms[i], TextNames(t), held)]
      faults == {i \in DOMAIN results : results[i].is = "fault"}
  IN IF faults # {} THEN results[CHOOSE i \in faults : \A j \in faults : i <= j]
     ELSE Verdict(\A i \in DOMAIN results : results[i].n = 1)

IsNumericShaped(v) == v.is \in {"int", "bool", "digits", "instant"}

TestHolds(t, held) ==
  Verdict(CASE t.is = "exists" -> held[t.name].is # "absent"
            [] t.is = "missing" -> held[t.name].is = "absent"
            [] t.is = "is-numeric" -> IsNumericShaped(held[t.name])
            [] t.is = "is-not-numeric" -> ~IsNumericShaped(held[t.name]))

(* An aggregate over what the list holds of the field, where it holds any: an *)
(* optional field's absence is skipped, a required one's fails.              *)
Half(total, count) ==
  LET q == total \div count r == 2 * (total % count)
  IN IF r > count \/ (r = count /\ q % 2 = 1) THEN q + 1 ELSE q

Present(rows) == {i \in DOMAIN rows : rows[i].is # "absent"}
First(indices) == CHOOSE i \in indices : \A j \in indices : i <= j

(* An absent field counts 0.                                                 *)
Total(rows) == FoldLeft(LAMBDA sum, v : sum + v.n, 0, rows)

SumAvg(func, rows) ==
  LET there == Present(rows)
      total == Total(rows)
      partial == \A k \in there : Total(SubSeq(rows, 1, k)) \in MinInt..MaxInt
      first == rows[First(there)]
  IN IF \E i \in there : rows[i].is = "unscaled" THEN Fault("precision")
     ELSE IF \E i \in there : rows[i].tag # first.tag THEN Fault("currency")
     ELSE IF total \notin MinInt..MaxInt \/ (first.is # "money" /\ ~partial) THEN Fault("range")
     ELSE V(first.is, IF func = "sum" THEN total ELSE Half(total, Cardinality(there)), first.tag)

(* The first of the least or greatest, as the row holds it.                  *)
MinMax(func, rows) ==
  LET there == Present(rows)
      better(i, j) == IF func = "min" THEN rows[i].n < rows[j].n ELSE rows[i].n > rows[j].n
      best == {i \in there : \A j \in there : ~better(j, i)}
  IN IF \E i \in there : rows[i].is = "unscaled" THEN Fault("precision")
     ELSE IF \E i \in there : rows[i].is = "zoneless" THEN Fault("zoneless")
     ELSE IF \E i, j \in there : rows[i].tag # rows[j].tag THEN Fault("currency")
     ELSE rows[First(best)]

Aggregate(t, rows) ==
  LET there == Present(rows)
  IN IF t.func = "count" THEN V("int", Len(rows), "")
     ELSE IF there # DOMAIN rows /\ ~Fields[t.field].optional THEN Fault("no-field")
     ELSE IF there # {} THEN IF t.func \in {"sum", "avg"} THEN SumAvg(t.func, rows)
                             ELSE MinMax(t.func, rows)
     ELSE IF t.func # "sum" THEN Fault("empty")
     ELSE IF Base(Fields[t.field].type) = "Money" THEN V("money", 0, "null")
     ELSE V("int", 0, "")

(* What an Assignment persists: a Money pair in its wire form again, and     *)
(* anything else as it was computed.                                         *)
Assigned(v) == IF v.is = "absent" THEN Fault("unresolved") ELSE v

-----------------------------------------------------------------------------
(* Mode B. *)

(* What it refuses to compile: numeric-shape tests, Money, text equality and *)
(* optional fields.  A presence test is not decided by these instructions.   *)
Compilable(t) ==
  /\ t.kind = "compare"
  /\ \A f \in RefsIn(t) \cap DOMAIN Fields :
        ~Fields[f].optional /\ Base(Fields[f].type) \notin {"Money"} \cup TextBases

(* The i64 channel: integers and zoned instants, and 0 for anything else.    *)
Carried(v) == v.is \in {"int", "bool", "instant"}
Channel(v) == IF Carried(v) THEN v.n ELSE 0

Wrapped(n) == ((n - MinInt) % (MaxInt - MinInt + 1)) + MinInt

(* Mutant: the quotient is rounded down, as the host language does.          *)
DividesDown(a, b) == IF b = 0 THEN a ELSE IF b < 0 THEN (-a) \div (-b) ELSE a \div b

(* The divisor 0 is replaced, so the instruction is defined.                 *)
Divides(a, b) == Truncated(a, IF b = 0 THEN 1 ELSE b)

CompiledValue(v, held) ==
  LET operand(o) == IF o.kind = "lit" THEN o.n ELSE Channel(held[o.name])
      a == operand(v.left) b == operand(v.right)
  IN IF v.kind # "arith" THEN operand(v)
     ELSE Wrapped(CASE v.op = "+" -> a + b [] v.op = "-" -> a - b [] v.op = "*" -> a * b
                    [] v.op = "/" -> Divides(a, b))

Negated(op) == CASE op = "<" -> ">=" [] op = "<=" -> ">" [] op = ">" -> "<=" [] op = ">=" -> "<"
                 [] op = "==" -> "!=" [] op = "!=" -> "=="

(* `until` compiles its condition negated: one term flips its predicate, a   *)
(* conjunction is folded and then inverted.                                  *)
CompiledHolds(t, negate, held) ==
  LET single == Len(t.terms) = 1
      term(c) == Compares(IF negate /\ single THEN Negated(c.op) ELSE c.op,
                          CompiledValue(c.left, held), CompiledValue(c.right, held))
      all == \A c \in TermsOf(t) : term(c)
  IN IF negate /\ ~single THEN ~all ELSE all

-----------------------------------------------------------------------------
Init ==
  /\ text \in Texts
  /\ lowered = "pending"
  /\ holding = <<>>
  /\ outcome = NotRun

Lower ==
  /\ lowered = "pending"
  /\ lowered' = IF Accepted(text) THEN "accepted" ELSE "refused"
  /\ UNCHANGED <<text, holding, outcome>>

(* What the names of a text may hold.                                        *)
Holdings(names) == {h \in [names -> UNION {ValuesOf[n] : n \in names}] :
                      \A n \in names : h[n] \in ValuesOf[n]}

Decide ==
  /\ lowered = "accepted" /\ outcome = NotRun
  /\ text.kind \in {"compare", "test"}
  /\ \E h \in Holdings(RefsIn(text)) :
        /\ holding' = h
        /\ outcome' = IF text.kind = "test" THEN TestHolds(text, h) ELSE Holds(text, h)
  /\ UNCHANGED <<text, lowered>>

(* A step below its guard runs when the field is there.                      *)
Assign ==
  /\ lowered = "accepted" /\ outcome = NotRun
  /\ text.kind = "set"
  /\ \E h \in Holdings(RefsIn(text)) :
        /\ text.under # "nothing" => h[text.under].is # "absent"
        /\ holding' = h
        /\ outcome' = Assigned(Eval(text.value, h))
  /\ UNCHANGED <<text, lowered>>

AssignAggregate ==
  /\ lowered = "accepted" /\ outcome = NotRun
  /\ text.kind = "aggregate"
  /\ \E s \in Rowsets :
        /\ \A i \in DOMAIN s : s[i] \in IF text.field = "none" THEN {Absent}
                                        ELSE ValuesOf[text.field]
        /\ holding' = s
        /\ outcome' = Assigned(Aggregate(text, s))
  /\ UNCHANGED <<text, lowered>>

Done == (lowered = "refused" \/ outcome # NotRun) /\ UNCHANGED valueVars

Next == Lower \/ Decide \/ Assign \/ AssignAggregate \/ Done

Spec == Init /\ [][Next]_valueVars

-----------------------------------------------------------------------------
(* Properties. *)

Ran == lowered = "accepted" /\ outcome # NotRun

(* Names whose kind of value the document does not fix.                      *)
Undeclared == RefsIn(text) \ DOMAIN Fields

(* Faults of the values of a well-typed row, which no check of the text      *)
(* could foresee.                                                            *)
ValueFaults == {"division", "range", "currency", "zoneless", "precision"}

(* Lowering: an accepted text whose names are all declared faults, on rows   *)
(* of the declared types, only for a value; an assignment that fails because *)
(* an operand of its arithmetic is absent was warned about, unless the       *)
(* operand is the run's input.                                               *)
FaultsAreForeseen ==
  Ran /\ outcome.is = "fault" /\ Undeclared = {} =>
    \/ outcome.tag \in ValueFaults
    \/ text.kind = "aggregate" /\ outcome.tag \in {"empty", "no-field"}
    \/ /\ text.kind = "set" /\ outcome.tag = "unresolved"
       /\ \/ text.value.kind = "ref" \/ Warned(text)
          \/ \E f \in RefsOf(text.value) : Fields[f].of # "row" /\ holding[f] = Absent

(* The same row an instant later everywhere.                                 *)
Later(held) ==
  [n \in DOMAIN held |-> IF held[n].is = "instant" THEN V("instant", held[n].n + 1, "")
                         ELSE held[n]]

(* Accepted, though the result is neither a moment nor a duration.           *)
DistortsInstants(v) ==
  LET moment(o) == DimensionOf(o.name, FALSE, FALSE) = "instant"
  IN /\ v.kind = "arith" /\ v.op # "+"
     /\ \/ v.op \in {"*", "/"} /\ \E o \in {v.left, v.right} : o.kind = "ref" /\ moment(o)
        \/ v.op = "-" /\ v.right.kind = "ref" /\ moment(v.right)
             /\ ~(v.left.kind = "ref" /\ moment(v.left))

(* Dimensions: a guard over declared names compares moments with moments, so *)
(* its verdict does not depend on where the epoch is; a value assigned moves  *)
(* with the epoch if it is an instant, and not at all if it is a number.     *)
(* (A number less an instant, and an instant times or by a number, are       *)
(* accepted too; such texts are apart.)                                      *)
EpochDoesNotMatter ==
  Ran /\ Undeclared = {} =>
    /\ text.kind = "compare"
         /\ ~(\E c \in TermsOf(text) : DistortsInstants(c.left) \/ DistortsInstants(c.right)) =>
         LET later == Holds(text, Later(holding))
         IN "fault" \in {outcome.is, later.is} \/ later = outcome
    /\ text.kind = "set" /\ ~DistortsInstants(text.value) =>
         LET later == Eval(text.value, Later(holding))
         IN \/ "fault" \in {outcome.is, later.is}
            \/ later.n = outcome.n + (IF Base(Fields[text.target].type) = "DateTime" THEN 1 ELSE 0)

DimensionsAreSound == FaultsAreForeseen /\ EpochDoesNotMatter

(* Mode B: when mode A decides a guard at all and every name holds what the  *)
(* i64 channel carries, the compiled instructions decide it alike, negated   *)
(* for `until` or not.                                                       *)
CompiledAgrees ==
  Ran /\ Compilable(text) /\ outcome.is = "verdict"
    /\ (\A n \in RefsIn(text) : Carried(holding[n])) =>
    \A negate \in BOOLEAN :
       CompiledHolds(text, negate, holding) = ((outcome.n = 1) # negate)

(* What a value of each type looks like in a stored row.                     *)
FormOf(type) == CASE Base(type) = "Integer" -> {"int"}
                  [] Base(type) = "DateTime" -> {"instant", "zoneless"}
                  [] Base(type) = "Money" -> {"money"}
                  [] OTHER -> {}

(* rfcs/0016: "the declaration, storage and wire surface does not change: a   *)
(* DateTime stays an RFC 3339 string, the integer exists inside the           *)
(* evaluation channel only".  An assignment leaves its field with a value of *)
(* the declared type.                                                        *)
StoredAsDeclared ==
  Ran /\ text.kind = "set" /\ Undeclared = {} /\ outcome.is # "fault" =>
    outcome.is \in FormOf(Fields[text.target].type)

============================================================================
