---------------------------- MODULE AgentProtocol ----------------------------
(* The server that agents change a compiled program through (protocol.py)    *)
(* and the agents that do (agents.py).  The document is only changed by a    *)
(* proposal that a Reviewer's report approves; a proposal carries whole      *)
(* nodes, computed from the document of the moment it was made, and may be   *)
(* approved when the document is another.  `decide` assesses a proposal      *)
(* against the present document; an override goes straight to the merge.     *)
(*                                                                           *)
(* A node has two of the reference fields, `children` and `constraints`; the *)
(* rest of it is `content`.  The shape checks of parameters, the schema      *)
(* validator and the roles that only read are left out.  The transport is    *)
(* in-process and a handler runs to its end.                                 *)
EXTENDS Naturals, Sequences, SequencesExt, FiniteSets, FiniteSetsExt

CONSTANTS
    Document,      \* the nodes at the start, a function from ids
    HandWritten,       \* proposals written by hand: [role, nodes, attach, move]
    HandKeys,      \* idempotency keys of callers other than the agents
    MaxProposals, MaxTasks, MaxVersion   \* bounds

VARIABLES
    doc,           \* Server.doc: id -> node
    tasks,         \* Server.tasks: [role, state, result]
    proposals,     \* Server.proposals: [draft, state, review: its review task]
    answered,      \* Server._idem: key -> [params, proposal]
    version,       \* of the one document of the knowledge base
    applied        \* Server.applied, and whether the approval was assessed

vars == <<doc, tasks, proposals, answered, version, applied>>

Declaration == {"Entity", "Service", "Workflow", "Event", "Capability"}
Behavior == {"BusinessRule", "Validation", "WorkflowStep", "Pipeline", "Concurrency", "Guard"}
Effects == {"NetworkCall", "RepositoryCall", "CacheAccess", "Transaction", "Authorization",
            "EventEmit"}
Constraint == {"Policy", "Security", "Performance"}

(* ROLES: what a role may author.                                            *)
Rights(role) ==
    CASE role = "Architect" -> Declaration \cup Behavior
      [] role \in {"Coder", "RefactoringAgent"} -> Behavior \cup Effects
      [] role = "Tester" -> Behavior
      [] role = "PerformanceAnalyzer" -> Constraint
      [] role = "SecurityAuditor" -> Constraint \cup Effects
      [] OTHER -> {}

MayApprove(role) == role = "Reviewer"

(* CHILDREN_ALLOWED.                                                         *)
MayOwn(kind) ==
    CASE kind = "Entity" -> {"Validation"}
      [] kind = "Service" -> {"Workflow", "Pipeline", "BusinessRule"}
      [] kind = "Workflow" -> {"WorkflowStep", "Guard", "Concurrency", "Pipeline"}
      [] kind = "WorkflowStep" -> (Effects \cup Behavior) \ {"WorkflowStep", "Guard"}
      [] kind = "Guard" -> {"WorkflowStep", "Concurrency", "Pipeline"}
      [] kind \in {"Pipeline", "Concurrency"} -> {"WorkflowStep"}
      [] kind = "Transaction" -> (Effects \ {"Transaction", "Authorization"})
                                 \cup {"BusinessRule", "Validation"}
      [] OTHER -> {}

EntryKinds == Declaration \cup Constraint

Fields == {"children", "constraints"}

Terminal == {"completed", "failed", "canceled"}

Node(kind, children, constraints, content, origin, source) ==
    [kind |-> kind, children |-> children, constraints |-> constraints,
     content |-> content, origin |-> origin, source |-> source]

-----------------------------------------------------------------------------
(* The structure of a document (_structure_fault).                           *)

Refs(node) == Range(node.children) \cup Range(node.constraints)

Dangling(d) == \E n \in DOMAIN d : ~(Refs(d[n]) \subseteq DOMAIN d)

(* A node may be in one `children` list, once.                               *)
Contested(d) ==
    \E n, m \in DOMAIN d : \E i \in DOMAIN d[n].children, j \in DOMAIN d[m].children :
        <<n, i>> # <<m, j>> /\ d[n].children[i] = d[m].children[j]

Orphaned(d) ==
    \E n \in DOMAIN d \ UNION {Range(d[m].children) : m \in DOMAIN d} :
        d[n].kind \notin EntryKinds

Owned(d, s) == UNION {Range(d[n].children) : n \in s \cap DOMAIN d}

(* What is owned, directly or not, by the nodes of a set.                    *)
Below(d, from) ==
    LET level[k \in Nat] ==
            IF k = 0 THEN Owned(d, from)
            ELSE LET above == level[k - 1] IN above \cup Owned(d, above)
    IN level[Cardinality(DOMAIN d)]

(* Mutant of Cyclic: only a node that owns itself.                           *)
CyclicAtOnce(d) == \E n \in DOMAIN d : n \in Range(d[n].children)

(* _ownership_cycle.                                                         *)
Cyclic(d) == \E n \in DOMAIN d : n \in Below(d, {n})

Misplaced(d) ==
    \E n \in DOMAIN d : \E c \in Range(d[n].children) \cap DOMAIN d :
        d[c].kind \notin MayOwn(d[n].kind)

GuardMiscounted(d) ==
    \E n \in DOMAIN d : d[n].kind = "Guard" /\ Len(d[n].children) \notin {1, 2}

StructureFault(d) ==
    \/ Dangling(d) \/ Contested(d) \/ Orphaned(d)
    \/ Cyclic(d) \/ Misplaced(d) \/ GuardMiscounted(d)

(* What the compiler keeps to as well: its references are to its nodes, an   *)
(* owner at most, one for what is no entry, and nothing owns itself.         *)
DocumentAssumption ==
    /\ IsFiniteSet(DOMAIN Document)
    /\ ~Dangling(Document) /\ ~Contested(Document) /\ ~Orphaned(Document) /\ ~Cyclic(Document)
    /\ \A draft \in HandWritten : IsFiniteSet(DOMAIN draft.nodes)

-----------------------------------------------------------------------------
(* Rights and intent.                                                        *)

Authored(draft, d) == DOMAIN draft.nodes \ DOMAIN d

(* intent.attach: the child was authored here and the parent may own it; a   *)
(* constraint is never owned and is judged with the edit of the parent.      *)
KindIn(draft, d, n) ==
    IF n \in DOMAIN draft.nodes THEN draft.nodes[n].kind
    ELSE IF n \in DOMAIN d THEN d[n].kind ELSE "none"

AttachmentsOk(draft, d) ==
    \A a \in draft.attach :
        /\ KindIn(draft, d, a.parent) # "none"
        /\ a.child \in Authored(draft, d)
        /\ \/ draft.nodes[a.child].kind \in Constraint
           \/ draft.nodes[a.child].kind \in MayOwn(KindIn(draft, d, a.parent))

Declared(draft, n) == {a.child : a \in {x \in draft.attach : x.parent = n}}

(* reference_only_edit: the node as it is, with the declared children added. *)
(* The origin is excepted: the edit must set it.                             *)
Without(refs, added) == SelectSeq(refs, LAMBDA r : r \notin added)

ReferenceOnlyEdit(draft, d, n) ==
    LET new == draft.nodes[n]
        constraints == {c \in Declared(draft, n) :
                          c \in DOMAIN draft.nodes /\ draft.nodes[c].kind \in Constraint}
    IN /\ n \in DOMAIN d
       /\ new.kind = d[n].kind /\ new.content = d[n].content /\ new.source = d[n].source
       /\ Without(new.children, Declared(draft, n)) = d[n].children
       /\ Without(new.constraints, constraints) = d[n].constraints

(* A node outside the role's rights may be edited to attach what the         *)
(* proposal authored, and records who did.                                   *)
RightsOk(draft, d) ==
    \A n \in DOMAIN draft.nodes :
        \/ draft.nodes[n].kind \in Rights(draft.role)
        \/ /\ Declared(draft, n) # {} /\ ReferenceOnlyEdit(draft, d, n)
           /\ draft.nodes[n].origin # "none"

-----------------------------------------------------------------------------
(* ir.propose, agent.dispatch, agent.report.                                 *)

Init ==
    /\ doc = Document /\ tasks = <<>> /\ proposals = <<>> /\ answered = <<>>
    /\ version = 1 /\ applied = <<>>

NewTask(role) == [role |-> role, state |-> "submitted", result |-> 0]

(* _idempotent: a key answers again what it answered first, and refuses      *)
(* other parameters; an error is not kept.                                   *)
Replayed(key) == key \in DOMAIN answered

Propose(draft, key) ==
    /\ ~Replayed(key) /\ Len(proposals) < MaxProposals /\ Len(tasks) < MaxTasks
    /\ AttachmentsOk(draft, doc) /\ RightsOk(draft, doc)
    /\ proposals' = Append(proposals, [draft |-> draft, state |-> "pending",
                                        review |-> Len(tasks) + 1])
    /\ tasks' = Append(tasks, NewTask("Reviewer"))
    /\ answered' = [k \in DOMAIN answered \cup {key} |->
                      IF k = key THEN [params |-> draft, proposal |-> Len(proposals) + 1]
                      ELSE answered[k]]
    /\ UNCHANGED <<doc, version, applied>>

Dispatch(role) ==
    /\ Len(tasks) < MaxTasks
    /\ tasks' = Append(tasks, NewTask(role))
    /\ UNCHANGED <<doc, proposals, answered, version, applied>>

(* A report without a decision sets the task's state, once it is terminal    *)
(* never again.                                                              *)
Report(t, state) ==
    /\ tasks[t].state \notin Terminal
    /\ tasks' = [tasks EXCEPT ![t].state = state]
    /\ UNCHANGED <<doc, proposals, answered, version, applied>>

(* _apply: merge, and refuse a merged document that is not sound.            *)
Merged(draft, d) ==
    [n \in DOMAIN d \cup DOMAIN draft.nodes |->
        IF n \in DOMAIN draft.nodes THEN draft.nodes[n] ELSE d[n]]

Applies(draft, d) == ~StructureFault(Merged(draft, d))

(* _decide: the proposal is settled first and the task after it, so that a   *)
(* task that is terminal already makes an error of a decision that stands.   *)
(* A merge that is refused leaves the proposal pending and the task working. *)
Working(t) == IF tasks[t].state = "submitted" THEN "working" ELSE tasks[t].state

Settle(t, state, p) ==
    tasks' = IF tasks[t].state \in Terminal THEN tasks
             ELSE [tasks EXCEPT ![t].state = state, ![t].result = p]

Decide(t, p, approved, how) ==
    /\ MayApprove(tasks[t].role) /\ proposals[p].state = "pending"
    /\ \/ /\ ~approved
          /\ proposals' = [proposals EXCEPT ![p].state = "rejected"]
          /\ Settle(t, "failed", p)
          /\ UNCHANGED <<doc, applied>>
       \/ /\ approved /\ Applies(proposals[p].draft, doc)
          /\ doc' = Merged(proposals[p].draft, doc)
          /\ applied' = Append(applied, [proposal |-> p, how |-> how])
          /\ proposals' = [proposals EXCEPT ![p].state = "approved"]
          /\ Settle(t, "completed", p)
       \/ /\ approved /\ ~Applies(proposals[p].draft, doc)
          /\ tasks' = [tasks EXCEPT ![t].state = Working(t)]
          /\ UNCHANGED <<doc, proposals, applied>>
    /\ UNCHANGED <<answered, version>>

-----------------------------------------------------------------------------
(* Reviewer._assess.                                                         *)

(* A new node's source is a document at its version, or a node.              *)
Grounded(node, d) ==
    \/ node.source = <<"kb", version>>
    \/ \E n \in DOMAIN d : node.source = <<"ir", n>>

Dropped(draft, d, n, field) ==
    IF n \in DOMAIN draft.nodes \cap DOMAIN d
    THEN Range(d[n][field]) \ Range(draft.nodes[n][field]) ELSE {}

(* A declared move lands in the field it left, on a node that had it not.    *)
(* Of two fields of a node that gave it up, the last by name is looked at     *)
(* (declared_drops).                                                         *)
Lands(draft, d, move) ==
    LET left == {f \in Fields : move.node \in Dropped(draft, d, move.from, f)}
        field == IF "constraints" \in left THEN "constraints" ELSE "children"
    IN  /\ left # {} /\ move.to \in DOMAIN Merged(draft, d)
        /\ move.node \in Range(Merged(draft, d)[move.to][field])
        /\ ~(move.to \in DOMAIN d /\ move.node \in Range(d[move.to][field]))

MovesOk(draft, d) ==
    /\ \A n \in DOMAIN draft.nodes, f \in Fields : \A gone \in Dropped(draft, d, n, f) :
          \E m \in draft.move : m.from = n /\ m.node = gone
    /\ \A m \in draft.move : Lands(draft, d, m)

(* Mutant of Assess: the rights were checked when it was proposed.           *)
AssessOnce(draft, d) ==
    /\ \A n \in Authored(draft, d) : Grounded(draft.nodes[n], d)
    /\ \A n \in DOMAIN draft.nodes \cap DOMAIN d : draft.nodes[n].kind = d[n].kind
    /\ MovesOk(draft, d)
    /\ ~StructureFault(Merged(draft, d))

Assess(draft, d) ==
    /\ AttachmentsOk(draft, d) /\ RightsOk(draft, d)
    /\ \A n \in Authored(draft, d) : Grounded(draft.nodes[n], d)
    /\ \A n \in DOMAIN draft.nodes \cap DOMAIN d : draft.nodes[n].kind = d[n].kind
    /\ MovesOk(draft, d)
    /\ ~StructureFault(Merged(draft, d))

(* Reviewer.decide: the judgement of the document as it is now, reported by  *)
(* the proposal's review task (run_cycle).                                   *)
Judge(p) == Decide(proposals[p].review, p, Assess(proposals[p].draft, doc), "assessed")

(* A caller's own approval, which any task of a Reviewer may report.         *)
Override(t, p) == Decide(t, p, TRUE, "override")

-----------------------------------------------------------------------------
(* What the agents propose, from the document they read.                     *)

Draft(role, nodes, attach, move) ==
    [role |-> role, nodes |-> nodes, attach |-> attach, move |-> move]

Put(nodes, id, node) == [n \in DOMAIN nodes \cup {id} |-> IF n = id THEN node ELSE nodes[n]]
Only(id, node) == [n \in {id} |-> node]

FromKb == <<"kb", version>>

Owners(d, id) == {n \in DOMAIN d : id \in Range(d[n].children)}

(* Coder: the step of that name, with an Authorization of its own.           *)
CoderDrafts ==
    { Draft("Coder",
            Put(Only(s, [doc[s] EXCEPT !.children = Append(@, "authz")]), "authz",
                Node("Authorization", <<>>, <<>>, "jwt", "agent", FromKb)), {}, {}) :
      s \in {n \in DOMAIN doc : doc[n].kind = "WorkflowStep" /\ doc[n].content = "generate token"} }

(* A role that attaches a constraint to a service it may not author.         *)
Constrain(role, svc, id, kind, source) ==
    Draft(role,
          Put(Only(svc, [doc[svc] EXCEPT !.constraints = Append(@, id), !.origin = "agent"]),
              id, Node(kind, <<>>, <<>>, "declared", "agent", source)),
          {[parent |-> svc, child |-> id]}, {})

Constrained(svc, kind) == \E c \in Range(doc[svc].constraints) : doc[c].kind = kind

(* SecurityAuditor: a service without a Security constraint one of whose     *)
(* workflows reads secrets.                                                  *)
AuditDrafts ==
    { Constrain("SecurityAuditor", svc, "sec", "Security", FromKb) :
      svc \in {s \in DOMAIN doc :
                 /\ doc[s].kind = "Service" /\ ~Constrained(s, "Security")
                 /\ \E c \in Below(doc, {s}) : doc[c].content = "read secret"} }

(* PerformanceAnalyzer: a response budget where none is declared.            *)
BudgetDrafts ==
    { Constrain("PerformanceAnalyzer", CHOOSE s \in Owners(doc, wf) : TRUE, "perf",
                "Performance", <<"ir", wf>>) :
      wf \in {w \in DOMAIN doc : /\ doc[w].kind = "Workflow"
                                 /\ \E s \in Owners(doc, w) : ~Constrained(s, "Performance")} }

(* RefactoringAgent: a step with two repository calls keeps the first, and   *)
(* a step placed right after it gets the second.                             *)
Calls(step) == SelectSeq(doc[step].children, LAMBDA c : doc[c].kind = "RepositoryCall")

After(refs, id, new) ==
    LET at == CHOOSE k \in DOMAIN refs : refs[k] = id IN InsertAt(refs, at + 1, new)

Split(owner, step) ==
    LET call == Calls(step)[2] IN
    Draft("RefactoringAgent",
          Put(Put(Only(owner, [doc[owner] EXCEPT !.children = After(@, step, "split"),
                                                 !.origin = "agent"]),
                  step, [doc[step] EXCEPT !.children = Without(@, {call})]),
              "split", Node("WorkflowStep", <<call>>, <<>>, "read", "agent", FromKb)),
          {[parent |-> owner, child |-> "split"]},
          {[node |-> call, from |-> step, to |-> "split"]})

SplitDrafts ==
    UNION {{ Split(o, s) : o \in {n \in Owners(doc, s) : doc[n].kind \in {"Workflow", "Pipeline"}} } :
           s \in {n \in DOMAIN doc : /\ doc[n].kind = "WorkflowStep" /\ Len(Calls(n)) = 2
                                     /\ "split" \notin DOMAIN doc} }

-----------------------------------------------------------------------------

AgentWorks ==
    \/ \E d \in CoderDrafts : Propose(d, "coder")
    \/ \E d \in AuditDrafts : Propose(d, "audit")
    \/ \E d \in BudgetDrafts : Propose(d, "perf")
    \/ \E d \in SplitDrafts : Propose(d, "refactor")

HandWorks == \E d \in HandWritten : \E key \in HandKeys : Propose(d, key)

(* A document of the knowledge base is revised.                              *)
Revise ==
    /\ version < MaxVersion /\ version' = version + 1
    /\ UNCHANGED <<doc, tasks, proposals, answered, applied>>

Next ==
    \/ AgentWorks \/ HandWorks \/ Revise
    \/ Dispatch("Reviewer")
    \/ \E t \in DOMAIN tasks : Report(t, "completed")
    \/ \E p \in DOMAIN proposals : Judge(p)
    \/ \E t \in DOMAIN tasks, p \in DOMAIN proposals : Override(t, p)

Spec == Init /\ [][Next]_vars

-----------------------------------------------------------------------------
(* Properties.                                                               *)

TypeOK ==
    /\ version \in 1..MaxVersion
    /\ \A t \in DOMAIN tasks : tasks[t].state \in {"submitted", "working"} \cup Terminal
    /\ \A p \in DOMAIN proposals : proposals[p].state \in {"pending", "approved", "rejected"}
    /\ \A k \in DOMAIN answered : answered[k].proposal \in DOMAIN proposals

(* Whatever is approved, assessed or not, and however old the proposal is:   *)
(* every node hangs under an entry node, by one path, so that the run of a   *)
(* workflow reaches each of its effects once.                                *)
EveryNodeIsReachedOnce ==
    LET reached == Below(doc, {e \in DOMAIN doc : doc[e].kind \in EntryKinds})
    IN  \A n \in DOMAIN doc :
           \/ doc[n].kind \in EntryKinds
           \/ Cardinality(Owners(doc, n)) = 1 /\ n \in reached

(* An assessed approval loses no reference: what a node gives up is in the   *)
(* same field of one that had it not, or in one of the fields when two gave  *)
(* it up.  A proposal made before another was approved cannot undo it.       *)
Approving == applied' # applied /\ Last(applied').how = "assessed"

UndoesNothing ==
    Approving =>
        \A n \in DOMAIN doc :
            LET left(f) == Range(doc[n][f]) \ Range(doc'[n][f])
            IN  \A r \in left("children") \cup left("constraints") :
                   \E m \in DOMAIN doc', f \in Fields :
                       /\ r \in left(f) /\ r \in Range(doc'[m][f])
                       /\ m \in DOMAIN doc => r \notin Range(doc[m][f])

(* An assessed approval changes a node outside the rights of the proposal's  *)
(* role by adding references to new nodes only, in an order that keeps the   *)
(* old one.                                                                  *)
AddsOutsideRights ==
    Approving =>
        \A n \in DOMAIN doc : doc'[n] # doc[n] =>
            \/ doc[n].kind \in Rights(proposals[Last(applied').proposal].draft.role)
            \/ /\ doc'[n].content = doc[n].content
               /\ \A f \in Fields : \E added \in SUBSET (DOMAIN doc' \ DOMAIN doc) :
                     Without(doc'[n][f], added) = doc[n][f]

(* What an approval leaves of the work of others.                            *)
KeepsTheRest == UndoesNothing /\ AddsOutsideRights
=============================================================================
