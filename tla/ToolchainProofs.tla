-------------------------- MODULE ToolchainProofs ---------------------------
(***************************************************************************)
(* Theorems about MCToolchain: what approved proposals leave of the        *)
(* document, what a configuration launches, what an editor shows, what the *)
(* items of a text say, and what a run does that the compiler did not warn  *)
(* of.                                                                     *)
(***************************************************************************)
EXTENDS MCToolchain, FiniteSetTheorems, SequenceTheorems, TLAPS

-----------------------------------------------------------------------------
(* Induction and recursion over the naturals.                              *)

(* What holds of 0 and goes from each number to the next holds of all.     *)
LEMMA Induction ==
  ASSUME NEW S, 0 \in S, \A n \in Nat : n \in S => n + 1 \in S
  PROVE  Nat \subseteq S
<1> DEFINE Others == Nat \ S
<1> SUFFICES ASSUME Others # {} PROVE FALSE
  OBVIOUS
<1>1. PICK m \in Others : \A k \in Others : ~(<<k, m>> \in OpToRel(<, Nat))
  BY WFMin, NatLessThanWellFounded, Zenon
<1>2. m - 1 \in Others /\ m - 1 < m
  BY m - 1 \in Nat \/ m = 0
<1> QED
  BY <1>1, <1>2 DEF OpToRel

(* The function that starts at `a` and goes on by `G`.                       *)
Unfolds(f, a, G) == f[0] = a /\ \A n \in Nat : f[n + 1] = G[<<n, f[n]>>]

LEMMA Recursion ==
  ASSUME NEW V, NEW a \in V, NEW G, \A n \in Nat : \A v \in V : G[<<n, v>>] \in V
  PROVE  \E f : f \in [Nat -> V] /\ Unfolds(f, a, G)
<1> DEFINE Starts(n, g) == /\ g \in [0..n -> V] /\ g[0] = a
                           /\ \A i \in 0..(n - 1) : g[i + 1] = G[<<i, g[i]>>]
           Some == {n \in Nat : \E g : Starts(n, g)}
           Same == {n \in Nat : \A m, k \in Nat : \A g, h :
                       Starts(m, g) /\ Starts(k, h) /\ n <= m /\ n <= k => g[n] = h[n]}
           f == [n \in Nat |-> (CHOOSE g : Starts(n, g))[n]]
<1>1. Nat \subseteq Some
  <2>1. 0 \in Some
    <3>1. Starts(0, [i \in 0..0 |-> a])
      OBVIOUS
    <3> QED BY <3>1
  <2>2. ASSUME NEW n \in Nat, n \in Some PROVE n + 1 \in Some
    <3>1. PICK g : Starts(n, g)
      BY <2>2
    <3>2. G[<<n, g[n]>>] \in V
      BY <3>1, n \in 0..n
    <3> DEFINE next == [i \in 0..(n + 1) |-> IF i = n + 1 THEN G[<<n, g[n]>>] ELSE g[i]]
    <3>3. next \in [0..(n + 1) -> V] /\ next[0] = a
      BY <3>1, <3>2
    <3>4. \A i \in 0..((n + 1) - 1) : next[i + 1] = G[<<i, next[i]>>]
      <4> SUFFICES ASSUME NEW i \in 0..((n + 1) - 1) PROVE next[i + 1] = G[<<i, next[i]>>]
        OBVIOUS
      <4>1. CASE i = n
        <5>1. next[n + 1] = G[<<n, g[n]>>] /\ next[n] = g[n]
          BY n # n + 1
        <5> HIDE DEF next
        <5> QED BY <4>1, <5>1
      <4>2. CASE i # n
        <5>1. i \in 0..(n - 1) /\ i + 1 # n + 1 /\ i # n + 1
          BY <4>2
        <5>2. next[i + 1] = g[i + 1] /\ next[i] = g[i]
          BY <5>1
        <5> HIDE DEF next
        <5> QED BY <3>1, <5>1, <5>2
      <4> QED BY <4>1, <4>2
    <3> HIDE DEF next
    <3>5. Starts(n + 1, next)
      BY <3>3, <3>4
    <3> QED BY <3>5
  <2> HIDE DEF Some
  <2> QED BY <2>1, <2>2, Induction
<1>2. Nat \subseteq Same
  <2>1. 0 \in Same
    OBVIOUS
  <2>2. ASSUME NEW n \in Nat, n \in Same PROVE n + 1 \in Same
    <3> SUFFICES ASSUME NEW m \in Nat, NEW k \in Nat, NEW g, NEW h, Starts(m, g), Starts(k, h),
                        n + 1 <= m, n + 1 <= k
                 PROVE  g[n + 1] = h[n + 1]
      OBVIOUS
    <3>1. g[n] = h[n]
      BY <2>2
    <3>2. n \in 0..(m - 1) /\ n \in 0..(k - 1)
      OBVIOUS
    <3> QED BY <3>1, <3>2
  <2> HIDE DEF Same
  <2> QED BY <2>1, <2>2, Induction
<1> HIDE DEF Starts
<1>6. \A n \in Nat : \A g, h : Starts(n, g) /\ Starts(n + 1, h) => g[n] = h[n]
  BY <1>2
<1>3. \A n \in Nat : Starts(n, CHOOSE g : Starts(n, g))
  BY <1>1
<1>4. f \in [Nat -> V] /\ f[0] = a
  <2>1. ASSUME NEW n \in Nat PROVE f[n] \in V
    <3>1. (CHOOSE g : Starts(n, g)) \in [0..n -> V]
      BY <1>3 DEF Starts
    <3> QED BY <3>1
  <2> QED BY <2>1, <1>3 DEF Starts
<1>5. ASSUME NEW n \in Nat PROVE f[n + 1] = G[<<n, f[n]>>]
  <2> DEFINE g == CHOOSE x : Starts(n, x)
             h == CHOOSE x : Starts(n + 1, x)
  <2>1. Starts(n, g) /\ Starts(n + 1, h)
    BY <1>3
  <2>2. f[n] = g[n] /\ f[n + 1] = h[n + 1]
    OBVIOUS
  <2> HIDE DEF g, h
  <2>3. h[n] = g[n]
    BY <1>6, <2>1
  <2>4. h[n + 1] = G[<<n, h[n]>>]
    BY <2>1, n \in 0..((n + 1) - 1) DEF Starts
  <2> QED BY <2>2, <2>3, <2>4
<1> QED
  BY <1>4, <1>5 DEF Unfolds

-----------------------------------------------------------------------------
(* The agents.                                                              *)

(* The document stays one in which a node is owned once, and what is no     *)
(* entry is owned; the approvals are a sequence.                            *)
DocumentStands ==
    /\ ~Agents!Contested(doc) /\ ~Agents!Orphaned(doc)
    /\ applied \in Seq(Agents!Range(applied))

LEMMA ApprovalIsLast ==
    ASSUME NEW s, NEW e, s \in Seq(Agents!Range(s))
    PROVE  /\ Append(s, e) \in Seq(Agents!Range(Append(s, e)))
           /\ Append(s, e) # s
           /\ Agents!Last(Append(s, e)) = e
<1> DEFINE S == Agents!Range(s) \cup {e}
<1>1. s \in Seq(S) /\ e \in S
  BY DEF Agents!Range
<1>2. /\ Append(s, e) \in Seq(S) /\ Len(Append(s, e)) = Len(s) + 1
      /\ Append(s, e)[Len(s) + 1] = e
  BY <1>1
<1>3. Append(s, e) \in Seq(Agents!Range(Append(s, e)))
  BY <1>2 DEF Agents!Range
<1> QED
  BY <1>1, <1>2, <1>3 DEF Agents!Last

(* Only an approval changes the document, and appends to the approvals.     *)
LEMMA DecideApproves ==
    ASSUME NEW t, NEW p, NEW approved, NEW how, Agents!Decide(t, p, approved, how)
    PROVE  \/ UNCHANGED <<doc, applied>>
           \/ /\ approved /\ doc' = Agents!Merged(proposals[p].draft, doc)
              /\ ~Agents!StructureFault(doc')
              /\ applied' = Append(applied, [proposal |-> p, how |-> how])
BY DEF Agents!Decide, Agents!Applies

LEMMA DocumentChanges ==
    ASSUME Agents!Next
    PROVE  \/ UNCHANGED <<doc, applied>>
           \/ \E p \in DOMAIN proposals, how \in {"assessed", "override"} :
                /\ how = "assessed" => Agents!Assess(proposals[p].draft, doc)
                /\ doc' = Agents!Merged(proposals[p].draft, doc)
                /\ ~Agents!StructureFault(doc')
                /\ applied' = Append(applied, [proposal |-> p, how |-> how])
<1>1. CASE Agents!AgentWorks \/ Agents!HandWorks
  BY <1>1 DEF Agents!AgentWorks, Agents!HandWorks, Agents!Propose
<1>2. CASE Agents!Revise \/ Agents!Dispatch("Reviewer")
           \/ \E t \in DOMAIN tasks : Agents!Report(t, "completed")
  BY <1>2 DEF Agents!Revise, Agents!Dispatch, Agents!Report
<1>3. CASE \E p \in DOMAIN proposals : Agents!Judge(p)
  BY <1>3, DecideApproves DEF Agents!Judge
<1>4. CASE \E t \in DOMAIN tasks, p \in DOMAIN proposals : Agents!Override(t, p)
  BY <1>4, DecideApproves DEF Agents!Override
<1> QED
  BY <1>1, <1>2, <1>3, <1>4 DEF Agents!Next

LEMMA DocumentStandsInit == MCInit => DocumentStands
BY ToolchainAssumption
   DEF MCInit, Agents!Init, Agents!DocumentAssumption, DocumentStands, Agents!Range

LEMMA DocumentStandsNext ==
    ASSUME DocumentStands, [MCNext]_allVars PROVE DocumentStands'
<1>1. CASE UNCHANGED <<doc, applied>>
  BY <1>1 DEF DocumentStands, Agents!Contested, Agents!Orphaned, Agents!EntryKinds,
              Agents!Declaration, Agents!Constraint
<1>2. CASE Agents!Next
  BY <1>1, <1>2, DocumentChanges, ApprovalIsLast DEF DocumentStands, Agents!StructureFault
<1> QED
  BY <1>1, <1>2 DEF MCNext, CompileNext, AgentsNext, EditorNext, LaunchNext, allVars, agentVars

LEMMA DocumentInvariant == MCSpec => []DocumentStands
BY DocumentStandsInit, DocumentStandsNext, PTL DEF MCSpec

(* What the assessment of a draft says of the document it is merged into.   *)
LEMMA AssessedUndoesNothing ==
    ASSUME NEW draft, Agents!Assess(draft, doc), doc' = Agents!Merged(draft, doc)
    PROVE  Agents!UndoesNothing
<1> DEFINE gone(n, f) == Agents!Range(doc[n][f]) \ Agents!Range(doc'[n][f])
<1>1. SUFFICES ASSUME NEW n \in DOMAIN doc, NEW r \in gone(n, "children") \cup gone(n, "constraints")
               PROVE  \E m \in DOMAIN doc', f \in Agents!Fields :
                         /\ r \in gone(n, f) /\ r \in Agents!Range(doc'[m][f])
                         /\ m \in DOMAIN doc => r \notin Agents!Range(doc[m][f])
  BY DEF Agents!UndoesNothing
<1>2. /\ n \in DOMAIN draft.nodes
      /\ \A f \in Agents!Fields : Agents!Dropped(draft, doc, n, f) = gone(n, f)
  BY <1>1 DEF Agents!Merged, Agents!Dropped, Agents!Fields
<1>3. PICK move \in draft.move : /\ move.from = n /\ move.node = r
                                 /\ Agents!Lands(draft, doc, move)
  BY <1>1, <1>2 DEF Agents!Assess, Agents!MovesOk, Agents!Fields
<1> DEFINE gaveUp == {f \in Agents!Fields : r \in gone(n, f)}
           field == IF "constraints" \in gaveUp THEN "constraints" ELSE "children"
<1>4. field \in Agents!Fields /\ r \in gone(n, field)
  BY <1>1 DEF Agents!Fields
<1>5. {f \in Agents!Fields : move.node \in Agents!Dropped(draft, doc, move.from, f)} = gaveUp
  BY <1>2, <1>3
<1>6. /\ move.to \in DOMAIN doc' /\ r \in Agents!Range(doc'[move.to][field])
      /\ move.to \in DOMAIN doc => r \notin Agents!Range(doc[move.to][field])
  BY <1>3, <1>5 DEF Agents!Lands
<1> QED
  BY <1>4, <1>6

LEMMA AssessedAddsOnly ==
    ASSUME NEW draft, Agents!Assess(draft, doc), doc' = Agents!Merged(draft, doc),
           NEW n \in DOMAIN doc, doc'[n] # doc[n]
    PROVE  \/ doc[n].kind \in Agents!Rights(draft.role)
           \/ /\ doc'[n].content = doc[n].content
              /\ \A f \in Agents!Fields : \E added \in SUBSET (DOMAIN doc' \ DOMAIN doc) :
                    Agents!Without(doc'[n][f], added) = doc[n][f]
<1> DEFINE declared == Agents!Declared(draft, n)
           constraints == {c \in declared : /\ c \in DOMAIN draft.nodes
                                            /\ draft.nodes[c].kind \in Agents!Constraint}
<1>1. /\ n \in DOMAIN draft.nodes /\ doc'[n] = draft.nodes[n]
      /\ DOMAIN doc' = DOMAIN doc \cup DOMAIN draft.nodes
  BY DEF Agents!Merged
<1>2. draft.nodes[n].kind = doc[n].kind
  BY <1>1 DEF Agents!Assess
<1>3. CASE draft.nodes[n].kind \in Agents!Rights(draft.role)
  BY <1>2, <1>3
<1>4. CASE Agents!ReferenceOnlyEdit(draft, doc, n)
  <2>1. declared \subseteq DOMAIN doc' \ DOMAIN doc
    BY <1>1 DEF Agents!Assess, Agents!AttachmentsOk, Agents!Authored, Agents!Declared
  <2>2. /\ draft.nodes[n].content = doc[n].content
        /\ Agents!Without(draft.nodes[n].children, declared) = doc[n].children
        /\ Agents!Without(draft.nodes[n].constraints, constraints) = doc[n].constraints
    BY <1>4 DEF Agents!ReferenceOnlyEdit
  <2>3. constraints \subseteq declared
    OBVIOUS
  <2> QED
    BY <1>1, <2>1, <2>2, <2>3 DEF Agents!Fields
<1> QED
  BY <1>1, <1>3, <1>4 DEF Agents!Assess, Agents!RightsOk

LEMMA ApprovalKeepsTheRest ==
    ASSUME DocumentStands, Agents!Next PROVE Agents!KeepsTheRest
<1> SUFFICES ASSUME Agents!Approving PROVE Agents!KeepsTheRest
  BY DEF Agents!KeepsTheRest, Agents!UndoesNothing, Agents!AddsOutsideRights
<1>1. PICK p \in DOMAIN proposals, how \in {"assessed", "override"} :
         /\ how = "assessed" => Agents!Assess(proposals[p].draft, doc)
         /\ doc' = Agents!Merged(proposals[p].draft, doc)
         /\ applied' = Append(applied, [proposal |-> p, how |-> how])
  BY DocumentChanges DEF Agents!Approving
<1> DEFINE approval == [proposal |-> p, how |-> how]
<1>2. Agents!Last(applied') = approval
  BY <1>1, ApprovalIsLast DEF DocumentStands
<1>3. how = "assessed" /\ Agents!Last(applied').proposal = p
  BY <1>2 DEF Agents!Approving
<1>4. Agents!UndoesNothing
  BY <1>1, <1>3, AssessedUndoesNothing
<1>5. Agents!AddsOutsideRights
  BY <1>1, <1>3, AssessedAddsOnly DEF Agents!AddsOutsideRights
<1> QED
  BY <1>4, <1>5 DEF Agents!KeepsTheRest

(* A proposal that is approved on assessment loses no reference that it     *)
(* does not move, whatever was approved since it was made, and outside the  *)
(* rights of its role only adds references to the nodes it brings           *)
(* (Reviewer._assess), for any document, drafts and order of decisions.     *)
THEOREM ApprovalsKeep == MCSpec => ApprovalsKeepTheRest
<1>1. DocumentStands /\ [MCNext]_allVars => [Agents!KeepsTheRest]_allVars
  <2> SUFFICES ASSUME DocumentStands, MCNext, allVars' # allVars PROVE Agents!KeepsTheRest
    OBVIOUS
  <2>1. CASE UNCHANGED applied
    BY <2>1 DEF Agents!KeepsTheRest, Agents!UndoesNothing, Agents!AddsOutsideRights,
                Agents!Approving
  <2>2. CASE Agents!Next
    BY <2>2, ApprovalKeepsTheRest
  <2> QED
    BY <2>1, <2>2 DEF MCNext, CompileNext, AgentsNext, EditorNext, LaunchNext, agentVars
<1> QED
  BY <1>1, DocumentInvariant, PTL DEF MCSpec, ApprovalsKeepTheRest

(* Every node that is no entry has one owner.                                *)
OneOwner ==
    \A n \in DOMAIN doc : doc[n].kind \notin Agents!EntryKinds =>
        \E m \in DOMAIN doc : Agents!Owners(doc, n) = {m}

LEMMA OneOwnerHolds == DocumentStands => OneOwner
<1> SUFFICES ASSUME DocumentStands, NEW n \in DOMAIN doc, doc[n].kind \notin Agents!EntryKinds
             PROVE  \E m \in DOMAIN doc : Agents!Owners(doc, n) = {m}
  BY DEF OneOwner
<1>1. PICK m \in DOMAIN doc : n \in Agents!Range(doc[m].children)
  BY DEF DocumentStands, Agents!Orphaned
<1>2. ASSUME NEW k \in DOMAIN doc, n \in Agents!Range(doc[k].children) PROVE k = m
  BY <1>1, <1>2 DEF DocumentStands, Agents!Contested, Agents!Range
<1> QED
  BY <1>1, <1>2 DEF Agents!Owners

(* Whatever is approved, assessed or overridden: a node that is no entry    *)
(* has exactly one owner (_structure_fault at _apply).                      *)
THEOREM OwnersAreUnique == MCSpec => []OneOwner
  BY OneOwnerHolds, DocumentInvariant, PTL

LEMMA SameFinite == \A S : Agents!IsFiniteSet(S) <=> IsFiniteSet(S)
BY DEF IsFiniteSet, Agents!IsFiniteSet

LEMMA SameCardinality == \A S : Agents!Cardinality(S) = Cardinality(S)
BY DEF Cardinality, Agents!Cardinality, IsFiniteSet, Agents!IsFiniteSet

(* What is owned by more is more, and is in the document.                   *)
LEMMA OwnedGrows ==
    ASSUME NEW d, NEW s, NEW t, s \subseteq t PROVE Agents!Owned(d, s) \subseteq Agents!Owned(d, t)
BY DEF Agents!Owned

LEMMA OwnedIsThere ==
    ASSUME NEW d, NEW s, ~Agents!Dangling(d) PROVE Agents!Owned(d, s) \subseteq DOMAIN d
BY DEF Agents!Owned, Agents!Dangling, Agents!Refs

(* The levels of `Below` exist: each adds what the last one owns.           *)
LEMMA LevelsExist ==
    ASSUME NEW d, NEW from, ~Agents!Dangling(d), IsFiniteSet(DOMAIN d)
    PROVE  \E level \in [Nat -> SUBSET DOMAIN d] :
              /\ level[0] = Agents!Owned(d, from)
              /\ \A k \in Nat : level[k + 1] = level[k] \cup Agents!Owned(d, level[k])
              /\ Agents!Below(d, from) = level[Cardinality(DOMAIN d)]
<1> DEFINE V == SUBSET DOMAIN d
           G == [x \in Nat \X V |-> x[2] \cup Agents!Owned(d, x[2])]
           Levels(f) == f = [k \in Nat |-> IF k = 0 THEN Agents!Owned(d, from)
                                ELSE f[k - 1] \cup Agents!Owned(d, f[k - 1])]
<1>1. Agents!Owned(d, from) \in V /\ \A n \in Nat : \A v \in V : G[<<n, v>>] \in V
  BY OwnedIsThere
<1>2. PICK f : f \in [Nat -> V] /\ Unfolds(f, Agents!Owned(d, from), G)
  <2> HIDE DEF V, G
  <2> QED BY <1>1, Recursion
<1>3. Levels(f)
  <2>1. ASSUME NEW k \in Nat, k # 0 PROVE f[k] = f[k - 1] \cup Agents!Owned(d, f[k - 1])
    <3>1. k - 1 \in Nat /\ (k - 1) + 1 = k
      BY <2>1
    <3>2. f[k] = G[<<k - 1, f[k - 1]>>] /\ <<k - 1, f[k - 1]>> \in Nat \X V
      BY <1>2, <3>1 DEF Unfolds
    <3> QED BY <3>2
  <2> QED BY <1>2, <2>1 DEF Unfolds
<1> DEFINE g == CHOOSE h : Levels(h)
<1>4. Levels(g)
  BY <1>3
<1>5. Agents!Below(d, from) = g[Cardinality(DOMAIN d)]
  BY SameCardinality DEF Agents!Below
<1> HIDE DEF g
<1>6. g[0] = Agents!Owned(d, from)
  BY <1>4
<1>7. ASSUME NEW k \in Nat PROVE g[k + 1] = g[k] \cup Agents!Owned(d, g[k])
  BY <1>4, k + 1 \in Nat, k + 1 # 0, (k + 1) - 1 = k
<1>8. g \in [Nat -> V]
  <2> DEFINE S == {k \in Nat : g[k] \in V}
  <2>1. 0 \in S
    BY <1>6, <1>1
  <2>2. \A k \in Nat : k \in S => k + 1 \in S
    BY <1>7, OwnedIsThere
  <2> HIDE DEF S
  <2>3. Nat \subseteq S
    BY <2>1, <2>2, Induction
  <2>4. \A k \in Nat : g[k] \in V
    BY <2>3 DEF S
  <2>5. DOMAIN g = Nat /\ g = [k \in Nat |-> g[k]]
    BY <1>4
  <2> QED BY <2>4, <2>5
<1> QED
  BY <1>5, <1>6, <1>7, <1>8

(* What is below a set of nodes is closed under owning and no more than that *)
(* makes necessary (_ownership_cycle visits exactly these).                  *)
LEMMA BelowIsClosed ==
    ASSUME NEW d, NEW from, ~Agents!Dangling(d), IsFiniteSet(DOMAIN d)
    PROVE  /\ Agents!Below(d, from) \subseteq DOMAIN d
           /\ Agents!Owned(d, from) \subseteq Agents!Below(d, from)
           /\ Agents!Owned(d, Agents!Below(d, from)) \subseteq Agents!Below(d, from)
<1>1. PICK level \in [Nat -> SUBSET DOMAIN d] :
         /\ level[0] = Agents!Owned(d, from)
         /\ \A k \in Nat : level[k + 1] = level[k] \cup Agents!Owned(d, level[k])
         /\ Agents!Below(d, from) = level[Cardinality(DOMAIN d)]
  BY LevelsExist
<1> DEFINE N == Cardinality(DOMAIN d)
           Settled(k) == Agents!Owned(d, level[k]) \subseteq level[k]
           S == {k \in Nat : /\ Agents!Owned(d, from) \subseteq level[k]
                             /\ Settled(k) \/ Cardinality(level[k]) > k}
<1>2. N \in Nat /\ \A k \in Nat : /\ IsFiniteSet(level[k]) /\ Cardinality(level[k]) \in Nat
                                  /\ level[k] \subseteq DOMAIN d /\ Cardinality(level[k]) <= N
  <2>1. \A T \in SUBSET DOMAIN d : IsFiniteSet(T) /\ Cardinality(T) \in Nat /\ Cardinality(T) <= N
    BY FS_Subset, FS_CardinalityType
  <2> QED BY <1>1, <2>1, FS_CardinalityType
<1>3. 0 \in S
  <2>1. CASE level[0] = {}
    BY <1>1, <2>1 DEF Agents!Owned
  <2>2. CASE level[0] # {}
    BY <1>1, <1>2, <2>2, FS_EmptySet, 0 \in Nat
  <2> QED BY <2>1, <2>2
<1>4. ASSUME NEW k \in Nat, k \in S PROVE k + 1 \in S
  <2>1. level[k + 1] = level[k] \cup Agents!Owned(d, level[k])
    BY <1>1
  <2>2. CASE Settled(k)
    <3>1. level[k + 1] = level[k]
      BY <2>1, <2>2
    <3> QED BY <3>1, <2>2, <1>4
  <2>3. CASE ~Settled(k)
    <3>1. level[k] \subseteq level[k + 1] /\ level[k] # level[k + 1]
      BY <2>1, <2>3
    <3>2. IsFiniteSet(level[k + 1]) /\ level[k] \in SUBSET level[k + 1]
      BY <1>2, <3>1, k + 1 \in Nat
    <3>3. Cardinality(level[k]) <= Cardinality(level[k + 1])
          /\ Cardinality(level[k]) # Cardinality(level[k + 1])
      BY <3>1, <3>2, FS_Subset
    <3>4. Cardinality(level[k + 1]) > k + 1
      BY <1>2, <3>3, <1>4, <2>3, k + 1 \in Nat
    <3> QED BY <3>1, <3>4, <1>4
  <2> QED BY <2>2, <2>3
<1> HIDE DEF S
<1>5. N \in S
  BY <1>2, <1>3, <1>4, Induction
<1>6. Agents!Owned(d, from) \subseteq level[N] /\ Settled(N)
  BY <1>2, <1>5 DEF S
<1> QED
  BY <1>1, <1>2, <1>6

LEMMA BelowIsLeast ==
    ASSUME NEW d, NEW from, ~Agents!Dangling(d), IsFiniteSet(DOMAIN d), NEW T,
           Agents!Owned(d, from) \subseteq T, Agents!Owned(d, T) \subseteq T
    PROVE  Agents!Below(d, from) \subseteq T
<1>1. PICK level \in [Nat -> SUBSET DOMAIN d] :
         /\ level[0] = Agents!Owned(d, from)
         /\ \A k \in Nat : level[k + 1] = level[k] \cup Agents!Owned(d, level[k])
         /\ Agents!Below(d, from) = level[Cardinality(DOMAIN d)]
  BY LevelsExist
<1> DEFINE S == {k \in Nat : level[k] \subseteq T}
<1>2. 0 \in S
  BY <1>1
<1>3. ASSUME NEW k \in Nat, k \in S PROVE k + 1 \in S
  <2>1. Agents!Owned(d, level[k]) \subseteq T
    BY <1>3, OwnedGrows
  <2> QED BY <1>1, <1>3, <2>1
<1> HIDE DEF S
<1>4. Cardinality(DOMAIN d) \in S
  BY <1>2, <1>3, Induction, FS_CardinalityType
<1> QED
  BY <1>1, <1>4 DEF S

(* Where nothing owns itself, and what is no entry is owned, everything hangs *)
(* under an entry: going from owner to owner, ever more is below.            *)
LEMMA EverythingHangs ==
    ASSUME NEW d, NEW entries \in SUBSET DOMAIN d, ~Agents!Dangling(d), IsFiniteSet(DOMAIN d),
           ~Agents!Cyclic(d),
           \A n \in DOMAIN d \ entries : \E m \in DOMAIN d : n \in Agents!Range(d[m].children)
    PROVE  DOMAIN d \ entries \subseteq Agents!Below(d, entries)
<1> DEFINE B(n) == Agents!Below(d, {n})
           Left == DOMAIN d \ (entries \cup Agents!Below(d, entries))
           N == Cardinality(DOMAIN d)
           S == {k \in Nat : \E n \in Left : Cardinality(B(n)) >= k}
<1> SUFFICES ASSUME Left # {} PROVE FALSE
  OBVIOUS
<1>1. \A n \in DOMAIN d : /\ B(n) \subseteq DOMAIN d /\ IsFiniteSet(B(n)) /\ n \notin B(n)
                          /\ Cardinality(B(n)) \in Nat /\ Cardinality(B(n)) <= N
  <2> SUFFICES ASSUME NEW n \in DOMAIN d
               PROVE  /\ B(n) \subseteq DOMAIN d /\ IsFiniteSet(B(n)) /\ n \notin B(n)
                      /\ Cardinality(B(n)) \in Nat /\ Cardinality(B(n)) <= N
    OBVIOUS
  <2>1. B(n) \subseteq DOMAIN d /\ n \notin B(n)
    BY BelowIsClosed DEF Agents!Cyclic
  <2> HIDE DEF B
  <2> QED BY <2>1, FS_Subset, FS_CardinalityType
<1>2. ASSUME NEW n \in Left PROVE \E m \in Left : Cardinality(B(m)) > Cardinality(B(n))
  <2>1. PICK m \in DOMAIN d : n \in Agents!Range(d[m].children)
    OBVIOUS
  <2>2. \A s : m \in s => n \in Agents!Owned(d, s)
    BY <2>1 DEF Agents!Owned
  <2>3. m \in Left
    BY <2>2, BelowIsClosed
  <2>4. n \in B(m) /\ Agents!Owned(d, B(m)) \subseteq B(m)
    BY <2>2, BelowIsClosed
  <2>5. Agents!Owned(d, {n}) \subseteq B(m)
    BY <2>4 DEF Agents!Owned
  <2>6. B(n) \subseteq B(m)
    BY <2>4, <2>5, BelowIsLeast
  <2> HIDE DEF B
  <2>7. Cardinality(B(n)) <= Cardinality(B(m)) /\ Cardinality(B(n)) # Cardinality(B(m))
    BY <1>1, <2>4, <2>6, FS_Subset
  <2> QED BY <1>1, <2>3, <2>7
<1> HIDE DEF B, Left
<1>3. Left \subseteq DOMAIN d /\ N \in Nat
  BY FS_CardinalityType DEF Left
<1>4. 0 \in S
  BY <1>1, <1>3
<1>5. ASSUME NEW k \in Nat, k \in S PROVE k + 1 \in S
  <2>1. PICK n \in Left : Cardinality(B(n)) >= k
    BY <1>5
  <2>2. PICK m \in Left : Cardinality(B(m)) > Cardinality(B(n))
    BY <1>2
  <2>3. Cardinality(B(m)) >= k + 1
    BY <1>1, <1>3, <2>1, <2>2
  <2> QED BY <2>3
<1> HIDE DEF S
<1>6. N + 1 \in S
  BY <1>3, <1>4, <1>5, Induction
<1>7. PICK n \in Left : Cardinality(B(n)) >= N + 1
  BY <1>6 DEF S
<1> QED
  BY <1>1, <1>3, <1>7

(* Every draft carries finitely many nodes, and so does the document.        *)
DocumentIsWhole ==
    /\ IsFiniteSet(DOMAIN doc) /\ ~Agents!Dangling(doc) /\ ~Agents!Cyclic(doc)
    /\ proposals \in Seq(Agents!Range(proposals))
    /\ \A p \in DOMAIN proposals : IsFiniteSet(DOMAIN proposals[p].draft.nodes)

LEMMA DraftsAreFinite ==
    ASSUME NEW draft,
           \/ draft \in Agents!CoderDrafts \cup Agents!AuditDrafts
           \/ draft \in Agents!BudgetDrafts \cup Agents!SplitDrafts
           \/ draft \in HandWritten
    PROVE  IsFiniteSet(DOMAIN draft.nodes)
<1>1. ASSUME NEW id, NEW item PROVE IsFiniteSet(DOMAIN Agents!Only(id, item))
  BY FS_Singleton DEF Agents!Only
<1>2. ASSUME NEW nodes, NEW id, NEW item, IsFiniteSet(DOMAIN nodes)
      PROVE  IsFiniteSet(DOMAIN Agents!Put(nodes, id, item))
  BY <1>2, FS_AddElement DEF Agents!Put
<1>3. ASSUME NEW role, NEW nodes, NEW attach, NEW move
      PROVE  Agents!Draft(role, nodes, attach, move).nodes = nodes
  BY DEF Agents!Draft
<1>4. ASSUME NEW role, NEW svc, NEW id, NEW kind, NEW source
      PROVE  IsFiniteSet(DOMAIN Agents!Constrain(role, svc, id, kind, source).nodes)
  BY <1>1, <1>2, <1>3 DEF Agents!Constrain
<1>5. ASSUME NEW owner, NEW s PROVE IsFiniteSet(DOMAIN Agents!Split(owner, s).nodes)
  BY <1>1, <1>2, <1>3 DEF Agents!Split
<1>6. CASE draft \in Agents!CoderDrafts
  <2>1. PICK s, edited, auth :
           draft = Agents!Draft("Coder", Agents!Put(Agents!Only(s, edited), "authz", auth), {}, {})
    BY <1>6 DEF Agents!CoderDrafts
  <2> QED BY <1>1, <1>2, <1>3, <2>1
<1>7. CASE draft \in Agents!AuditDrafts
  BY <1>4, <1>7 DEF Agents!AuditDrafts
<1>8. CASE draft \in Agents!BudgetDrafts
  BY <1>4, <1>8 DEF Agents!BudgetDrafts
<1>9. CASE draft \in Agents!SplitDrafts
  <2> DEFINE Splittable == {n \in DOMAIN doc : /\ doc[n].kind = "WorkflowStep"
                                          /\ Len(Agents!Calls(n)) = 2
                                          /\ "split" \notin DOMAIN doc}
             Holders(s) == {n \in Agents!Owners(doc, s) : doc[n].kind \in {"Workflow", "Pipeline"}}
             Drafts(s) == {Agents!Split(o, s) : o \in Holders(s)}
  <2>1. draft \in UNION {Drafts(s) : s \in Splittable}
    BY <1>9 DEF Agents!SplitDrafts
  <2> HIDE DEF Splittable, Holders
  <2>2. PICK s \in Splittable : draft \in Drafts(s)
    BY <2>1
  <2> QED BY <1>5, <2>2
<1>10. CASE draft \in HandWritten
  BY <1>10, ToolchainAssumption, SameFinite DEF Agents!DocumentAssumption
<1> QED
  BY <1>6, <1>7, <1>8, <1>9, <1>10

LEMMA ProposalsStayFinite ==
    ASSUME DocumentIsWhole, Agents!Next
    PROVE  /\ proposals' \in Seq(Agents!Range(proposals'))
           /\ \A p \in DOMAIN proposals' : IsFiniteSet(DOMAIN proposals'[p].draft.nodes)
<1>1. ASSUME NEW draft, NEW key, Agents!Propose(draft, key), IsFiniteSet(DOMAIN draft.nodes)
      PROVE  /\ proposals' \in Seq(Agents!Range(proposals'))
             /\ \A p \in DOMAIN proposals' : IsFiniteSet(DOMAIN proposals'[p].draft.nodes)
  <2> DEFINE made == [draft |-> draft, state |-> "pending", review |-> Len(tasks) + 1]
  <2>1. proposals' = Append(proposals, made)
    BY <1>1 DEF Agents!Propose
  <2>2. made.draft.nodes = draft.nodes
    OBVIOUS
  <2>3. proposals \in Seq(Agents!Range(proposals) \cup {made})
    BY DEF DocumentIsWhole
  <2> HIDE DEF made
  <2>4. proposals' \in Seq(Agents!Range(proposals'))
    BY <2>1, ApprovalIsLast DEF DocumentIsWhole
  <2>5. \A p \in DOMAIN proposals' :
           \/ p \in DOMAIN proposals /\ proposals'[p] = proposals[p]
           \/ proposals'[p] = made
    BY <2>1, <2>3
  <2> QED BY <1>1, <2>2, <2>4, <2>5 DEF DocumentIsWhole
<1>2. CASE Agents!AgentWorks \/ Agents!HandWorks
  BY <1>1, <1>2, DraftsAreFinite DEF Agents!AgentWorks, Agents!HandWorks
<1>3. ASSUME UNCHANGED proposals
      PROVE  /\ proposals' \in Seq(Agents!Range(proposals'))
             /\ \A p \in DOMAIN proposals' : IsFiniteSet(DOMAIN proposals'[p].draft.nodes)
  BY <1>3 DEF DocumentIsWhole, Agents!Range
<1>4. CASE Agents!Revise \/ Agents!Dispatch("Reviewer")
           \/ \E t \in DOMAIN tasks : Agents!Report(t, "completed")
  BY <1>3, <1>4 DEF Agents!Revise, Agents!Dispatch, Agents!Report
<1>5. ASSUME NEW t, NEW p \in DOMAIN proposals, NEW approved, NEW how,
             Agents!Decide(t, p, approved, how)
      PROVE  /\ proposals' \in Seq(Agents!Range(proposals'))
             /\ \A q \in DOMAIN proposals' : IsFiniteSet(DOMAIN proposals'[q].draft.nodes)
  <2>1. ASSUME NEW state, proposals' = [proposals EXCEPT ![p].state = state]
        PROVE  /\ proposals' \in Seq(Agents!Range(proposals'))
               /\ \A q \in DOMAIN proposals' : IsFiniteSet(DOMAIN proposals'[q].draft.nodes)
    <3>1. DOMAIN proposals' = DOMAIN proposals
          /\ \A q \in DOMAIN proposals : proposals'[q].draft = proposals[q].draft
      BY <2>1
    <3>2. DOMAIN proposals' = 1..Len(proposals) /\ Len(proposals) \in Nat
      BY <3>1 DEF DocumentIsWhole
    <3>3. proposals' = [q \in 1..Len(proposals) |-> proposals'[q]]
      BY <2>1, <3>2
    <3>4. proposals' \in [1..Len(proposals) -> Agents!Range(proposals')]
      BY <3>2, <3>3 DEF Agents!Range
    <3> QED BY <3>1, <3>2, <3>4 DEF DocumentIsWhole
  <2> QED BY <1>3, <1>5, <2>1 DEF Agents!Decide
<1> QED
  BY <1>2, <1>4, <1>5 DEF Agents!Next, Agents!Judge, Agents!Override

LEMMA DocumentWholeNext ==
    ASSUME DocumentIsWhole, [MCNext]_allVars PROVE DocumentIsWhole'
<1>1. CASE UNCHANGED agentVars
  BY <1>1 DEF DocumentIsWhole, agentVars, Agents!Range, Agents!Dangling, Agents!Cyclic
<1>2. CASE Agents!Next
  <2>1. proposals' \in Seq(Agents!Range(proposals'))
        /\ \A p \in DOMAIN proposals' : IsFiniteSet(DOMAIN proposals'[p].draft.nodes)
    BY <1>2, ProposalsStayFinite
  <2>2. CASE doc' = doc
    BY <2>1, <2>2 DEF DocumentIsWhole
  <2>3. ASSUME NEW p \in DOMAIN proposals, doc' = Agents!Merged(proposals[p].draft, doc),
               ~Agents!StructureFault(doc')
        PROVE  IsFiniteSet(DOMAIN doc') /\ ~Agents!Dangling(doc') /\ ~Agents!Cyclic(doc')
    <3>1. DOMAIN doc' = DOMAIN doc \cup DOMAIN proposals[p].draft.nodes
      BY <2>3 DEF Agents!Merged
    <3>2. IsFiniteSet(DOMAIN doc')
      BY <3>1, FS_Union DEF DocumentIsWhole
    <3> QED BY <2>3, <3>2 DEF Agents!StructureFault
  <2> QED BY <1>2, <2>1, <2>2, <2>3, DocumentChanges DEF DocumentIsWhole
<1> QED
  BY <1>1, <1>2 DEF MCNext, CompileNext, AgentsNext, EditorNext, LaunchNext, allVars

LEMMA DocumentWholeInit == MCInit => DocumentIsWhole
BY ToolchainAssumption, SameFinite
   DEF MCInit, Agents!Init, Agents!DocumentAssumption, DocumentIsWhole, Agents!Range

LEMMA DocumentStaysWhole == MCSpec => []DocumentIsWhole
BY DocumentWholeInit, DocumentWholeNext, PTL DEF MCSpec

(* Whatever is approved, assessed or overridden, and however old the         *)
(* proposal: every node hangs under an entry, by one path (_structure_fault  *)
(* at _apply), for any document and drafts.                                  *)
THEOREM EveryNodeHangs == MCSpec => []EveryNodeIsReachedOnce
<1>1. DocumentStands /\ DocumentIsWhole => EveryNodeIsReachedOnce
  <2> SUFFICES ASSUME DocumentStands, DocumentIsWhole, NEW n \in DOMAIN doc,
                      doc[n].kind \notin Agents!EntryKinds
               PROVE  /\ Agents!Cardinality(Agents!Owners(doc, n)) = 1
                      /\ n \in Agents!Below(doc, {e \in DOMAIN doc :
                                                    doc[e].kind \in Agents!EntryKinds})
    BY DEF EveryNodeIsReachedOnce, Agents!EveryNodeIsReachedOnce
  <2> DEFINE entries == {e \in DOMAIN doc : doc[e].kind \in Agents!EntryKinds}
  <2>1. PICK m \in DOMAIN doc : Agents!Owners(doc, n) = {m}
    BY OneOwnerHolds DEF OneOwner
  <2>2. Agents!Cardinality(Agents!Owners(doc, n)) = 1
    BY <2>1, FS_Singleton, SameCardinality
  <2>3. \A x \in DOMAIN doc \ entries : \E k \in DOMAIN doc : x \in Agents!Range(doc[k].children)
    BY DEF DocumentStands, Agents!Orphaned
  <2>4. n \in Agents!Below(doc, entries)
    BY <2>3, EverythingHangs DEF DocumentIsWhole
  <2> QED BY <2>2, <2>4
<1> QED
  BY <1>1, DocumentInvariant, DocumentStaysWhole, PTL

-----------------------------------------------------------------------------
(* The launch.                                                              *)

(* The situation stays as it is, and each verdict is the one of it, the     *)
(* later ones after the earlier.                                            *)
JudgedOnce ==
    /\ launched \in Documents /\ file \in Files /\ env \in Surroundings /\ args \in Options
    /\ env.secret = "unreadable" => "env" \notin {file.default.jwt, file.profile.jwt}
    /\ checked \in {Launching!NotYet, Launching!ConfigCheck}
    /\ served \in {Launching!NotYet, Launching!Serve}
    /\ built \in {Launching!NotYet, Launching!BuildApp}
    /\ built # Launching!NotYet => served # Launching!NotYet

LEMMA SameSituation ==
    ASSUME UNCHANGED <<launched, file, env, args>>
    PROVE  /\ UNCHANGED <<Launching!ConfigCheck, Launching!Serve, Launching!BuildApp>>
           /\ Launching!NotYet' = Launching!NotYet
<1>1. UNCHANGED <<Launching!CliConfig, Launching!AppConfig>>
  BY DEF Launching!CliConfig, Launching!AppConfig, Launching!Load
<1>2. Launching!ConfigCheck' = Launching!ConfigCheck
  BY <1>1 DEF Launching!ConfigCheck, Launching!AuthMissing, Launching!SecretProblem, Launching!Refused
<1>3. Launching!Serve' = Launching!Serve
  BY <1>1 DEF Launching!Serve, Launching!CliVerifier, Launching!CliNetwork, Launching!SecretSource, Launching!Verdict, Launching!Hmac, Launching!StateOf, Launching!AuthMissing, Launching!Endpoint, Launching!RoleUnread
<1>4. Launching!BuildApp' = Launching!BuildApp
  BY <1>1 DEF Launching!BuildApp, Launching!AppVerifier, Launching!AppNetwork, Launching!SecretSource, Launching!Verdict, Launching!Hmac, Launching!StateOf, Launching!AuthMissing, Launching!Endpoint, Launching!RoleUnread
<1> QED
  BY <1>2, <1>3, <1>4 DEF Launching!NotYet, Launching!Refused

LEMMA JudgedOnceInit == MCInit => JudgedOnce
BY DEF MCInit, Launching!Init, JudgedOnce

LEMMA JudgedOnceNext ==
    ASSUME JudgedOnce, [MCNext]_allVars PROVE JudgedOnce'
<1>1. UNCHANGED <<launched, file, env, args>>
  BY DEF MCNext, CompileNext, AgentsNext, EditorNext, LaunchNext, allVars, launchVars,
         Launching!Next, Launching!RunCheck, Launching!RunServe, Launching!RunBuild,
         Launching!situation
<1>2. CASE UNCHANGED launchVars
  BY <1>1, <1>2, SameSituation DEF JudgedOnce, launchVars
<1>3. CASE Launching!Next
  BY <1>1, <1>3, SameSituation
     DEF JudgedOnce, Launching!Next, Launching!RunCheck, Launching!RunServe, Launching!RunBuild
<1> QED
  BY <1>2, <1>3 DEF MCNext, CompileNext, AgentsNext, EditorNext, LaunchNext, allVars, launchVars

LEMMA JudgedInvariant == MCSpec => []JudgedOnce
BY JudgedOnceInit, JudgedOnceNext, PTL DEF MCSpec

LEMMA SituationTyped ==
    ASSUME JudgedOnce
    PROVE  /\ launched \in Launching!ServedDocument /\ file \in Launching!File
           /\ env \in Launching!Surrounding /\ args \in Launching!Option
BY ToolchainAssumption DEF JudgedOnce, Launching!LaunchAssumption

LEMMA LoadTyped ==
    ASSUME JudgedOnce, NEW profile
    PROVE  /\ Launching!Load(profile) \in Launching!Table
           /\ Launching!Load(profile).jwt \in {"none", file.default.jwt, file.profile.jwt}
<1>1. /\ file.default \in Launching!Table /\ file.profile \in Launching!Table
      /\ args.config \in BOOLEAN /\ Launching!Nothing \in Launching!Table
      /\ Launching!Nothing.jwt = "none"
  BY SituationTyped DEF Launching!File, Launching!Option, Launching!Nothing, Launching!Table,
                        Launching!Selectors
<1>2. \A b \in BOOLEAN : /\ [Launching!Nothing EXCEPT !.valid = b] \in Launching!Table
                         /\ [Launching!Nothing EXCEPT !.valid = b].jwt = "none"
  BY DEF Launching!Nothing, Launching!Table, Launching!Selectors
<1>3. /\ Launching!Overlay(file.profile, file.default) \in Launching!Table
      /\ Launching!Overlay(file.profile, file.default).jwt
            \in {file.default.jwt, file.profile.jwt}
  BY <1>1 DEF Launching!Overlay, Launching!Either, Launching!Table, Launching!Selectors
<1> QED
  BY <1>1, <1>2, <1>3 DEF Launching!Load

(* What a chain of checks comes to.                                         *)
Backend(cfg) == Launching!Either(Launching!Either(args.backend, cfg.backend), "fake")

Drivers(cfg, source, verifier, network) ==
    /\ cfg.valid /\ Launching!Opens(Backend(cfg)) /\ Launching!Opens(args.cache)
    /\ source # "both" /\ verifier # "refused" /\ network # "refused"

Server(backend, verifier, network, log, cache) ==
    [backend |-> backend, verifier |-> verifier, network |-> network,
     log_format |-> Launching!Either(log, "text"), cache |-> Launching!Either(cache, "fake")]

LEMMA VerdictStops ==
    ASSUME NEW c, NEW src, NEW ver, NEW net, NEW l,
           NEW cacheLater \in BOOLEAN, NEW v,
           args.cache \in Launching!Selectors, c.valid \in BOOLEAN,
           ~Drivers(c, src, ver, net),
           v = Launching!Verdict(c, src, ver, net, l, cacheLater)
    PROVE  \/ v = Launching!Refused("backend") \/ v = Launching!Refused("cache")
           \/ v = Launching!Refused("config") /\ ~c.valid
           \/ v = Launching!Refused("two secrets") /\ src = "both"
           \/ v = Launching!Refused("secret") /\ ver = "refused"
           \/ v = Launching!Refused("network") /\ net = "refused"
BY DEF Launching!Verdict, Drivers, Backend

LEMMA RefusedOrServer ==
    /\ \A why : Launching!IsRefused(Launching!Refused(why)) /\ Launching!Refused(why).refused = why
    /\ \A backend, verifier, network, log, cache :
          /\ ~Launching!IsRefused(Server(backend, verifier, network, log, cache))
          /\ Server(backend, verifier, network, log, cache).verifier = verifier
BY DEF Launching!IsRefused, Launching!Refused, Server

(* Where the verifier's secret comes from.                                  *)
LEMMA SourceIs ==
    ASSUME JudgedOnce, NEW cfg
    PROVE  LET source == Launching!SecretSource(cfg, args.jwt_secret_env, args.jwt_secret_file)
           IN  /\ source \in {"both", "env given", "file given", cfg.jwt}
               /\ Launching!NoOverride => source = cfg.jwt
               /\ source # "both" /\ source # "refused" =>
                    Launching!CliVerifier(source) \in {"refused", "registered", source}
BY SituationTyped DEF Launching!SecretSource, Launching!NoOverride, Launching!CliVerifier,
                      Launching!Hmac, Launching!Option

(* What `config check` has looked at when it passes.                        *)
LEMMA CheckedIs ==
    ASSUME JudgedOnce, checked = [ok |-> TRUE]
    PROVE  LET cfg == Launching!CliConfig
           IN  /\ cfg.valid /\ ~Launching!AuthMissing /\ ~Launching!SecretProblem(cfg)
               /\ launched.targets = "names" => cfg.endpoint \/ env.endpoint
               /\ launched.jwt => cfg.jwt # "none"
<1>1. checked = Launching!ConfigCheck
  BY DEF JudgedOnce, Launching!NotYet, Launching!Refused
<1>2. Launching!CliConfig.valid \in BOOLEAN
  BY LoadTyped DEF Launching!CliConfig, Launching!Table
<1> QED
  BY <1>1, <1>2 DEF Launching!ConfigCheck, Launching!Refused

(* Then what `serve` may stumble over is the secret's value.                *)
LEMMA CheckedSecret ==
    ASSUME JudgedOnce, Launching!NoOverride, NEW jwt,
           jwt \in {"none", file.default.jwt, file.profile.jwt},
           jwt \in {"none", "env", "file", "provider"},
           ~(jwt = "env" /\ env.secret = "missing"),
           ~(jwt \in {"file", "provider"} /\ env.secret # "good")
    PROVE  /\ Launching!CliVerifier(jwt) = "refused" =>
                \/ env.secret \in {"empty", "short"} \/ env.shadowed \/ args.jwt_issuer = "empty"
           /\ Launching!CliVerifier(jwt) # "refused" => Launching!CliVerifier(jwt) = jwt
<1>1. /\ args.token_provider \in {"unset", "hmac"} /\ Launching!StateOf(jwt) = env.secret
      /\ env.secret \in Launching!Secrets
  BY SituationTyped DEF Launching!NoOverride, Launching!StateOf, Launching!Surrounding
<1>2. jwt = "env" => env.secret # "unreadable"
  BY DEF JudgedOnce
<1> QED
  BY <1>1, <1>2 DEF Launching!CliVerifier, Launching!Hmac, Launching!Secrets

(* A verdict as a checked configuration may have it.                        *)
AsChecked(v, excused, tokens) ==
    IF Launching!IsRefused(v)
    THEN \/ v.refused \in {"backend", "cache", "log format"}
         \/ v.refused = "role" /\ ~tokens
         \/ v.refused = "secret" /\ excused
    ELSE tokens => v.verifier # "none"

LEMMA AsCheckedIs ==
    /\ \A excused, tokens : /\ AsChecked(Launching!Refused("backend"), excused, tokens)
                            /\ AsChecked(Launching!Refused("cache"), excused, tokens)
                            /\ AsChecked(Launching!Refused("log format"), excused, tokens)
    /\ \A excused : AsChecked(Launching!Refused("role"), excused, FALSE)
    /\ \A tokens : AsChecked(Launching!Refused("secret"), TRUE, tokens)
    /\ \A excused, backend, verifier, network, log, cache :
          /\ AsChecked(Server(backend, verifier, network, log, cache), excused, FALSE)
          /\ verifier # "none" => AsChecked(Server(backend, verifier, network, log, cache), excused, TRUE)
<1>1. \A why : Launching!IsRefused(Launching!Refused(why)) /\ Launching!Refused(why).refused = why
  BY RefusedOrServer
<1>2. \A backend, verifier, network, log, cache :
         /\ ~Launching!IsRefused(Server(backend, verifier, network, log, cache))
         /\ Server(backend, verifier, network, log, cache).verifier = verifier
  BY RefusedOrServer
<1>3. /\ \A excused, tokens : /\ AsChecked(Launching!Refused("backend"), excused, tokens)
                             /\ AsChecked(Launching!Refused("cache"), excused, tokens)
                             /\ AsChecked(Launching!Refused("log format"), excused, tokens)
      /\ \A excused : AsChecked(Launching!Refused("role"), excused, FALSE)
      /\ \A tokens : AsChecked(Launching!Refused("secret"), TRUE, tokens)
  BY <1>1 DEF AsChecked
<1>4. ASSUME NEW excused, NEW backend, NEW verifier, NEW network, NEW log, NEW cache
      PROVE  /\ AsChecked(Server(backend, verifier, network, log, cache), excused, FALSE)
             /\ verifier # "none" => AsChecked(Server(backend, verifier, network, log, cache), excused, TRUE)
  <2>1. ASSUME NEW w, ~Launching!IsRefused(w)
        PROVE  /\ AsChecked(w, excused, FALSE)
               /\ w.verifier # "none" => AsChecked(w, excused, TRUE)
    BY <2>1 DEF AsChecked
  <2>2. /\ ~Launching!IsRefused(Server(backend, verifier, network, log, cache))
        /\ Server(backend, verifier, network, log, cache).verifier = verifier
    BY <1>2
  <2> QED
    BY <2>1, <2>2
<1> QED
  BY <1>3, <1>4, Zenon

(* What a launch comes to whose parts pass, but for the verifier.           *)
LEMMA LaunchComesTo ==
    ASSUME NEW c, NEW src, NEW ver, NEW net, NEW l,
           NEW excused \in BOOLEAN, NEW tokens \in BOOLEAN,
           args.cache \in Launching!Selectors, c.valid = TRUE, src # "both",
           net # "refused", tokens => src # "none",
           ver = "refused" => excused, ver # "refused" => ver = src
    PROVE  AsChecked(Launching!Verdict(c, src, ver, net, l, FALSE), excused, tokens)
<1> DEFINE v == Launching!Verdict(c, src, ver, net, l, FALSE)
<1>1. \/ v = Launching!Refused("backend") \/ v = Launching!Refused("cache")
      \/ v = Launching!Refused("log format")
      \/ v = Launching!Refused("secret") /\ excused
      \/ v = Launching!Refused("role") /\ ~tokens
      \/ v = Server(Backend(c), ver, net, l, args.cache) /\ (tokens => ver # "none")
  <2>1. CASE ~Drivers(c, src, ver, net)
    BY <2>1, VerdictStops
  <2>2. CASE Drivers(c, src, ver, net)
    <3>1. ver = src
      BY <2>2 DEF Drivers
    <3>2. \/ v = Launching!Refused("log format")
          \/ v = Launching!Refused("role") /\ ver = "none"
          \/ v = Server(Backend(c), ver, net, l, args.cache)
      BY <2>2 DEF Launching!Verdict, Drivers, Server, Backend, Launching!Opens,
                  Launching!RoleUnread
    <3> QED
      BY <3>1, <3>2
  <2> QED
    BY <2>1, <2>2
<1> HIDE DEF v
<1>2. AsChecked(v, excused, tokens)
  BY <1>1, AsCheckedIs
<1> QED
  BY <1>2 DEF v

(* What `lnpl config check` passes, `lnpl serve` launches, over the network *)
(* and with the verifier the document asks for, but for the secret's value, *)
(* a format, or a role the document asks for without tokens                 *)
(* (cmd_config_check, cmd_serve), for any files, environments and options.  *)
THEOREM CheckedLaunches == MCSpec => []CheckedConfigLaunches
<1>1. JudgedOnce => CheckedConfigLaunches
  <2> DEFINE excused == \/ env.secret \in {"empty", "short"} \/ env.shadowed
                        \/ args.jwt_issuer = "empty"
  <2> SUFFICES ASSUME JudgedOnce, Launching!NoOverride, args.network = "http",
                      checked = [ok |-> TRUE], served # Launching!NotYet
               PROVE  AsChecked(served, excused, launched.jwt)
    BY DEF AsChecked, CheckedConfigLaunches, Launching!CheckedConfigLaunches
  <2> DEFINE cfg == Launching!CliConfig
             verifier == Launching!CliVerifier(cfg.jwt)
             network == Launching!CliNetwork(cfg)
             log == Launching!Either(args.log_format, cfg.log_format)
             appOrder == FALSE
  <2>1. /\ cfg \in Launching!Table /\ cfg.jwt \in {"none", file.default.jwt, file.profile.jwt}
        /\ cfg.jwt \in {"none", "env", "file", "provider"}
        /\ cfg.valid \in BOOLEAN /\ appOrder \in BOOLEAN /\ args.cache \in Launching!Selectors
    BY LoadTyped, SituationTyped DEF Launching!CliConfig, Launching!Table, Launching!Option
  <2>2. served = Launching!Verdict(cfg, cfg.jwt, verifier, network, log, appOrder)
    BY SourceIs DEF JudgedOnce, Launching!Serve
  <2>3. /\ cfg.valid /\ ~Launching!AuthMissing /\ ~Launching!SecretProblem(cfg)
        /\ launched.targets = "names" => cfg.endpoint \/ env.endpoint
        /\ launched.jwt => cfg.jwt # "none"
    BY CheckedIs
  <2>4. /\ verifier = "refused" =>
             \/ env.secret \in {"empty", "short"} \/ env.shadowed \/ args.jwt_issuer = "empty"
        /\ verifier # "refused" => verifier = cfg.jwt
    BY <2>1, <2>3, CheckedSecret DEF Launching!SecretProblem
  <2>5. network # "refused"
    BY <2>3 DEF Launching!CliNetwork, Launching!Endpoint, Launching!NoOverride
  <2>6. /\ excused \in BOOLEAN /\ launched.jwt \in BOOLEAN
        /\ cfg.valid = TRUE /\ cfg.jwt # "both"
        /\ launched.jwt => cfg.jwt # "none"
    BY <2>1, <2>3, SituationTyped
       DEF Launching!Surrounding, Launching!ServedDocument
  <2> HIDE DEF excused, cfg, verifier, network, log
  <2>7. AsChecked(Launching!Verdict(cfg, cfg.jwt, verifier, network, log, FALSE), excused,
                  launched.jwt)
    BY <2>1, <2>4, <2>5, <2>6, LaunchComesTo DEF excused
  <2> QED
    BY <2>2, <2>7 DEF appOrder
<1> QED
  BY <1>1, JudgedInvariant, PTL

(* What both entry points read of the same words.                           *)
LEMMA UpdateWithItself ==
    ASSUME NEW f, f = [x \in DOMAIN f |-> f[x]], NEW x
    PROVE  [f EXCEPT ![x] = f[x]] = f
OBVIOUS

LEMMA SameConfig ==
    ASSUME JudgedOnce, Launching!SameWords
    PROVE  Launching!AppConfig = Launching!CliConfig
<1>1. args.profile # "empty" /\ env.profile # "empty" /\ (args.config \/ ~file.present)
  BY DEF Launching!SameWords
<1>2. CASE args.config
  BY <1>1, <1>2 DEF Launching!AppConfig, Launching!CliConfig, Launching!NotEmpty, Launching!Either
<1>3. CASE ~args.config
  <2>1. ~file.present
    BY <1>1, <1>3
  <2>2. [Launching!Nothing EXCEPT !.valid = ~args.config] = Launching!Nothing
    <3>1. [Launching!Nothing EXCEPT !.valid = TRUE] = Launching!Nothing
      <4>1. Launching!Nothing = [x \in DOMAIN Launching!Nothing |-> Launching!Nothing[x]]
        BY DEF Launching!Nothing
      <4>2. Launching!Nothing.valid = TRUE
        BY DEF Launching!Nothing
      <4> QED
        BY <4>1, <4>2, UpdateWithItself
    <3>2. (~args.config) = TRUE
      BY <1>3, SituationTyped DEF Launching!Option
    <3> QED
      BY <3>1, <3>2
  <2>3. \A profile : Launching!Load(profile) = Launching!Nothing
    BY <2>1, <2>2 DEF Launching!Load
  <2> QED
    BY <1>3, <2>3 DEF Launching!AppConfig, Launching!CliConfig
<1> QED
  BY <1>2, <1>3

LEMMA SameVerifier ==
    ASSUME JudgedOnce, Launching!SameWords, NEW source
    PROVE  Launching!AppVerifier(source) = Launching!CliVerifier(source)
<1>1. /\ args.jwt_secret_env # "empty" /\ args.jwt_secret_file # "empty"
      /\ args.jwt_issuer # "empty" /\ ~env.shadowed
  BY DEF Launching!SameWords
<1>2. args.token_provider \in {"unset", "hmac", "registered", "unknown"}
  BY SituationTyped DEF Launching!Option
<1> QED
  BY <1>1, <1>2 DEF Launching!AppVerifier, Launching!CliVerifier, Launching!Hmac

LEMMA SameNetwork ==
    ASSUME JudgedOnce, Launching!SameWords, NEW cfg
    PROVE  /\ Launching!AppNetwork(cfg) = "refused" <=> Launching!CliNetwork(cfg) = "refused"
           /\ launched.targets # "none" =>
                Launching!AppNetwork(cfg) = Launching!CliNetwork(cfg)
<1>1. args.network # "unset" /\ (args.network = "http" => launched.targets # "urls")
  BY DEF Launching!SameWords
<1>2. /\ args.network \in Launching!Selectors \cup {"http"}
      /\ launched.targets \in {"none", "urls", "names"}
  BY SituationTyped DEF Launching!Option, Launching!ServedDocument
<1>3. CASE args.network = "http"
  BY <1>1, <1>2, <1>3 DEF Launching!AppNetwork, Launching!CliNetwork, Launching!AuthMissing,
                          Launching!Endpoint
<1>4. CASE args.network # "http"
  BY <1>1, <1>2, <1>4 DEF Launching!AppNetwork, Launching!CliNetwork, Launching!Opens,
                          Launching!Either, Launching!Selectors
<1> QED
  BY <1>3, <1>4

LEMMA VerifierIs ==
    ASSUME JudgedOnce, NEW source
    PROVE  /\ Launching!CliVerifier(source) \in {"refused", "registered", source}
           /\ args.jwt_secret_env # "empty" =>
                Launching!AppVerifier(source) \in {"refused", "registered", source}
<1>1. args.token_provider \in {"unset", "hmac", "registered", "unknown"}
  BY SituationTyped DEF Launching!Option
<1> QED
  BY <1>1 DEF Launching!CliVerifier, Launching!AppVerifier, Launching!Hmac

(* A server runs with the verifier that was made for it.                    *)
LEMMA RunsWithVerifier ==
    ASSUME NEW c, NEW src, NEW ver, NEW net, NEW l, NEW cacheLater \in BOOLEAN,
           args.cache \in Launching!Selectors, c.valid \in BOOLEAN,
           ~Launching!IsRefused(Launching!Verdict(c, src, ver, net, l, cacheLater))
    PROVE  /\ ver # "refused"
           /\ Launching!Verdict(c, src, ver, net, l, cacheLater).verifier = ver
<1>1. Drivers(c, src, ver, net)
  <2> DEFINE v == Launching!Verdict(c, src, ver, net, l, cacheLater)
  <2>1. ASSUME ~Drivers(c, src, ver, net)
        PROVE  \E why : v = Launching!Refused(why)
    <3>1. \/ v = Launching!Refused("backend") \/ v = Launching!Refused("cache")
          \/ v = Launching!Refused("config") \/ v = Launching!Refused("two secrets")
          \/ v = Launching!Refused("secret") \/ v = Launching!Refused("network")
      BY <2>1, VerdictStops
    <3> QED
      BY <3>1
  <2> QED
    BY <2>1, RefusedOrServer
<1>2. Launching!Verdict(c, src, ver, net, l, cacheLater) = Server(Backend(c), ver, net, l, args.cache)
  <2>1. \/ Launching!Verdict(c, src, ver, net, l, cacheLater) = Launching!Refused("log format")
        \/ Launching!Verdict(c, src, ver, net, l, cacheLater) = Launching!Refused("role")
        \/ Launching!Verdict(c, src, ver, net, l, cacheLater)
              = Server(Backend(c), ver, net, l, args.cache)
    BY <1>1 DEF Launching!Verdict, Drivers, Server, Backend, Launching!Opens
  <2> QED
    BY <2>1, RefusedOrServer
<1>3. ver # "refused"
  BY <1>1 DEF Drivers
<1>4. Server(Backend(c), ver, net, l, args.cache).verifier = ver
  BY RefusedOrServer
<1> QED
  BY <1>2, <1>3, <1>4

LEMMA Judgements ==
    ASSUME JudgedOnce
    PROVE  /\ args.cache \in Launching!Selectors
           /\ Launching!CliConfig.valid \in BOOLEAN
           /\ Launching!AppConfig.valid \in BOOLEAN
BY LoadTyped, SituationTyped
   DEF Launching!CliConfig, Launching!AppConfig, Launching!Table, Launching!Option,
       Launching!Nothing

LEMMA ServedHonours ==
    ASSUME JudgedOnce, served = Launching!Serve, ~Launching!IsRefused(served)
    PROVE  served.verifier
             \in {"registered", Launching!SecretSource(Launching!CliConfig, args.jwt_secret_env,
                                                       args.jwt_secret_file)}
<1> DEFINE source == Launching!SecretSource(Launching!CliConfig, args.jwt_secret_env,
                                            args.jwt_secret_file)
           appOrder == FALSE
           network == Launching!CliNetwork(Launching!CliConfig)
           log == Launching!Either(args.log_format, Launching!CliConfig.log_format)
<1>1. served = Launching!Verdict(Launching!CliConfig, source, Launching!CliVerifier(source),
                                 network, log, appOrder)
  BY DEF Launching!Serve
<1> HIDE DEF source, appOrder, network, log
<1>2. /\ Launching!CliVerifier(source) # "refused"
      /\ served.verifier = Launching!CliVerifier(source)
  <2>1. ~Launching!IsRefused(Launching!Verdict(Launching!CliConfig, source,
                                               Launching!CliVerifier(source), network, log, appOrder))
    BY <1>1
  <2>2. args.cache \in Launching!Selectors /\ Launching!CliConfig.valid \in BOOLEAN
    BY Judgements
  <2>3. appOrder \in BOOLEAN
    BY DEF appOrder
  <2>4. /\ Launching!CliVerifier(source) # "refused"
        /\ Launching!Verdict(Launching!CliConfig, source, Launching!CliVerifier(source), network, log,
                             appOrder).verifier = Launching!CliVerifier(source)
    BY <2>1, <2>2, <2>3, RunsWithVerifier
  <2> QED
    BY <1>1, <2>4
<1>3. served.verifier \in {"registered", source}
  BY <1>2, VerifierIs
<1> QED
  BY <1>3 DEF source

LEMMA BuiltHonours ==
    ASSUME JudgedOnce, built = Launching!BuildApp, ~Launching!IsRefused(built),
           args.jwt_secret_env # "empty", args.jwt_secret_file # "empty"
    PROVE  built.verifier
             \in {"registered", Launching!SecretSource(Launching!AppConfig, args.jwt_secret_env,
                                                       args.jwt_secret_file)}
<1> DEFINE source == Launching!SecretSource(Launching!AppConfig, args.jwt_secret_env,
                                            args.jwt_secret_file)
           appOrder == TRUE
           network == Launching!AppNetwork(Launching!AppConfig)
<1>1. built = Launching!Verdict(Launching!AppConfig, source, Launching!AppVerifier(source),
                                network, args.log_format, appOrder)
  BY DEF Launching!BuildApp, Launching!NotEmpty
<1> HIDE DEF source, appOrder, network
<1>2. /\ Launching!AppVerifier(source) # "refused"
      /\ built.verifier = Launching!AppVerifier(source)
  <2>1. ~Launching!IsRefused(Launching!Verdict(Launching!AppConfig, source,
                                               Launching!AppVerifier(source), network, args.log_format, appOrder))
    BY <1>1
  <2>2. args.cache \in Launching!Selectors /\ Launching!AppConfig.valid \in BOOLEAN
    BY Judgements
  <2>3. appOrder \in BOOLEAN
    BY DEF appOrder
  <2>4. /\ Launching!AppVerifier(source) # "refused"
        /\ Launching!Verdict(Launching!AppConfig, source, Launching!AppVerifier(source), network, args.log_format,
                             appOrder).verifier = Launching!AppVerifier(source)
    BY <2>1, <2>2, <2>3, RunsWithVerifier
  <2> QED
    BY <1>1, <2>4
<1>3. built.verifier \in {"registered", source}
  BY <1>2, VerifierIs
<1> QED
  BY <1>3 DEF source

LEMMA SecretsHonoured ==
    ASSUME JudgedOnce PROVE Launching!SecretsAreHonoured
<1>1. served # Launching!NotYet => served = Launching!Serve
  BY DEF JudgedOnce
<1>2. built # Launching!NotYet => built = Launching!BuildApp
  BY DEF JudgedOnce
<1> QED
  BY <1>1, <1>2, ServedHonours, BuiltHonours DEF Launching!SecretsAreHonoured

(* The same drivers under another order and another network, log format:    *)
(* they stop, or they come to the format, the role and the server.          *)
LEMMA Stops ==
    ASSUME NEW c, NEW src, NEW ver, NEW net, NEW l, NEW cacheLater \in BOOLEAN,
           args.cache \in Launching!Selectors, c.valid \in BOOLEAN,
           ~Drivers(c, src, ver, net)
    PROVE  Launching!IsRefused(Launching!Verdict(c, src, ver, net, l, cacheLater))
<1> DEFINE v == Launching!Verdict(c, src, ver, net, l, cacheLater)
<1>1. \/ v = Launching!Refused("backend") \/ v = Launching!Refused("cache")
      \/ v = Launching!Refused("config") \/ v = Launching!Refused("two secrets")
      \/ v = Launching!Refused("secret") \/ v = Launching!Refused("network")
  BY VerdictStops
<1> HIDE DEF v
<1>2. Launching!IsRefused(v)
  BY <1>1, RefusedOrServer
<1> QED
  BY <1>2 DEF v

LEMMA Passes ==
    ASSUME NEW c, NEW src, NEW ver, NEW net, NEW l, NEW cacheLater \in BOOLEAN,
           Drivers(c, src, ver, net)
    PROVE  /\ l = "unknown" => Launching!Verdict(c, src, ver, net, l, cacheLater)
                                 = Launching!Refused("log format")
           /\ l # "unknown" /\ Launching!RoleUnread(ver) =>
                Launching!Verdict(c, src, ver, net, l, cacheLater) = Launching!Refused("role")
BY DEF Launching!Verdict, Drivers, Backend, Launching!Opens

LEMMA Serves ==
    ASSUME NEW c, NEW src, NEW ver, NEW net, NEW l, NEW cacheLater \in BOOLEAN,
           Drivers(c, src, ver, net), l # "unknown", ~Launching!RoleUnread(ver)
    PROVE  Launching!Verdict(c, src, ver, net, l, cacheLater)
             = Server(Backend(c), ver, net, l, args.cache)
BY DEF Launching!Verdict, Drivers, Server, Backend, Launching!Opens

LEMMA SettingsAre ==
    ASSUME NEW v
    PROVE  /\ Launching!Settings(v) = [x \in DOMAIN v |-> Launching!Settings(v)[x]]
           /\ \A x \in DOMAIN v : x \notin {"network", "log_format"} =>
                Launching!Settings(v)[x] = v[x]
           /\ "log_format" \in DOMAIN v => Launching!Settings(v)["log_format"] = "any"
           /\ "network" \in DOMAIN v =>
                Launching!Settings(v)["network"]
                  = IF launched.targets = "none" THEN "any" ELSE v["network"]
BY DEF Launching!Settings

LEMMA EqualSettings ==
    ASSUME NEW v, NEW w, DOMAIN v = DOMAIN w,
           \A x \in DOMAIN v : x \notin {"network", "log_format"} => v[x] = w[x],
           launched.targets = "none" \/ v["network"] = w["network"]
    PROVE  Launching!Settings(v) = Launching!Settings(w)
BY SettingsAre

LEMMA SameSettings ==
    ASSUME NEW backend, NEW ver, NEW cache, NEW net1, NEW net2, NEW log1, NEW log2,
           launched.targets # "none" => net1 = net2
    PROVE  Launching!Settings(Server(backend, ver, net1, log1, cache))
             = Launching!Settings(Server(backend, ver, net2, log2, cache))
<1> DEFINE v == Server(backend, ver, net1, log1, cache)
           w == Server(backend, ver, net2, log2, cache)
<1>1. DOMAIN v = DOMAIN w
  BY DEF Server
<1>2. \A x \in DOMAIN v : x \notin {"network", "log_format"} => v[x] = w[x]
  BY DEF Server
<1>3. launched.targets = "none" \/ v["network"] = w["network"]
  BY DEF Server
<1> HIDE DEF v, w
<1>4. Launching!Settings(v) = Launching!Settings(w)
  BY <1>1, <1>2, <1>3, EqualSettings
<1> QED
  BY <1>4 DEF v, w

AlikeVerdicts(v, w, log) ==
    \/ Launching!IsRefused(v) /\ Launching!IsRefused(w)
    \/ v = Launching!Refused("log format") /\ log = "unset"
    \/ /\ ~Launching!IsRefused(v) /\ ~Launching!IsRefused(w)
       /\ Launching!Settings(v) = Launching!Settings(w)

LEMMA Alike ==
    ASSUME NEW c, NEW src, NEW ver, NEW net1, NEW net2, NEW log1, NEW log2,
           NEW first \in BOOLEAN, NEW second \in BOOLEAN,
           args.cache \in Launching!Selectors, c.valid \in BOOLEAN,
           net1 = "refused" <=> net2 = "refused",
           launched.targets # "none" => net1 = net2,
           log2 # log1 => log2 = "unset",
           NEW v, v = Launching!Verdict(c, src, ver, net1, log1, first),
           NEW w, w = Launching!Verdict(c, src, ver, net2, log2, second)
    PROVE  AlikeVerdicts(v, w, log2)
<1> USE DEF AlikeVerdicts
<1>1. CASE ~Drivers(c, src, ver, net1)
  <2>1. ~Drivers(c, src, ver, net2)
    BY <1>1 DEF Drivers
  <2> QED
    BY <1>1, <2>1, Stops
<1>2. CASE Drivers(c, src, ver, net1)
  <2>1. Drivers(c, src, ver, net2)
    BY <1>2 DEF Drivers
  <2>2. CASE log1 = "unknown"
    <3>1. v = Launching!Refused("log format")
      BY <1>2, <2>2, Passes
    <3>2. CASE log2 = "unset"
      BY <3>1, <3>2
    <3>3. CASE log2 # "unset"
      <4>1. w = Launching!Refused("log format")
        BY <2>1, <2>2, <3>3, Passes
      <4> QED
        BY <3>1, <4>1, RefusedOrServer
    <3> QED
      BY <3>2, <3>3
  <2>3. CASE log1 # "unknown"
    <3>1. log2 # "unknown"
      BY <2>3
    <3>2. CASE Launching!RoleUnread(ver)
      <4>1. v = Launching!Refused("role") /\ w = Launching!Refused("role")
        BY <1>2, <2>1, <2>3, <3>1, <3>2, Passes
      <4> QED
        BY <4>1, RefusedOrServer
    <3>3. CASE ~Launching!RoleUnread(ver)
      <4>1. /\ v = Server(Backend(c), ver, net1, log1, args.cache)
            /\ w = Server(Backend(c), ver, net2, log2, args.cache)
        <5>1. v = Server(Backend(c), ver, net1, log1, args.cache)
          BY <1>2, <2>3, <3>3, Serves
        <5>2. w = Server(Backend(c), ver, net2, log2, args.cache)
          BY <2>1, <3>1, <3>3, Serves
        <5> QED
          BY <5>1, <5>2
      <4>2. ~Launching!IsRefused(v) /\ ~Launching!IsRefused(w)
        BY <4>1, RefusedOrServer
      <4>3. Launching!Settings(v) = Launching!Settings(w)
        BY <4>1, SameSettings
      <4> QED
        BY <4>2, <4>3
    <3> QED
      BY <3>2, <3>3
  <2> QED
    BY <2>2, <2>3
<1> QED
  BY <1>1, <1>2

LEMMA AlikeLaunches ==
    ASSUME JudgedOnce PROVE Launching!LaunchesAlike
<1> SUFFICES ASSUME Launching!SameWords, built # Launching!NotYet
             PROVE  \/ Launching!IsRefused(served) /\ Launching!IsRefused(built)
                    \/ served = Launching!Refused("log format") /\ args.log_format = "unset"
                    \/ /\ ~Launching!IsRefused(served) /\ ~Launching!IsRefused(built)
                       /\ Launching!Settings(served) = Launching!Settings(built)
  BY DEF Launching!LaunchesAlike
<1> DEFINE cfg == Launching!CliConfig
           source == Launching!SecretSource(cfg, args.jwt_secret_env, args.jwt_secret_file)
           verifier == Launching!CliVerifier(source)
           net1 == Launching!CliNetwork(cfg)
           net2 == Launching!AppNetwork(cfg)
           log1 == Launching!Either(args.log_format, cfg.log_format)
           log2 == args.log_format
           cliOrder == FALSE
           appOrder == TRUE
<1>1. served = Launching!Serve /\ built = Launching!BuildApp
  BY DEF JudgedOnce
<1>2. served = Launching!Verdict(cfg, source, verifier, net1, log1, cliOrder)
  BY <1>1 DEF Launching!Serve
<1>3. built = Launching!Verdict(cfg, source, verifier, net2, log2, appOrder)
  <2>1. Launching!NotEmpty(args.jwt_secret_file) = args.jwt_secret_file
    BY DEF Launching!SameWords, Launching!NotEmpty
  <2>2. Launching!AppVerifier(source) = verifier
    BY SameVerifier
  <2>3. Launching!AppConfig = cfg
    BY SameConfig
  <2> QED
    BY <1>1, <2>1, <2>2, <2>3 DEF Launching!BuildApp
<1>4. /\ net1 = "refused" <=> net2 = "refused"
      /\ launched.targets # "none" => net1 = net2
  BY SameNetwork
<1>5. log2 # log1 => log2 = "unset"
  BY DEF Launching!Either
<1>6. cliOrder \in BOOLEAN /\ appOrder \in BOOLEAN
  OBVIOUS
<1>7. args.cache \in Launching!Selectors /\ cfg.valid \in BOOLEAN
  BY Judgements
<1> HIDE DEF cfg, source, verifier, net1, net2, log1, log2, cliOrder, appOrder
<1>8. AlikeVerdicts(served, built, log2)
  BY <1>2, <1>3, <1>4, <1>5, <1>6, <1>7, Alike
<1> QED
  BY <1>8 DEF log2, AlikeVerdicts

(* `lnpl serve` and build_app come to the same server of the same words,    *)
(* but for the named differences, and a launch that succeeds verifies with  *)
(* the secret it was given (cmd_serve, build_app), for any files,           *)
(* environments and options.                                                *)
THEOREM EntryPoints == MCSpec => []EntryPointsAgree
<1>1. JudgedOnce => EntryPointsAgree
  BY SecretsHonoured, AlikeLaunches DEF EntryPointsAgree, Launching!EntryPointsAgree
<1> QED
  BY <1>1, JudgedInvariant, PTL

-----------------------------------------------------------------------------
(* The editor.                                                              *)

LEMMA TailIs ==
    ASSUME NEW S, NEW s \in Seq(S), s # <<>>
    PROVE  /\ Len(s) \in Nat /\ Len(s) \in 1..Len(s) /\ 1 \in 1..Len(s)
           /\ Head(s) = s[1] /\ Head(s) \in S
           /\ Tail(s) \in Seq(S) /\ Len(Tail(s)) = Len(s) - 1
           /\ \A i \in 1..Len(Tail(s)) :
                 /\ Tail(s)[i] = s[i + 1] /\ (i + 1) - 1 = i /\ 1 < i + 1
                 /\ i \in 1..Len(s) /\ i + 1 \in 1..Len(s)
                 /\ \A j \in 1..Len(Tail(s)) : i < j => i + 1 < j + 1
OBVIOUS

(* What is on the two streams.  An announcement carries the text of a       *)
(* document, or that it is closed; to others an answer belongs.             *)
Held == EditorTexts \cup {NoText}

Announces(m, u) ==
    /\ \/ "method" \in DOMAIN m /\ m.method \in {"text", "close"}
       \/ "kind" \in DOMAIN m /\ m.kind = "publish"
    /\ m.uri = u

Says(m) == IF "text" \in DOMAIN m THEN m.text ELSE IF "of" \in DOMAIN m THEN m.of ELSE NoText

Expects(m) ==
    \/ "method" \in DOMAIN m /\ m.method \in {"initialize", "codeAction", "hover", "shutdown"}
    \/ "kind" \in DOMAIN m /\ m.kind # "publish"

(* What the first n messages say of a document, of which b was said before. *)
Tells(s, b, u, n, t) ==
    \/ \E i \in 1..n : /\ Announces(s[i], u) /\ Says(s[i]) = t
                       /\ \A j \in (i + 1)..n : ~Announces(s[j], u)
    \/ b = t /\ \A j \in 1..n : ~Announces(s[j], u)

LEMMA TellsAppend ==
    ASSUME NEW S, NEW s \in Seq(S), NEW m \in S, NEW b, NEW u, NEW t
    PROVE  /\ \A n \in 0..Len(s) : Tells(s, b, u, n, t) => Tells(Append(s, m), b, u, n, t)
           /\ ~Announces(m, u) /\ Tells(s, b, u, Len(s), t) =>
                Tells(Append(s, m), b, u, Len(s) + 1, t)
           /\ Announces(m, u) => Tells(Append(s, m), b, u, Len(s) + 1, Says(m))
<1>1. /\ \A i \in 1..Len(s) : Append(s, m)[i] = s[i]
      /\ Append(s, m)[Len(s) + 1] = m /\ Len(s) \in Nat
  OBVIOUS
<1>2. ASSUME NEW n \in 0..Len(s), Tells(s, b, u, n, t) PROVE Tells(Append(s, m), b, u, n, t)
  BY <1>1, <1>2 DEF Tells
<1>3. ASSUME ~Announces(m, u), Tells(s, b, u, Len(s), t)
      PROVE  Tells(Append(s, m), b, u, Len(s) + 1, t)
  <2>1. CASE b = t /\ \A j \in 1..Len(s) : ~Announces(s[j], u)
    BY <1>1, <1>3, <2>1 DEF Tells
  <2>2. ASSUME NEW i \in 1..Len(s), Announces(s[i], u), Says(s[i]) = t,
               \A j \in (i + 1)..Len(s) : ~Announces(s[j], u)
        PROVE  Tells(Append(s, m), b, u, Len(s) + 1, t)
    <3>1. i \in 1..(Len(s) + 1) /\ Append(s, m)[i] = s[i]
      BY <1>1
    <3>2. \A j \in (i + 1)..(Len(s) + 1) : ~Announces(Append(s, m)[j], u)
      BY <1>1, <1>3, <2>2
    <3> QED
      BY <2>2, <3>1, <3>2 DEF Tells
  <2> QED
    BY <1>3, <2>1, <2>2 DEF Tells
<1>4. ASSUME Announces(m, u) PROVE Tells(Append(s, m), b, u, Len(s) + 1, Says(m))
  <2>1. Len(s) + 1 \in 1..(Len(s) + 1) /\ (Len(s) + 1 + 1)..(Len(s) + 1) = {}
    BY <1>1
  <2> QED
    BY <1>1, <1>4, <2>1 DEF Tells
<1> QED
  BY <1>2, <1>3, <1>4

LEMMA TellsTail ==
    ASSUME NEW S, NEW s \in Seq(S), s # <<>>, NEW b, NEW b2, NEW u, NEW t,
           NEW n \in 1..Len(s), Tells(s, b, u, n, t),
           Announces(Head(s), u) => b2 = Says(Head(s)),
           ~Announces(Head(s), u) => b2 = b
    PROVE  Tells(Tail(s), b2, u, n - 1, t)
<1>1. /\ \A i \in 1..(Len(s) - 1) : Tail(s)[i] = s[i + 1]
      /\ Head(s) = s[1] /\ Len(s) \in Nat /\ n \in Nat /\ n <= Len(s)
  OBVIOUS
<1>2. CASE b = t /\ \A j \in 1..n : ~Announces(s[j], u)
  <2>1. ~Announces(Head(s), u)
    BY <1>1, <1>2
  <2>2. \A j \in 1..(n - 1) : ~Announces(Tail(s)[j], u)
    BY <1>1, <1>2
  <2> QED
    BY <1>2, <2>1, <2>2 DEF Tells
<1>3. ASSUME NEW i \in 1..n, Announces(s[i], u), Says(s[i]) = t,
             \A j \in (i + 1)..n : ~Announces(s[j], u)
      PROVE  Tells(Tail(s), b2, u, n - 1, t)
  <2>1. CASE i = 1
    <3>1. \A j \in 1..(n - 1) : ~Announces(Tail(s)[j], u)
      BY <1>1, <1>3, <2>1
    <3>2. b2 = t
      BY <1>1, <1>3, <2>1
    <3> QED
      BY <3>1, <3>2 DEF Tells
  <2>2. CASE i # 1
    <3>1. i - 1 \in 1..(n - 1) /\ Tail(s)[i - 1] = s[i]
      BY <1>1, <2>2
    <3>2. \A j \in ((i - 1) + 1)..(n - 1) : ~Announces(Tail(s)[j], u)
      BY <1>1, <1>3, <2>2
    <3> QED
      BY <1>3, <3>1, <3>2 DEF Tells
  <2> QED
    BY <2>1, <2>2
<1> QED
  BY <1>2, <1>3 DEF Tells

LEMMA TellsNothing ==
    ASSUME NEW s, NEW b, NEW u, NEW t
    PROVE  Tells(s, b, u, 0, t) <=> b = t
BY DEF Tells

(* How many answers a stream still owes or carries.                         *)
Places(s) == {i \in 1..Len(s) : Expects(s[i])}
Number(s) == Cardinality(Places(s))

LEMMA NumberIsNat ==
    ASSUME NEW S, NEW s \in Seq(S)
    PROVE  /\ IsFiniteSet(Places(s)) /\ Number(s) \in Nat
           /\ s = <<>> => Number(s) = 0
<1>1. IsFiniteSet(1..Len(s))
  BY FS_Interval
<1>2. IsFiniteSet(Places(s))
  BY <1>1, FS_Subset DEF Places
<1>3. s = <<>> => Places(s) = {}
  BY DEF Places
<1> QED
  BY <1>2, <1>3, FS_CardinalityType, FS_EmptySet DEF Number

LEMMA NumberAppend ==
    ASSUME NEW S, NEW s \in Seq(S), NEW m \in S
    PROVE  Number(Append(s, m)) = Number(s) + (IF Expects(m) THEN 1 ELSE 0)
<1>1. /\ \A i \in 1..Len(s) : Append(s, m)[i] = s[i]
      /\ Append(s, m)[Len(s) + 1] = m /\ Len(s) \in Nat /\ Len(Append(s, m)) = Len(s) + 1
  OBVIOUS
<1>2. IsFiniteSet(Places(s)) /\ Number(s) \in Nat
  BY NumberIsNat
<1>3. CASE Expects(m)
  <2>1. Places(Append(s, m)) = Places(s) \cup {Len(s) + 1}
    BY <1>1, <1>3 DEF Places
  <2>2. Len(s) + 1 \notin Places(s)
    BY <1>1 DEF Places
  <2> QED
    BY <1>2, <1>3, <2>1, <2>2, FS_AddElement DEF Number
<1>4. CASE ~Expects(m)
  <2>1. Places(Append(s, m)) = Places(s)
    BY <1>1, <1>4 DEF Places
  <2> QED
    BY <1>2, <1>4, <2>1 DEF Number
<1> QED
  BY <1>3, <1>4

LEMMA NumberTail ==
    ASSUME NEW S, NEW s \in Seq(S), s # <<>>
    PROVE  Number(s) = Number(Tail(s)) + (IF Expects(Head(s)) THEN 1 ELSE 0)
<1>1. /\ \A i \in 1..(Len(s) - 1) : Tail(s)[i] = s[i + 1]
      /\ Head(s) = s[1] /\ Len(s) \in Nat /\ Len(s) >= 1 /\ Len(Tail(s)) = Len(s) - 1
      /\ Tail(s) \in Seq(S)
  OBVIOUS
<1> DEFINE later == Places(s) \ {1}
           back == [i \in later |-> i - 1]
<1>2. IsFiniteSet(Places(s)) /\ IsFiniteSet(Places(Tail(s)))
  BY <1>1, NumberIsNat
<1>3. IsFiniteSet(later)
  BY <1>2, FS_Subset
<1>4. back \in Bijection(later, Places(Tail(s)))
  <2>1. \A i \in later : i - 1 \in Places(Tail(s))
    BY <1>1 DEF Places
  <2>2. \A k \in Places(Tail(s)) : k + 1 \in later /\ back[k + 1] = k
    BY <1>1 DEF Places
  <2>3. \A i, k \in later : i - 1 = k - 1 => i = k
    BY <1>1 DEF Places
  <2> QED
    BY <2>1, <2>2, <2>3 DEF Bijection, Injection, Surjection, IsInjective
<1>5. Cardinality(later) = Cardinality(Places(Tail(s)))
  BY <1>3, <1>4, FS_Bijection DEF ExistsBijection
<1>6. 1 \in Places(s) <=> Expects(Head(s))
  BY <1>1 DEF Places
<1>7. Cardinality(later) = IF 1 \in Places(s) THEN Cardinality(Places(s)) - 1
                                              ELSE Cardinality(Places(s))
  BY <1>2, FS_RemoveElement
<1>8. Cardinality(Places(s)) \in Nat
  BY <1>2, FS_CardinalityType
<1> QED
  BY <1>5, <1>6, <1>7, <1>8 DEF Number

(* The messages.                                                            *)
Asks ==
    [method : {"initialize"}, literals : BOOLEAN]
    \cup [method : {"text"}, uri : Uris, text : EditorTexts]
    \cup [method : {"close"}, uri : Uris]
    \cup [method : {"hover"}, uri : Uris, of : Held]
    \cup [method : {"shutdown", "exit", "end of input"}]

Fixes == {m \in [method : {"codeAction"}, uri : Uris, given : Held, data : BOOLEAN, of : Held,
                 stale : BOOLEAN] : m.stale = (m.given \notin {m.of, NoText})}

Told ==
    [kind : {"result", "error", "ready"}]
    \cup [kind : {"publish"}, uri : Uris, of : Held]

Views == {m \in [kind : {"fix", "fact"}, uri : Uris, to : Held, of : Held, stale : BOOLEAN] :
            m.to # m.of => m.stale}

Notices == {"text", "close"}

LEMMA Asked ==
    ASSUME NEW m \in Asks \cup Fixes
    PROVE  /\ m.method \in {"initialize", "text", "close", "hover", "codeAction", "shutdown", "exit",
                            "end of input"}
           /\ \A u : Announces(m, u) <=> m.method \in Notices /\ m.uri = u
           /\ Expects(m) <=> m.method \in {"initialize", "codeAction", "hover", "shutdown"}
           /\ m.method \in Notices => m.uri \in Uris
           /\ m.method = "text" => Says(m) = m.text /\ m.text \in EditorTexts
           /\ m.method = "close" => Says(m) = NoText
           /\ m.method = "codeAction" => m \in Fixes
           /\ m.method = "hover" => m.uri \in Uris /\ m.of \in Held
BY DEF Asks, Fixes, Announces, Expects, Says, Notices

LEMMA Answered ==
    ASSUME NEW m \in Told \cup Views
    PROVE  /\ m.kind \in {"result", "error", "ready", "publish", "fix", "fact"}
           /\ \A u : Announces(m, u) <=> m.kind = "publish" /\ m.uri = u
           /\ Expects(m) <=> m.kind # "publish"
           /\ m.kind = "publish" => m.uri \in Uris /\ m.of \in Held /\ Says(m) = m.of
           /\ m.kind \in {"fix", "fact"} => m \in Views
BY DEF Told, Views, Announces, Expects, Says

-----------------------------------------------------------------------------
(* The session.                                                             *)
StreamsTyped ==
    /\ toServer \in Seq(Asks \cup Fixes) /\ toEditor \in Seq(Told \cup Views)
    /\ lspState \in {"uninitialized", "initialized", "shutdown", "exit 0", "exit 1"}
    /\ documents \in [Uris -> Held] /\ held \in [Uris -> Held] /\ shown \in [Uris -> Held]
    /\ misfits \subseteq {TRUE} /\ lspOwed \in Int

(* Texts are sent within the session.                                       *)
SessionHolds ==
    /\ (\/ ready = "ready"
        \/ \E i \in 1..Len(toServer) : toServer[i].method \in Notices
        \/ \E i \in 1..Len(toEditor) : toEditor[i].kind = "ready") => lspState # "uninitialized"
    /\ (\/ lspState = "shutdown"
        \/ \E i \in 1..Len(toServer) : toServer[i].method = "shutdown") => ready = "leaving"
    /\ lspState = "shutdown" => \A i \in 1..Len(toServer) : toServer[i].method \notin Notices
    /\ \A i, j \in 1..Len(toServer) :
          i < j /\ toServer[i].method = "shutdown" => toServer[j].method \notin Notices

(* What the server will hold is what the editor has, now and when it asked; *)
(* what the editor will show is what the server holds.                      *)
StreamsTell ==
    Lsp!Alive =>
      /\ \A u \in Uris : Tells(toServer, documents[u], u, Len(toServer), held[u])
      /\ \A i \in 1..Len(toServer) : toServer[i].method \in {"codeAction", "hover"} =>
            Tells(toServer, documents[toServer[i].uri], toServer[i].uri, i - 1, toServer[i].of)
      /\ \A u \in Uris : Tells(toEditor, shown[u], u, Len(toEditor), documents[u])
      /\ lspOwed = Number(toServer) + Number(toEditor)

EditorInv == StreamsTyped /\ SessionHolds /\ StreamsTell

LEMMA Streams ==
    ASSUME EditorInv
    PROVE  /\ toServer \in Seq(Asks \cup Fixes) /\ toEditor \in Seq(Told \cup Views)
           /\ Len(toServer) \in Nat /\ Len(toEditor) \in Nat /\ lspOwed \in Int
<1>1. StreamsTyped
  BY DEF EditorInv
<1>2. toServer \in Seq(Asks \cup Fixes) /\ toEditor \in Seq(Told \cup Views) /\ lspOwed \in Int
  BY <1>1, Zenon DEF StreamsTyped
<1>3. Len(toServer) \in Nat /\ Len(toEditor) \in Nat
  BY <1>2
<1> QED
  BY <1>2, <1>3

LEMMA EditorInvInit == MCInit => EditorInv
<1> SUFFICES ASSUME MCInit PROVE EditorInv
  OBVIOUS
<1>1. Lsp!Init
  BY DEF MCInit
<1>2. StreamsTyped
  BY <1>1 DEF Lsp!Init, StreamsTyped, Held
<1>3. SessionHolds
  BY <1>1 DEF Lsp!Init, SessionHolds
<1>4. Len(toServer) = 0 /\ Len(toEditor) = 0
  BY <1>1 DEF Lsp!Init
<1>5. Number(toServer) = 0 /\ Number(toEditor) = 0
  BY <1>1, <1>2, NumberIsNat DEF Lsp!Init, StreamsTyped
<1>6. StreamsTell
  BY <1>1, <1>4, <1>5, TellsNothing DEF Lsp!Init, StreamsTell
<1> QED
  BY <1>2, <1>3, <1>6 DEF EditorInv

(* An empty pair of streams leaves nothing to tell.                         *)
LEMMA QuietAgrees == EditorInv => EditorAgrees
<1> SUFFICES ASSUME EditorInv PROVE Lsp!EditorAgrees
  BY DEF EditorAgrees
<1>1. FALSE \notin misfits
  BY DEF EditorInv, StreamsTyped
<1>2. ASSUME Lsp!Quiet PROVE lspOwed = 0 /\ shown = held
  <2>1. toServer = <<>> /\ toEditor = <<>> /\ Lsp!Alive
    BY <1>2 DEF Lsp!Quiet
  <2>2. Number(toServer) = 0 /\ Number(toEditor) = 0
    BY <2>1, NumberIsNat DEF EditorInv, StreamsTyped
  <2>3. Len(toServer) = 0 /\ Len(toEditor) = 0
    BY <2>1
  <2>4. \A u \in Uris : documents[u] = held[u] /\ shown[u] = documents[u]
    BY <2>1, <2>3, TellsNothing DEF EditorInv, StreamsTell
  <2>5. lspOwed = 0
    BY <2>1, <2>2 DEF EditorInv, StreamsTell
  <2>6. shown = held
    <3>1. shown \in [Uris -> Held] /\ held \in [Uris -> Held]
      BY DEF EditorInv, StreamsTyped
    <3>2. \A u \in Uris : shown[u] = held[u]
      BY <2>4
    <3> QED
      BY <3>1, <3>2
  <2> QED
    BY <2>5, <2>6
<1> QED
  BY <1>1, <1>2 DEF Lsp!EditorAgrees

(* The editor sends a message: a request, or one that ends the session.     *)
LEMMA RequestKeeps ==
    ASSUME EditorInv, NEW m \in Asks \cup Fixes, m.method \notin Notices,
           Lsp!Sends(m, IF Expects(m) THEN 1 ELSE 0), UNCHANGED held,
           m.method \in {"codeAction", "hover"} => m.uri \in Uris /\ m.of = held[m.uri],
           m.method = "shutdown" => ready' = "leaving",
           ready = "leaving" => ready' = "leaving", ready' = "ready" => ready = "ready"
    PROVE  EditorInv'
<1>1. /\ toServer' = Append(toServer, m) /\ toServer \in Seq(Asks \cup Fixes)
      /\ lspOwed' = lspOwed + (IF Expects(m) THEN 1 ELSE 0)
      /\ UNCHANGED <<lspState, documents, toEditor, shown, misfits>>
  BY DEF EditorInv, StreamsTyped, Lsp!Sends, Lsp!serverVars
<1>2. /\ \A i \in 1..Len(toServer) : toServer'[i] = toServer[i]
      /\ toServer'[Len(toServer) + 1] = m /\ Len(toServer') = Len(toServer) + 1
      /\ Len(toServer) \in Nat /\ toServer' \in Seq(Asks \cup Fixes)
  BY <1>1
<1>3. StreamsTyped'
  <2>1. lspOwed \in Int /\ (lspOwed' = lspOwed + 1 \/ lspOwed' = lspOwed + 0)
    BY <1>1, Streams
  <2>2. lspOwed' \in Int
    BY <2>1
  <2> QED
    BY <1>1, <1>2, <2>2 DEF EditorInv, StreamsTyped
<1>4. SessionHolds'
  BY <1>1, <1>2 DEF EditorInv, SessionHolds
<1>5. StreamsTell'
  <2> SUFFICES ASSUME Lsp!Alive PROVE StreamsTell'
    BY <1>1 DEF StreamsTell, Lsp!Alive
  <2> USE DEF EditorInv, StreamsTell
  <2>1. \A u \in Uris : Tells(toServer', documents[u], u, Len(toServer'), held[u])
    <3> TAKE u \in Uris
    <3>1. ~Announces(m, u)
      BY Asked
    <3> QED
      BY <1>1, <1>2, <3>1, TellsAppend
  <2>2. ASSUME NEW i \in 1..Len(toServer'), toServer'[i].method \in {"codeAction", "hover"}
        PROVE  Tells(toServer', documents[toServer'[i].uri], toServer'[i].uri, i - 1, toServer'[i].of)
    <3>1. CASE i \in 1..Len(toServer)
      <4>1. /\ Tells(toServer, documents[toServer[i].uri], toServer[i].uri, i - 1, toServer[i].of)
            /\ i - 1 \in 0..Len(toServer)
        BY <1>2, <2>2, <3>1
      <4> QED
        BY <1>1, <1>2, <3>1, <4>1, TellsAppend
    <3>2. CASE i = Len(toServer) + 1
      <4>1. /\ m.uri \in Uris /\ m.of = held[m.uri]
            /\ Tells(toServer, documents[m.uri], m.uri, Len(toServer), held[m.uri])
        BY <1>2, <2>2, <3>2
      <4>2. Len(toServer) \in 0..Len(toServer) /\ i - 1 = Len(toServer)
        BY <1>2, <3>2
      <4> QED
        BY <1>1, <1>2, <3>2, <4>1, <4>2, TellsAppend
    <3> QED
      BY <1>2, <3>1, <3>2
  <2>3. Number(toServer') = Number(toServer) + (IF Expects(m) THEN 1 ELSE 0)
    BY <1>1, NumberAppend
  <2>4. Number(toServer) \in Nat /\ Number(toEditor) \in Nat
    BY NumberIsNat DEF StreamsTyped
  <2>5. lspOwed' = Number(toServer') + Number(toEditor')
    BY <1>1, <2>3, <2>4
  <2> QED
    BY <1>1, <2>1, <2>2, <2>5
<1> QED
  BY <1>3, <1>4, <1>5 DEF EditorInv

(* The editor changes a document and says so.                               *)
LEMMA NoticeKeeps ==
    ASSUME EditorInv, NEW m \in Asks \cup Fixes, m.method \in Notices, ready = "ready",
           Lsp!Sends(m, 0), UNCHANGED ready, Says(m) \in Held,
           held' = [held EXCEPT ![m.uri] = Says(m)]
    PROVE  EditorInv'
<1>1. /\ toServer' = Append(toServer, m) /\ toServer \in Seq(Asks \cup Fixes)
      /\ UNCHANGED <<lspState, documents, toEditor, shown, misfits, lspOwed>>
  <2>1. lspOwed \in Int /\ lspOwed' = lspOwed + 0
    BY DEF EditorInv, StreamsTyped, Lsp!Sends
  <2>2. lspOwed' = lspOwed
    BY <2>1
  <2> QED
    BY <2>2 DEF EditorInv, StreamsTyped, Lsp!Sends, Lsp!serverVars
<1>2. /\ \A i \in 1..Len(toServer) : toServer'[i] = toServer[i]
      /\ toServer'[Len(toServer) + 1] = m /\ Len(toServer') = Len(toServer) + 1
      /\ Len(toServer) \in Nat /\ toServer' \in Seq(Asks \cup Fixes)
  BY <1>1
<1>3. m.uri \in Uris /\ ~Expects(m) /\ (\A u : Announces(m, u) <=> m.uri = u)
  BY Asked DEF Notices
<1>4. StreamsTyped'
  BY <1>1, <1>2, <1>3 DEF EditorInv, StreamsTyped
<1>5. SessionHolds'
  <2>1. /\ lspState' # "uninitialized" /\ lspState' # "shutdown"
        /\ \A i \in 1..Len(toServer) : toServer[i].method # "shutdown"
    BY <1>1 DEF EditorInv, SessionHolds
  <2>2. \A i \in 1..Len(toServer') : toServer'[i].method # "shutdown"
    BY <1>2, <2>1 DEF Notices
  <2> QED
    BY <2>1, <2>2 DEF SessionHolds
<1>6. StreamsTell'
  <2> SUFFICES ASSUME Lsp!Alive PROVE StreamsTell'
    BY <1>1 DEF StreamsTell, Lsp!Alive
  <2> USE DEF EditorInv, StreamsTell
  <2>1. ASSUME NEW u \in Uris
        PROVE  Tells(toServer', documents[u], u, Len(toServer'), held'[u])
    <3>1. CASE u = m.uri
      <4>1. held'[u] = Says(m)
        BY <3>1 DEF StreamsTyped
      <4> QED
        BY <1>1, <1>2, <1>3, <3>1, <4>1, TellsAppend
    <3>2. CASE u # m.uri
      <4>1. held'[u] = held[u] /\ ~Announces(m, u)
        BY <1>3, <3>2 DEF StreamsTyped
      <4> QED
        BY <1>1, <1>2, <4>1, TellsAppend
    <3> QED
      BY <3>1, <3>2
  <2>2. ASSUME NEW i \in 1..Len(toServer'), toServer'[i].method \in {"codeAction", "hover"}
        PROVE  Tells(toServer', documents[toServer'[i].uri], toServer'[i].uri, i - 1, toServer'[i].of)
    <3>1. i \in 1..Len(toServer)
      BY <1>2, <2>2 DEF Notices
    <3>2. /\ Tells(toServer, documents[toServer[i].uri], toServer[i].uri, i - 1, toServer[i].of)
          /\ i - 1 \in 0..Len(toServer)
      BY <1>2, <2>2, <3>1
    <3> QED
      BY <1>1, <1>2, <3>1, <3>2, TellsAppend
  <2>3. Number(toServer') = Number(toServer)
    <3>1. Number(toServer') = Number(toServer) + 0 /\ Number(toServer) \in Nat
      BY <1>1, <1>3, NumberAppend, NumberIsNat
    <3> QED
      BY <3>1
  <2> QED
    BY <1>1, <2>1, <2>2, <2>3
<1> QED
  BY <1>4, <1>5, <1>6 DEF EditorInv

LEMMA EditorStepKeeps ==
    ASSUME EditorInv,
           \/ Lsp!AskInitialize \/ Lsp!AskShutdown \/ Lsp!Leave
           \/ \E u \in Uris : \/ \E t \in EditorTexts : Lsp!Edit(u, t)
                              \/ Lsp!CloseDocument(u) \/ Lsp!AskFixes(u) \/ Lsp!AskHover(u)
    PROVE  EditorInv'
<1>1. CASE Lsp!AskInitialize
  <2>1. PICK able \in BOOLEAN : Lsp!Sends([method |-> "initialize", literals |-> able], 1)
    BY <1>1 DEF Lsp!AskInitialize
  <2> DEFINE m == [method |-> "initialize", literals |-> able]
  <2>2. m \in Asks \cup Fixes /\ m.method = "initialize"
    BY DEF Asks
  <2>3. Expects(m)
    BY <2>2, Asked
  <2> QED
    BY <1>1, <2>1, <2>2, <2>3, RequestKeeps DEF Lsp!AskInitialize, Notices
<1>2. CASE Lsp!AskShutdown
  <2> DEFINE m == [method |-> "shutdown"]
  <2>1. m \in Asks \cup Fixes /\ m.method = "shutdown"
    BY DEF Asks
  <2>2. Expects(m)
    BY <2>1, Asked
  <2> QED
    BY <1>2, <2>1, <2>2, RequestKeeps DEF Lsp!AskShutdown, Notices
<1>3. CASE Lsp!Leave
  <2>1. PICK method \in {"exit", "end of input"} : Lsp!Sends([method |-> method], 0)
    BY <1>3 DEF Lsp!Leave
  <2> DEFINE m == [method |-> method]
  <2>2. m \in Asks \cup Fixes /\ m.method = method
    BY DEF Asks
  <2>3. ~Expects(m)
    BY <2>2, Asked
  <2> QED
    BY <1>3, <2>1, <2>2, <2>3, RequestKeeps DEF Lsp!Leave, Notices
<1>4. ASSUME NEW u \in Uris, NEW t \in EditorTexts, Lsp!Edit(u, t) PROVE EditorInv'
  <2> DEFINE m == [method |-> "text", uri |-> u, text |-> t]
  <2>1. m \in Asks \cup Fixes /\ m.method = "text" /\ m.uri = u /\ m.text = t
    BY DEF Asks
  <2>2. Says(m) = t
    BY <2>1, Asked
  <2> QED
    BY <1>4, <2>1, <2>2, NoticeKeeps DEF Lsp!Edit, Notices, Held
<1>5. ASSUME NEW u \in Uris, Lsp!CloseDocument(u) PROVE EditorInv'
  <2> DEFINE m == [method |-> "close", uri |-> u]
  <2>1. m \in Asks \cup Fixes /\ m.method = "close" /\ m.uri = u
    BY DEF Asks
  <2>2. Says(m) = NoText
    BY <2>1, Asked
  <2> QED
    BY <1>5, <2>1, <2>2, NoticeKeeps DEF Lsp!CloseDocument, Notices, Held
<1>6. ASSUME NEW u \in Uris, Lsp!AskFixes(u) PROVE EditorInv'
  <2>1. PICK told \in {shown[u], NoText}, data \in BOOLEAN :
           Lsp!Sends([method |-> "codeAction", uri |-> u, given |-> told, data |-> data,
                      of |-> held[u], stale |-> told \notin {held[u], NoText}], 1)
    BY <1>6 DEF Lsp!AskFixes
  <2> DEFINE m == [method |-> "codeAction", uri |-> u, given |-> told, data |-> data,
                   of |-> held[u], stale |-> told \notin {held[u], NoText}]
  <2>2. held[u] \in Held /\ told \in Held
    BY DEF EditorInv, StreamsTyped, Held
  <2>3. m \in Asks \cup Fixes /\ m.method = "codeAction" /\ m.uri = u /\ m.of = held[u]
    BY <2>2 DEF Fixes
  <2>4. Expects(m)
    BY <2>3, Asked
  <2> QED
    BY <1>6, <2>1, <2>3, <2>4, RequestKeeps DEF Lsp!AskFixes, Notices
<1>7. ASSUME NEW u \in Uris, Lsp!AskHover(u) PROVE EditorInv'
  <2> DEFINE m == [method |-> "hover", uri |-> u, of |-> held[u]]
  <2>1. m \in Asks \cup Fixes /\ m.method = "hover" /\ m.uri = u /\ m.of = held[u]
    BY DEF Asks, EditorInv, StreamsTyped
  <2>2. Expects(m)
    BY <2>1, Asked
  <2> QED
    BY <1>7, <2>1, <2>2, RequestKeeps DEF Lsp!AskHover, Notices
<1> QED
  BY <1>1, <1>2, <1>3, <1>4, <1>5, <1>6, <1>7

(* The server takes a message m off its stream and sends r.                 *)
Handles(m, r) ==
    /\ m = Head(toServer)
    /\ IF m.method \in Notices THEN documents' = [documents EXCEPT ![m.uri] = Says(m)]
                               ELSE documents' = documents
    /\ r \in Told \cup Views /\ toEditor' = Append(toEditor, r)
    /\ Expects(m) <=> Expects(r)
    /\ r.kind = "publish" <=> m.method \in Notices
    /\ r.kind = "publish" => r.uri = m.uri /\ r.of = Says(m)
    /\ r.kind = "ready" => lspState' # "uninitialized"
    /\ \/ lspState' = lspState
       \/ m.method = "initialize" /\ lspState = "uninitialized" /\ lspState' = "initialized"
       \/ m.method = "shutdown" /\ lspState' = "shutdown"

(* What the server does with a message is owed to the text it then holds.   *)
LEMMA HeadFits ==
    ASSUME EditorInv, Lsp!Alive, toServer # <<>>, Head(toServer).method \in {"codeAction", "hover"}
    PROVE  documents[Head(toServer).uri] = Head(toServer).of
<1>1. Head(toServer) = toServer[1] /\ 1 \in 1..Len(toServer) /\ 1 - 1 = 0
  BY Streams, TailIs
<1>2. Tells(toServer, documents[toServer[1].uri], toServer[1].uri, 0, toServer[1].of)
  BY <1>1 DEF EditorInv, StreamsTell
<1> QED
  BY <1>1, <1>2, TellsNothing

(* No text or close comes to a server that is not in session.               *)
LEMMA NoticesInSession ==
    ASSUME EditorInv, toServer # <<>>, Head(toServer).method \in Notices
    PROVE  lspState # "uninitialized" /\ lspState # "shutdown"
<1>1. Head(toServer) = toServer[1] /\ 1 \in 1..Len(toServer)
  BY Streams, TailIs
<1> QED
  BY <1>1 DEF EditorInv, SessionHolds

LEMMA ShorterSession ==
    ASSUME EditorInv, toServer # <<>>, toServer' = Tail(toServer), UNCHANGED ready,
           \A i \in 1..Len(toEditor') : toEditor'[i].kind = "ready" =>
              lspState' # "uninitialized",
           \/ lspState' = lspState
           \/ Head(toServer).method = "initialize" /\ lspState' = "initialized"
           \/ Head(toServer).method = "shutdown" /\ lspState' = "shutdown"
           \/ lspState' \in {"exit 0", "exit 1"}
    PROVE  SessionHolds'
<1>1. /\ \A i \in 1..Len(toServer') :
            toServer'[i] = toServer[i + 1] /\ i + 1 \in 1..Len(toServer) /\ 1 < i + 1
      /\ Head(toServer) = toServer[1] /\ 1 \in 1..Len(toServer)
  BY Streams, TailIs
<1>2. /\ ready' = "ready" => lspState # "uninitialized"
      /\ (\E i \in 1..Len(toServer') : toServer'[i].method \in Notices) => lspState # "uninitialized"
  BY <1>1 DEF EditorInv, SessionHolds
<1>3. lspState # "uninitialized" => lspState' # "uninitialized"
  OBVIOUS
<1>4. (lspState' = "shutdown" \/ \E i \in 1..Len(toServer') : toServer'[i].method = "shutdown")
        => ready' = "leaving"
  BY <1>1 DEF EditorInv, SessionHolds
<1>5. ASSUME lspState' = "shutdown", NEW i \in 1..Len(toServer')
      PROVE  toServer'[i].method \notin Notices
  <2>1. lspState = "shutdown" \/ toServer[1].method = "shutdown"
    BY <1>1, <1>5
  <2>2. toServer'[i] = toServer[i + 1] /\ i + 1 \in 1..Len(toServer) /\ 1 < i + 1
    BY <1>1, <1>5
  <2> QED
    BY <1>1, <2>1, <2>2 DEF EditorInv, SessionHolds
<1>6. ASSUME NEW i \in 1..Len(toServer'), NEW j \in 1..Len(toServer'), i < j,
             toServer'[i].method = "shutdown"
      PROVE  toServer'[j].method \notin Notices
  <2>1. /\ toServer'[i] = toServer[i + 1] /\ i + 1 \in 1..Len(toServer)
        /\ toServer'[j] = toServer[j + 1] /\ j + 1 \in 1..Len(toServer)
    BY <1>1
  <2>2. i + 1 < j + 1
    BY <1>6, Streams, TailIs
  <2> QED
    BY <1>6, <2>1, <2>2 DEF EditorInv, SessionHolds
<1> QED
  BY <1>2, <1>3, <1>4, <1>5, <1>6 DEF SessionHolds

LEMMA ServerKeeps ==
    ASSUME EditorInv, Lsp!Alive, toServer # <<>>, toServer' = Tail(toServer),
           UNCHANGED <<held, shown, ready, misfits, lspOwed>>,
           NEW m, NEW r, Handles(m, r)
    PROVE  EditorInv'
<1>1. /\ toServer \in Seq(Asks \cup Fixes) /\ m \in Asks \cup Fixes
      /\ toEditor \in Seq(Told \cup Views) /\ r \in Told \cup Views
      /\ m = Head(toServer) /\ toEditor' = Append(toEditor, r)
  BY Streams, TailIs DEF Handles
<1>2. /\ m.method \in Notices => m.uri \in Uris /\ Says(m) \in Held
      /\ \A u : Announces(m, u) <=> m.method \in Notices /\ m.uri = u
  BY <1>1, Asked DEF Notices, Held
<1>3. /\ \A u : Announces(r, u) <=> m.method \in Notices /\ m.uri = u
      /\ m.method \in Notices => Says(r) = Says(m)
  BY <1>1, Answered DEF Handles
<1>4. /\ documents \in [Uris -> Held]
      /\ \A u \in Uris : documents'[u] = IF Announces(m, u) THEN Says(m) ELSE documents[u]
      /\ documents' \in [Uris -> Held]
  BY <1>2 DEF EditorInv, StreamsTyped, Handles
<1>5. StreamsTyped'
  <2>1. toServer' \in Seq(Asks \cup Fixes) /\ toEditor' \in Seq(Told \cup Views)
    BY <1>1
  <2>2. lspState' \in {"uninitialized", "initialized", "shutdown", "exit 0", "exit 1"}
    BY DEF Handles, EditorInv, StreamsTyped
  <2> QED
    BY <1>4, <2>1, <2>2 DEF EditorInv, StreamsTyped
<1>6. SessionHolds'
  <2>1. ASSUME NEW i \in 1..Len(toEditor'), toEditor'[i].kind = "ready"
        PROVE  lspState' # "uninitialized"
    <3>1. CASE i \in 1..Len(toEditor)
      <4>1. toEditor[i].kind = "ready"
        BY <1>1, <2>1, <3>1
      <4>2. lspState # "uninitialized"
        BY <3>1, <4>1 DEF EditorInv, SessionHolds
      <4> QED
        BY <4>2 DEF Handles
    <3>2. CASE i = Len(toEditor) + 1
      BY <1>1, <2>1, <3>2 DEF Handles
    <3> QED
      BY <1>1, <3>1, <3>2
  <2> QED
    BY <2>1, ShorterSession DEF Handles
<1>7. StreamsTell'
  <2> USE DEF EditorInv, StreamsTell
  <2>1. /\ Len(toServer') = Len(toServer) - 1 /\ Len(toServer) \in 1..Len(toServer)
        /\ \A i \in 1..Len(toServer') :
              /\ toServer'[i] = toServer[i + 1] /\ (i + 1) - 1 = i
              /\ i \in 1..Len(toServer) /\ i + 1 \in 1..Len(toServer)
        /\ Len(toEditor') = Len(toEditor) + 1 /\ Len(toEditor) \in Nat
    BY <1>1, TailIs
  <2>2. ASSUME NEW u \in Uris
        PROVE  Tells(toServer', documents'[u], u, Len(toServer'), held'[u])
    <3>1. Tells(toServer, documents[u], u, Len(toServer), held[u])
      OBVIOUS
    <3>2. /\ Announces(Head(toServer), u) => documents'[u] = Says(Head(toServer))
          /\ ~Announces(Head(toServer), u) => documents'[u] = documents[u]
      BY <1>1, <1>4
    <3>3. Tells(Tail(toServer), documents'[u], u, Len(toServer) - 1, held[u])
      BY <1>1, <2>1, <3>1, <3>2, TellsTail
    <3> QED
      BY <2>1, <3>3
  <2>3. ASSUME NEW i \in 1..Len(toServer'), toServer'[i].method \in {"codeAction", "hover"}
        PROVE  Tells(toServer', documents'[toServer'[i].uri], toServer'[i].uri, i - 1, toServer'[i].of)
    <3> DEFINE ask == toServer[i + 1]
    <3>1. /\ toServer'[i] = ask /\ i + 1 \in 1..Len(toServer) /\ i \in 1..Len(toServer)
          /\ (i + 1) - 1 = i /\ ask \in Asks \cup Fixes
      BY <1>1, <2>1
    <3>2. ask.method \in {"codeAction", "hover"} /\ ask.uri \in Uris
      BY <2>3, <3>1, Asked DEF Fixes
    <3>3. Tells(toServer, documents[ask.uri], ask.uri, i, ask.of)
      BY <3>1, <3>2
    <3> HIDE DEF ask
    <3>4. Tells(Tail(toServer), documents'[ask.uri], ask.uri, i - 1, ask.of)
      BY <1>1, <1>4, <3>1, <3>2, <3>3, TellsTail
    <3> QED
      BY <3>1, <3>4
  <2>4. ASSUME NEW u \in Uris PROVE Tells(toEditor', shown'[u], u, Len(toEditor'), documents'[u])
    <3>1. CASE Announces(m, u)
      <4>1. Announces(r, u) /\ documents'[u] = Says(r)
        BY <1>2, <1>3, <1>4, <3>1
      <4> QED
        BY <1>1, <2>1, <4>1, TellsAppend
    <3>2. CASE ~Announces(m, u)
      <4>1. ~Announces(r, u) /\ documents'[u] = documents[u]
        BY <1>2, <1>3, <1>4, <3>2
      <4> QED
        BY <1>1, <2>1, <4>1, TellsAppend
    <3> QED
      BY <3>1, <3>2
  <2>5. lspOwed' = Number(toServer') + Number(toEditor')
    <3>1. /\ Number(toServer) = Number(toServer') + (IF Expects(m) THEN 1 ELSE 0)
          /\ Number(toEditor') = Number(toEditor) + (IF Expects(r) THEN 1 ELSE 0)
      BY <1>1, NumberTail, NumberAppend
    <3>2. /\ Number(toServer) \in Nat /\ Number(toServer') \in Nat
          /\ Number(toEditor) \in Nat /\ Number(toEditor') \in Nat
      BY <1>5, NumberIsNat DEF StreamsTyped
    <3>3. Expects(m) <=> Expects(r)
      BY DEF Handles
    <3> QED
      BY <3>1, <3>2, <3>3
  <2> QED
    BY <2>2, <2>3, <2>4, <2>5
<1> QED
  BY <1>5, <1>6, <1>7 DEF EditorInv

LEMMA ServerStepKeeps ==
    ASSUME EditorInv,
           \/ Lsp!Refuse \/ Lsp!Initialize \/ Lsp!Ignore \/ Lsp!DidChange \/ Lsp!DidClose
           \/ Lsp!CodeAction \/ Lsp!Hover \/ Lsp!Shutdown \/ Lsp!Exit
    PROVE  EditorInv'
<1> DEFINE m == Head(toServer)
<1>1. /\ Lsp!Alive /\ toServer # <<>> /\ toServer' = Tail(toServer)
      /\ UNCHANGED <<held, shown, ready, misfits, lspOwed>>
  BY DEF Lsp!Refuse, Lsp!Initialize, Lsp!Ignore, Lsp!DidChange, Lsp!DidClose, Lsp!CodeAction,
         Lsp!Hover, Lsp!Shutdown, Lsp!Exit, Lsp!Reads, Lsp!editorVars
<1>2. m \in Asks \cup Fixes /\ documents \in [Uris -> Held]
  <2>1. documents \in [Uris -> Held]
    BY DEF EditorInv, StreamsTyped
  <2> QED
    BY <1>1, <2>1, Streams, TailIs
<1>3. [kind |-> "result"] \in Told /\ [kind |-> "error"] \in Told /\ [kind |-> "ready"] \in Told
  BY DEF Told
<1>4. CASE Lsp!Refuse
  <2> DEFINE r == [kind |-> "error"]
  <2>1. Expects(m) /\ m.method \notin Notices
    BY <1>2, <1>4, Asked DEF Lsp!Refuse, Lsp!Reads, Notices
  <2>2. Expects(r)
    BY <1>3, Answered
  <2>3. Handles(m, r)
    BY <1>3, <1>4, <2>1, <2>2 DEF Handles, Lsp!Refuse, Lsp!Writes, Lsp!Error, Lsp!serverVars
  <2> QED
    BY <1>1, <2>3, ServerKeeps
<1>5. CASE Lsp!Initialize
  <2> DEFINE r == [kind |-> "ready"]
  <2>1. Expects(m) /\ m.method = "initialize"
    BY <1>2, <1>5, Asked DEF Lsp!Initialize, Lsp!Reads
  <2>2. Expects(r)
    BY <1>3, Answered
  <2>3. Handles(m, r)
    BY <1>3, <1>5, <2>1, <2>2 DEF Handles, Lsp!Initialize, Lsp!Writes, Notices
  <2> QED
    BY <1>1, <2>3, ServerKeeps
<1>6. CASE Lsp!Ignore
  BY <1>1, <1>6, NoticesInSession DEF Lsp!Ignore, Lsp!Reads, Notices
<1>7. ASSUME NEW t \in Held, m.method \in Notices, Says(m) = t,
             documents' = [documents EXCEPT ![m.uri] = t], lspState' = lspState,
             toEditor' = Append(toEditor, [kind |-> "publish", uri |-> m.uri, of |-> t])
      PROVE  EditorInv'
  <2> DEFINE r == [kind |-> "publish", uri |-> m.uri, of |-> t]
  <2>1. m.uri \in Uris /\ ~Expects(m)
    BY <1>2, <1>7, Asked DEF Notices
  <2>2. r \in Told
    BY <2>1 DEF Told
  <2>3. ~Expects(r)
    BY <2>2, Answered
  <2>4. Handles(m, r)
    BY <1>7, <2>1, <2>2, <2>3 DEF Handles
  <2> QED
    BY <1>1, <2>4, ServerKeeps
<1>8. CASE Lsp!DidChange
  <2>1. m.method = "text" /\ Says(m) = m.text /\ m.text \in EditorTexts
    BY <1>2, <1>8, Asked DEF Lsp!DidChange, Lsp!Reads
  <2> QED
    BY <1>7, <1>8, <2>1 DEF Lsp!DidChange, Lsp!Publishes, Lsp!Writes, Notices, Held
<1>9. CASE Lsp!DidClose
  <2>1. m.method = "close" /\ Says(m) = NoText
    BY <1>2, <1>9, Asked DEF Lsp!DidClose, Lsp!Reads
  <2> QED
    BY <1>7, <1>9, <2>1 DEF Lsp!DidClose, Lsp!Publishes, Lsp!Writes, Notices, Held
<1>10. ASSUME Lsp!Writes(Lsp!Result), UNCHANGED Lsp!serverVars,
              m.method \in {"codeAction", "hover"}
       PROVE  EditorInv'
  <2> DEFINE r == [kind |-> "result"]
  <2>1. Expects(m) /\ m.method \notin Notices
    BY <1>2, <1>10, Asked DEF Notices
  <2>2. Expects(r)
    BY <1>3, Answered
  <2>3. Handles(m, r)
    BY <1>3, <1>10, <2>1, <2>2 DEF Handles, Lsp!Writes, Lsp!Result, Lsp!serverVars
  <2> QED
    BY <1>1, <2>3, ServerKeeps
<1>11. ASSUME NEW r \in Views, Lsp!Writes(r), UNCHANGED Lsp!serverVars,
              m.method \in {"codeAction", "hover"}
       PROVE  EditorInv'
  <2>1. Expects(m) /\ m.method \notin Notices
    BY <1>2, <1>11, Asked DEF Notices
  <2>2. Expects(r) /\ r.kind \in {"fix", "fact"}
    BY <1>11, Answered DEF Views
  <2>3. Handles(m, r)
    BY <1>11, <2>1, <2>2 DEF Handles, Lsp!Writes, Lsp!serverVars
  <2> QED
    BY <1>1, <2>3, ServerKeeps
<1>12. CASE Lsp!CodeAction
  <2> DEFINE to == Lsp!FixedText(m)
             r == [kind |-> "fix", uri |-> m.uri, to |-> to, of |-> m.of,
                   stale |-> m.stale /\ m.data]
  <2>1. /\ m.method = "codeAction" /\ UNCHANGED Lsp!serverVars
        /\ Lsp!Writes(Lsp!Result) \/ Lsp!Writes(r)
    BY <1>12, Zenon DEF Lsp!CodeAction, Lsp!Reads
  <2>2. m \in Fixes
    BY <1>2, <2>1, Asked
  <2>3. documents[m.uri] = m.of
    BY <1>1, <2>1, HeadFits
  <2>4. /\ m.uri \in Uris /\ m.of \in Held /\ m.given \in Held
        /\ m.stale \in BOOLEAN /\ m.data \in BOOLEAN /\ m.stale = (m.given \notin {m.of, NoText})
    BY <2>2 DEF Fixes
  <2>5. to \in Held /\ (to # m.of => m.stale /\ m.data)
    BY <2>3, <2>4 DEF Lsp!FixedText
  <2> DEFINE late == m.stale /\ m.data
  <2>6. late \in BOOLEAN
    OBVIOUS
  <2>7. to # m.of => late
    BY <2>5
  <2> HIDE DEF late, to
  <2>8. [kind |-> "fix", uri |-> m.uri, to |-> to, of |-> m.of, stale |-> late] \in Views
    BY <2>4, <2>5, <2>6, <2>7 DEF Views
  <2> USE DEF late
  <2>9. r \in Views
    BY <2>8
  <2> QED
    BY <1>10, <1>11, <2>1, <2>9
<1>13. CASE Lsp!Hover
  <2> DEFINE r == [kind |-> "fact", uri |-> m.uri, to |-> documents[m.uri], of |-> m.of,
                   stale |-> FALSE]
  <2>1. /\ m.method = "hover" /\ UNCHANGED Lsp!serverVars
        /\ Lsp!Writes(Lsp!Result) \/ Lsp!Writes(r)
    BY <1>13, Zenon DEF Lsp!Hover, Lsp!Reads
  <2>2. m.uri \in Uris /\ m.of \in Held /\ documents[m.uri] = m.of
    BY <1>1, <1>2, <2>1, Asked, HeadFits
  <2>3. r \in Views
    BY <2>2 DEF Views
  <2> QED
    BY <1>10, <1>11, <2>1, <2>3
<1>14. CASE Lsp!Shutdown
  <2> DEFINE r == [kind |-> "result"]
  <2>1. Expects(m) /\ m.method = "shutdown"
    BY <1>2, <1>14, Asked DEF Lsp!Shutdown, Lsp!Reads
  <2>2. Expects(r)
    BY <1>3, Answered
  <2>3. Handles(m, r)
    BY <1>3, <1>14, <2>1, <2>2 DEF Handles, Lsp!Shutdown, Lsp!Writes, Lsp!Result, Notices
  <2> QED
    BY <1>1, <2>3, ServerKeeps
<1>15. CASE Lsp!Exit
  <2>1. lspState' \in {"exit 0", "exit 1"} /\ UNCHANGED <<documents, toEditor>>
    BY <1>15 DEF Lsp!Exit
  <2>2. StreamsTyped'
    <3>1. toServer' \in Seq(Asks \cup Fixes)
      BY <1>1, Streams, TailIs
    <3> QED
      BY <1>1, <2>1, <3>1 DEF EditorInv, StreamsTyped
  <2>3. SessionHolds'
    <3>1. \A i \in 1..Len(toEditor') : toEditor'[i].kind = "ready" => lspState' # "uninitialized"
      BY <2>1
    <3> QED
      BY <1>1, <2>1, <3>1, ShorterSession
  <2>4. StreamsTell'
    BY <2>1 DEF StreamsTell, Lsp!Alive, Lsp!Exited
  <2> QED
    BY <2>2, <2>3, <2>4 DEF EditorInv
<1> QED
  BY <1>4, <1>5, <1>6, <1>8, <1>9, <1>12, <1>13, <1>14, <1>15

(* The editor takes what it is sent.                                        *)
LEMMA ReceiveKeeps ==
    ASSUME EditorInv, Lsp!Receive
    PROVE  EditorInv'
<1> DEFINE m == Head(toEditor)
<1>1. /\ toEditor # <<>> /\ toEditor' = Tail(toEditor)
      /\ UNCHANGED <<lspState, documents, toServer, held>>
  BY DEF Lsp!Receive, Lsp!serverVars
<1>2. /\ lspOwed' = IF m.kind = "publish" THEN lspOwed ELSE lspOwed - 1
      /\ shown' = IF m.kind = "publish" THEN [shown EXCEPT ![m.uri] = m.of] ELSE shown
      /\ ready' = IF m.kind = "ready" /\ ready = "asked" THEN "ready" ELSE ready
  BY DEF Lsp!Receive
<1>3. /\ toEditor \in Seq(Told \cup Views) /\ toServer \in Seq(Asks \cup Fixes)
      /\ m \in Told \cup Views /\ lspOwed \in Int
  BY <1>1, Streams, TailIs
<1>4. /\ m.kind = "publish" => m.uri \in Uris /\ m.of \in Held /\ Says(m) = m.of
      /\ Expects(m) <=> m.kind # "publish"
      /\ \A u : Announces(m, u) <=> m.kind = "publish" /\ m.uri = u
  BY <1>3, Answered
<1>5. /\ shown' \in [Uris -> Held]
      /\ \A u \in Uris : shown'[u] = IF Announces(m, u) THEN Says(m) ELSE shown[u]
  BY <1>2, <1>4 DEF EditorInv, StreamsTyped
<1>6. misfits' \subseteq {TRUE}
  <2>1. misfits \subseteq {TRUE}
    BY DEF EditorInv, StreamsTyped
  <2>2. misfits' = misfits \/ /\ m.kind \in {"fix", "fact"} /\ m.to # m.of
                              /\ misfits' = misfits \cup {m.stale}
    BY Zenon DEF Lsp!Receive
  <2>3. ASSUME m.kind \in {"fix", "fact"}, m.to # m.of PROVE m.stale = TRUE
    <3>1. m \in Views
      BY <1>3, <2>3, Answered
    <3>2. m.stale \in BOOLEAN /\ m.stale
      BY <2>3, <3>1 DEF Views
    <3> QED
      BY <3>2
  <2> QED
    BY <2>1, <2>2, <2>3
<1>7. StreamsTyped'
  <2>1. toEditor' \in Seq(Told \cup Views)
    BY <1>1, <1>3
  <2>2. lspOwed' \in Int
    BY <1>2, <1>3
  <2> QED
    BY <1>1, <1>5, <1>6, <2>1, <2>2 DEF EditorInv, StreamsTyped
<1>8. SessionHolds'
  <2>1. /\ \A i \in 1..Len(toEditor') :
              toEditor'[i] = toEditor[i + 1] /\ i + 1 \in 1..Len(toEditor)
        /\ m = toEditor[1] /\ 1 \in 1..Len(toEditor)
    BY <1>1, <1>3, TailIs
  <2>2. (\E i \in 1..Len(toEditor') : toEditor'[i].kind = "ready") => lspState # "uninitialized"
    BY <2>1 DEF EditorInv, SessionHolds
  <2>3. ready' = "ready" => lspState # "uninitialized"
    BY <1>2, <2>1 DEF EditorInv, SessionHolds
  <2>4. ready = "leaving" => ready' = "leaving"
    BY <1>2
  <2> QED
    BY <1>1, <2>2, <2>3, <2>4 DEF EditorInv, SessionHolds
<1>9. StreamsTell'
  <2> SUFFICES ASSUME Lsp!Alive PROVE StreamsTell'
    BY <1>1 DEF StreamsTell, Lsp!Alive
  <2> USE DEF EditorInv, StreamsTell
  <2>1. Len(toEditor') = Len(toEditor) - 1 /\ Len(toEditor) \in 1..Len(toEditor)
    BY <1>1, <1>3, TailIs
  <2>2. ASSUME NEW u \in Uris
        PROVE  Tells(toEditor', shown'[u], u, Len(toEditor'), documents'[u])
    <3>1. Tells(toEditor, shown[u], u, Len(toEditor), documents[u])
      OBVIOUS
    <3>2. /\ Announces(Head(toEditor), u) => shown'[u] = Says(Head(toEditor))
          /\ ~Announces(Head(toEditor), u) => shown'[u] = shown[u]
      BY <1>5
    <3>3. Tells(Tail(toEditor), shown'[u], u, Len(toEditor) - 1, documents[u])
      BY <1>1, <1>3, <2>1, <3>1, <3>2, TellsTail
    <3> QED
      BY <1>1, <2>1, <3>3
  <2>3. lspOwed' = Number(toServer) + Number(toEditor')
    <3>1. Number(toEditor) = Number(toEditor') + (IF Expects(m) THEN 1 ELSE 0)
      BY <1>1, <1>3, NumberTail
    <3>2. Number(toServer) \in Nat /\ Number(toEditor) \in Nat /\ Number(toEditor') \in Nat
      BY <1>3, <1>7, NumberIsNat DEF StreamsTyped
    <3>3. lspOwed = Number(toServer) + Number(toEditor)
      OBVIOUS
    <3> QED
      BY SMTT(60), <1>2, <1>4, <3>1, <3>2, <3>3
  <2> QED
    BY <1>1, <2>2, <2>3
<1> QED
  BY <1>7, <1>8, <1>9 DEF EditorInv

LEMMA EditorInvNext ==
    ASSUME EditorInv, [MCNext]_allVars
    PROVE  EditorInv'
<1>1. CASE EditorNext
  BY <1>1, EditorStepKeeps, ServerStepKeeps, ReceiveKeeps DEF EditorNext, Lsp!Next
<1>2. ASSUME UNCHANGED lspVars PROVE EditorInv'
  <2>1. UNCHANGED <<lspState, documents, toServer, toEditor, held, shown, ready, lspOwed, misfits>>
    BY <1>2 DEF lspVars
  <2>2. StreamsTyped'
    BY <2>1 DEF EditorInv, StreamsTyped
  <2>3. SessionHolds'
    BY <2>1 DEF EditorInv, SessionHolds
  <2>4. StreamsTell'
    BY <2>1 DEF EditorInv, StreamsTell, Lsp!Alive
  <2> QED
    BY <2>2, <2>3, <2>4 DEF EditorInv
<1> QED
  BY <1>1, <1>2 DEF MCNext, CompileNext, AgentsNext, LaunchNext, allVars

(* Once both streams of a session of `lnpl lsp` are empty, the editor shows   *)
(* for every document the diagnostics of the text it holds and waits for no  *)
(* answer; a quick fix or a hover that does not fit the text it was asked    *)
(* about was made of diagnostics the editor itself sent out of date (_publish,*)
(* _did_close, _code_action, _hover): for any documents, texts and number of *)
(* messages.                                                                 *)
THEOREM EditorIsInStep == MCSpec => []EditorAgrees
<1>1. MCInit => EditorInv
  BY EditorInvInit
<1>2. EditorInv /\ [MCNext]_allVars => EditorInv'
  BY EditorInvNext
<1>3. EditorInv => EditorAgrees
  BY QuietAgrees
<1> QED
  BY <1>1, <1>2, <1>3, PTL DEF MCSpec
-----------------------------------------------------------------------------
(* The text.                                                                *)

(* Sequences of sequences.                                                  *)
LEMMA FlattenIs ==
    ASSUME NEW T, NEW ss \in Seq(Seq(T))
    PROVE  \E f \in [Nat -> Seq(T)] :
              /\ f[0] = <<>> /\ FlattenSeq(ss) = f[Len(ss)]
              /\ \A i \in 1..Len(ss) : f[i] = f[i - 1] \o ss[i]
<1> DEFINE V == Seq(T)
           N == Len(ss)
           G == [x \in Nat \X V |-> IF x[1] + 1 <= N THEN x[2] \o ss[x[1] + 1] ELSE x[2]]
           Flattens(h) == h = [i \in 1..N |-> IF i = 1 THEN ss[i] ELSE h[i - 1] \o ss[i]]
<1>1. N \in Nat /\ \A i \in 1..N : ss[i] \in V
  BY ElementOfSeq
<1>2. <<>> \in V /\ \A n \in Nat : \A v \in V : G[<<n, v>>] \in V
  <2>1. ASSUME NEW n \in Nat, NEW v \in V PROVE G[<<n, v>>] \in V
    <3>1. n + 1 <= N => n + 1 \in 1..N
      OBVIOUS
    <3>2. n + 1 <= N => v \o ss[n + 1] \in V
      BY <1>1, <3>1, ConcatProperties
    <3>3. <<n, v>> \in Nat \X V
      OBVIOUS
    <3> QED BY <3>2, <3>3
  <2>2. <<>> \in V
    OBVIOUS
  <2> HIDE DEF V, G
  <2> QED BY <2>1, <2>2
<1>3. PICK f : f \in [Nat -> V] /\ Unfolds(f, <<>>, G)
  <2> HIDE DEF V, G
  <2> QED BY <1>2, Recursion
<1>4. f[0] = <<>> /\ \A i \in 1..N : f[i] = f[i - 1] \o ss[i] /\ f[i - 1] \in V
  <2> SUFFICES ASSUME NEW i \in 1..N PROVE f[i] = f[i - 1] \o ss[i] /\ f[i - 1] \in V
    BY <1>3 DEF Unfolds
  <2>1. i - 1 \in Nat /\ (i - 1) + 1 = i /\ i <= N
    BY <1>1
  <2>2. f[i] = G[<<i - 1, f[i - 1]>>] /\ <<i - 1, f[i - 1]>> \in Nat \X V
    BY <1>3, <2>1 DEF Unfolds
  <2> QED BY <2>1, <2>2
<1>5. CASE N = 0
  <2>1. FlattenSeq(ss) = ss /\ ss = <<>>
    BY <1>5, EmptySeq DEF FlattenSeq
  <2> QED BY <1>3, <1>4, <1>5, <2>1
<1>6. CASE N # 0
  <2>1. Flattens([i \in 1..N |-> f[i]])
    <3> DEFINE h == [i \in 1..N |-> f[i]]
    <3>1. ASSUME NEW i \in 1..N PROVE h[i] = IF i = 1 THEN ss[i] ELSE h[i - 1] \o ss[i]
      <4>1. CASE i = 1
        <5>1. 1 \in 1..N /\ 1 - 1 = 0
          BY <4>1
        <5>2. f[1] = <<>> \o ss[1] /\ ss[1] \in V
          BY <1>1, <1>4, <5>1
        <5> QED BY <4>1, <5>2, ConcatEmptySeq
      <4>2. CASE i # 1
        BY <1>1, <1>4, <4>2, i - 1 \in 1..N
      <4> QED BY <4>1, <4>2
    <3> QED BY <3>1
  <2> DEFINE g == CHOOSE h : Flattens(h)
  <2>2. Flattens(g)
    BY <2>1
  <2>3. FlattenSeq(ss) = g[N]
    BY <1>6 DEF FlattenSeq
  <2> HIDE DEF g
  <2>4. \A i \in 1..N : g[i] = IF i = 1 THEN ss[i] ELSE g[i - 1] \o ss[i]
    BY <2>2
  <2> DEFINE Same == {n \in Nat : n \in 1..N => g[n] = f[n]}
  <2>5. Nat \subseteq Same
    <3>1. 0 \in Same
      OBVIOUS
    <3>2. ASSUME NEW n \in Nat, n \in Same PROVE n + 1 \in Same
      <4> SUFFICES ASSUME n + 1 \in 1..N PROVE g[n + 1] = f[n + 1]
        OBVIOUS
      <4>1. CASE n = 0
        <5>1. 1 \in 1..N /\ 1 - 1 = 0 /\ n + 1 = 1
          BY <4>1
        <5>2. f[1] = <<>> \o ss[1] /\ ss[1] \in V
          BY <1>1, <1>4, <5>1
        <5>3. g[1] = ss[1]
          BY <2>4, <5>1
        <5> QED BY <5>1, <5>2, <5>3, ConcatEmptySeq
      <4>2. CASE n # 0
        <5>1. n \in 1..N /\ (n + 1) - 1 = n /\ n + 1 # 1
          BY <1>1, <4>2
        <5>2. g[n] = f[n]
          BY <3>2, <5>1
        <5>3. f[n + 1] = f[n] \o ss[n + 1]
          BY <1>4, <5>1
        <5>4. g[n + 1] = g[n] \o ss[n + 1]
          BY <2>4, <5>1
        <5> QED BY <5>2, <5>3, <5>4
      <4> QED BY <4>1, <4>2
    <3> HIDE DEF Same
    <3> QED BY <3>1, <3>2, Induction
  <2>6. g[N] = f[N]
    BY <1>1, <1>6, <2>5
  <2> QED BY <1>3, <1>4, <2>3, <2>6
<1> QED
  BY <1>5, <1>6

LEMMA FlattenAppend ==
    ASSUME NEW T, NEW ss \in Seq(Seq(T)), NEW last \in Seq(T)
    PROVE  /\ FlattenSeq(ss) \in Seq(T)
           /\ FlattenSeq(Append(ss, last)) = FlattenSeq(ss) \o last
<1> DEFINE longer == Append(ss, last)
           N == Len(ss)
<1>1. /\ longer \in Seq(Seq(T)) /\ N \in Nat /\ Len(longer) = N + 1 /\ longer[N + 1] = last
      /\ \A i \in 1..N : longer[i] = ss[i]
  BY AppendProperties
<1> HIDE DEF longer
<1>2. PICK f \in [Nat -> Seq(T)] :
         /\ f[0] = <<>> /\ FlattenSeq(ss) = f[N]
         /\ \A i \in 1..N : f[i] = f[i - 1] \o ss[i]
  BY FlattenIs
<1>3. PICK g \in [Nat -> Seq(T)] :
         /\ g[0] = <<>> /\ FlattenSeq(longer) = g[N + 1]
         /\ \A i \in 1..(N + 1) : g[i] = g[i - 1] \o longer[i]
  <2>1. \E g \in [Nat -> Seq(T)] :
           /\ g[0] = <<>> /\ FlattenSeq(longer) = g[Len(longer)]
           /\ \A i \in 1..Len(longer) : g[i] = g[i - 1] \o longer[i]
    BY <1>1, FlattenIs
  <2> QED BY <1>1, <2>1
<1> DEFINE Same == {n \in Nat : n <= N => g[n] = f[n]}
<1>4. Nat \subseteq Same
  <2>1. 0 \in Same
    BY <1>2, <1>3
  <2>2. ASSUME NEW n \in Nat, n \in Same PROVE n + 1 \in Same
    <3> SUFFICES ASSUME n + 1 <= N PROVE g[n + 1] = f[n + 1]
      OBVIOUS
    <3>1. n + 1 \in 1..N /\ n + 1 \in 1..(N + 1) /\ (n + 1) - 1 = n /\ n <= N
      BY <1>1
    <3> QED BY <1>1, <1>2, <1>3, <2>2, <3>1
  <2> HIDE DEF Same
  <2> QED BY <2>1, <2>2, Induction
<1>5. g[N] = f[N] /\ (N + 1) - 1 = N /\ N + 1 \in 1..(N + 1)
  <2>1. N \in Same
    <3> HIDE DEF Same
    <3> QED BY <1>1, <1>4
  <2>2. g[N] = f[N]
    BY <1>1, <2>1
  <2> QED BY <1>1, <2>2
<1>6. FlattenSeq(longer) = f[N] \o last
  BY <1>1, <1>3, <1>5
<1> QED
  BY <1>1, <1>2, <1>6 DEF longer

-----------------------------------------------------------------------------
(* Items and the lines that say them.                                       *)

Said(its) == FlattenSeq([i \in DOMAIN its |-> Unparsed(its[i])])

Words == {Rest(l) : l \in Lines}

Sayable == Lines \cup ({"step", "or"} \X Words)
                  \cup ({"parallel", "pipeline", "merge", "otherwise"} \X {""})

GuardLines == {l \in Lines : Keyword(l) \in Guards}

Items == [guard : {<<>>} \cup GuardLines, alternatives : Seq(Words),
          body : Branches, otherwise : Branches]

Ors(words) == [k \in DOMAIN words |-> <<"or", words[k]>>]

(* What a guard that is pending or an `otherwise` that is owed will say, and *)
(* what the open block will say when it is closed.                           *)
Owing(guard, words, otherwise) ==
    (IF guard = <<>> THEN <<>> ELSE <<guard>>) \o Ors(words)
    \o (IF otherwise THEN <<<<"otherwise", "">>>> ELSE <<>>)

Closing(block) == IF block = "parallel" THEN <<<<"merge", "">>>> ELSE <<>>

LEMMA LineFacts ==
    ASSUME NEW l \in Lines
    PROVE  /\ l = <<Keyword(l), Rest(l)>> /\ l \in Sayable /\ l # <<>>
           /\ Keyword(l) \in {"parallel", "pipeline", "merge", "otherwise"} => Rest(l) = ""
           /\ Rest(l) \in Words /\ AsStep(l) \in Sayable
<1>1. l = <<Keyword(l), Rest(l)>>
  BY TextAssumption DEF Lines, Keyword, Rest
<1>2. Keyword(l) \in {"parallel", "pipeline", "merge", "otherwise"} => Rest(l) = ""
  BY TextAssumption DEF Lines, Keyword, Rest
<1>3. l # <<>>
  BY <1>1
<1> QED
  BY <1>1, <1>2, <1>3 DEF Sayable, Words, AsStep

(* One line more in a sequence that is made of another's elements.           *)
LEMMA MapAppend ==
    ASSUME NEW A, NEW B, NEW F, \A a \in A : F[a] \in B, NEW s \in Seq(A), NEW a \in A
    PROVE  LET map(q) == [k \in DOMAIN q |-> F[q[k]]]
           IN  /\ map(s) \in Seq(B) /\ Len(map(s)) = Len(s)
               /\ map(<<>>) = <<>>
               /\ map(Append(s, a)) = Append(map(s), F[a])
<1> DEFINE map(q) == [k \in DOMAIN q |-> F[q[k]]]
<1>1. ASSUME NEW q \in Seq(A) PROVE map(q) \in Seq(B) /\ Len(map(q)) = Len(q) /\ DOMAIN map(q) = DOMAIN q
  <2>1. Len(q) \in Nat /\ DOMAIN q = 1..Len(q) /\ \A k \in 1..Len(q) : q[k] \in A
    BY LenProperties, ElementOfSeq
  <2>2. map(q) \in [1..Len(q) -> B]
    BY <2>1
  <2>3. map(q) \in Seq(B)
    BY <2>1, <2>2, SeqDef
  <2> QED BY <2>1, <2>2, <2>3, LenProperties
<1>2. /\ Append(s, a) \in Seq(A) /\ Len(Append(s, a)) = Len(s) + 1
      /\ \A i \in 1..Len(s) : Append(s, a)[i] = s[i]
      /\ Append(s, a)[Len(s) + 1] = a
  BY AppendProperties
<1>3. map(Append(s, a)) = Append(map(s), F[a])
  <2> DEFINE L == map(Append(s, a))
             R == Append(map(s), F[a])
  <2>1. L \in Seq(B) /\ Len(L) = Len(s) + 1
    BY <1>1, <1>2
  <2>2. /\ R \in Seq(B) /\ Len(R) = Len(s) + 1 /\ R[Len(s) + 1] = F[a]
        /\ \A i \in 1..Len(s) : R[i] = map(s)[i]
    <3> HIDE DEF map
    <3> QED BY <1>1, AppendProperties
  <2>3. Len(s) \in Nat /\ DOMAIN s = 1..Len(s) /\ DOMAIN Append(s, a) = 1..(Len(s) + 1)
    BY <1>2, LenProperties
  <2>4. \A i \in 1..(Len(s) + 1) : L[i] = F[Append(s, a)[i]]
    BY <2>3
  <2>5. \A i \in 1..Len(s) : R[i] = F[s[i]]
    BY <2>2, <2>3
  <2> HIDE DEF L, R
  <2>6. \A i \in 1..(Len(s) + 1) : L[i] = R[i]
    BY <1>2, <2>2, <2>3, <2>4, <2>5
  <2>7. L = R
    BY <2>1, <2>2, <2>6, SeqEqual
  <2> QED BY <2>7 DEF L, R
<1>4. map(<<>>) = <<>>
  OBVIOUS
<1> QED
  BY <1>1, <1>3, <1>4

(* Sequences of lines, joined.                                              *)
LEMMA Joins == \A a, b \in Seq(Sayable) : a \o b \in Seq(Sayable)
BY ConcatProperties

LEMMA Regroups == \A a, b, c \in Seq(Sayable) : (a \o b) \o c = a \o (b \o c)
BY ConcatAssociative

LEMMA NothingJoins ==
    <<>> \in Seq(Sayable) /\ \A a \in Seq(Sayable) : a \o <<>> = a /\ <<>> \o a = a
BY EmptySeq, ConcatEmptySeq

LEMMA OneLine ==
    /\ \A e \in Sayable : <<e>> \in Seq(Sayable)
    /\ <<"otherwise", "">> \in Sayable /\ <<"merge", "">> \in Sayable
<1>1. <<"otherwise", "">> \in Sayable /\ <<"merge", "">> \in Sayable
  BY DEF Sayable
<1>2. \A e \in Sayable : <<e>> \in Seq(Sayable)
  OBVIOUS
<1> QED
  BY <1>1, <1>2

LEMMA StepsAppend ==
    ASSUME NEW b \in Branches, NEW w \in Words
    PROVE  /\ Steps(b) \in Seq(Sayable)
           /\ Steps([b EXCEPT !.steps = Append(@, w)]) = Steps(b) \o <<<<"step", w>>>>
<1> DEFINE F == [x \in Words |-> <<"step", x>>]
<1>1. \A x \in Words : F[x] \in Sayable
  BY DEF Sayable
<1>2. b.steps \in Seq(Words)
  BY DEF Branches, Words
<1>3. /\ \A q \in Seq(Words) : [k \in DOMAIN q |-> F[q[k]]] = [k \in DOMAIN q |-> <<"step", q[k]>>]
  <2> SUFFICES ASSUME NEW q \in Seq(Words)
               PROVE [k \in DOMAIN q |-> F[q[k]]] = [k \in DOMAIN q |-> <<"step", q[k]>>]
    OBVIOUS
  <2>1. \A k \in DOMAIN q : q[k] \in Words
    BY LenProperties, ElementOfSeq
  <2> QED BY <2>1
<1>4. Append(b.steps, w) \in Seq(Words)
  BY <1>2, AppendProperties
<1>5. Steps(b) = [k \in DOMAIN b.steps |-> F[b.steps[k]]]
  BY <1>2, <1>3 DEF Steps
<1>6. [b EXCEPT !.steps = Append(@, w)].steps = Append(b.steps, w)
  BY DEF Branches
<1>7. Steps([b EXCEPT !.steps = Append(@, w)])
      = [k \in DOMAIN Append(b.steps, w) |-> F[Append(b.steps, w)[k]]]
  BY <1>3, <1>4, <1>6 DEF Steps
<1>8. Steps(b) \in Seq(Sayable)
  <2> HIDE DEF F
  <2> QED BY <1>1, <1>2, <1>5, MapAppend
<1>9. Steps([b EXCEPT !.steps = Append(@, w)]) = Append(Steps(b), F[w])
  <2> HIDE DEF F
  <2>1. [k \in DOMAIN Append(b.steps, w) |-> F[Append(b.steps, w)[k]]]
        = Append([k \in DOMAIN b.steps |-> F[b.steps[k]]], F[w])
    BY <1>1, <1>2, MapAppend
  <2> QED BY <1>5, <1>7, <2>1
<1>10. F[w] = <<"step", w>> /\ F[w] \in Sayable
  BY <1>1
<1> QED
  BY <1>8, <1>9, <1>10, AppendIsConcat
LEMMA OrsAppend ==
    ASSUME NEW q \in Seq(Words), NEW w \in Words
    PROVE  /\ Ors(q) \in Seq(Sayable) /\ Ors(<<>>) = <<>>
           /\ Ors(Append(q, w)) = Ors(q) \o <<<<"or", w>>>>
<1> DEFINE F == [x \in Words |-> <<"or", x>>]
<1>1. \A x \in Words : F[x] \in Sayable
  BY DEF Sayable
<1>2. ASSUME NEW r \in Seq(Words) PROVE Ors(r) = [k \in DOMAIN r |-> F[r[k]]]
  <2>1. \A k \in DOMAIN r : r[k] \in Words
    BY LenProperties, ElementOfSeq
  <2> QED BY <2>1 DEF Ors
<1>3. Append(q, w) \in Seq(Words)
  BY AppendProperties
<1>4. F[w] = <<"or", w>> /\ F[w] \in Sayable
  BY <1>1
<1> HIDE DEF F
<1>5. /\ [k \in DOMAIN q |-> F[q[k]]] \in Seq(Sayable)
      /\ [k \in DOMAIN Append(q, w) |-> F[Append(q, w)[k]]]
         = Append([k \in DOMAIN q |-> F[q[k]]], F[w])
  BY <1>1, MapAppend
<1>6. Ors(q) \in Seq(Sayable) /\ Ors(Append(q, w)) = Append(Ors(q), F[w])
  BY <1>2, <1>3, <1>5
<1>7. Ors(<<>>) = <<>>
  BY DEF Ors
<1> QED
  BY <1>4, <1>6, <1>7, AppendIsConcat

(* An item's lines: what its guard says, then its branches.                 *)
Beginning(item) ==
    (IF item.guard = <<>> THEN <<>> ELSE <<item.guard>>) \o Ors(item.alternatives)

(* A branch but for the line that closes it.                                *)
Begun(b) == IF b.block = "none" THEN Steps(b) ELSE <<<<b.block, "">>>> \o Steps(b)

LEMMA WrittenIs ==
    ASSUME NEW b \in Branches
    PROVE  /\ Begun(b) \in Seq(Sayable) /\ Closing(b.block) \in Seq(Sayable)
           /\ Written(b) \in Seq(Sayable) /\ Written(b) = Begun(b) \o Closing(b.block)
<1>1. b.block \in {"none", "parallel", "pipeline"} /\ b.steps \in Seq(Words)
  BY DEF Branches, Blocks, Words
<1>2. Steps(b) \in Seq(Sayable)
  <2>1. CASE Words = {}
    <3>1. Len(b.steps) = 0
      BY <1>1, <2>1, ElementOfSeq, LenProperties
    <3>2. DOMAIN b.steps = {}
      BY <1>1, <3>1, LenProperties
    <3>3. Steps(b) = <<>>
      BY <3>2 DEF Steps
    <3> QED BY <3>3, EmptySeq
  <2>2. CASE Words # {}
    BY <2>2, StepsAppend
  <2> QED BY <2>1, <2>2
<1>3. <<"merge", "">> \in Sayable /\ b.block # "none" => <<b.block, "">> \in Sayable
  BY <1>1 DEF Sayable
<1>4. /\ <<>> \in Seq(Sayable) /\ <<<<"merge", "">>>> \in Seq(Sayable)
      /\ b.block # "none" => <<<<b.block, "">>>> \in Seq(Sayable)
  BY <1>3, OneLine, NothingJoins
<1>5. Begun(b) \in Seq(Sayable) /\ Closing(b.block) \in Seq(Sayable)
  BY <1>2, <1>4, Joins, Regroups DEF Begun, Closing
<1>6. Written(b) = Begun(b) \o Closing(b.block)
  <2>1. CASE b.block = "none"
    BY <2>1, <1>2, Joins, Regroups DEF Written, Begun, Closing
  <2>2. CASE b.block # "none"
    BY <2>2 DEF Written, Begun, Closing
  <2> QED BY <2>1, <2>2
<1> QED
  BY <1>5, <1>6, Joins, Regroups

LEMMA UnparsedIs ==
    ASSUME NEW item \in Items
    PROVE  /\ Beginning(item) \in Seq(Sayable) /\ Unparsed(item) \in Seq(Sayable)
           /\ <<<<"otherwise", "">>>> \in Seq(Sayable)
           /\ item.otherwise = NoBranch =>
                 Unparsed(item) = Beginning(item) \o Written(item.body)
           /\ item.otherwise # NoBranch =>
                 Unparsed(item) = ((Beginning(item) \o Written(item.body)) \o <<<<"otherwise", "">>>>)
                                  \o Written(item.otherwise)
<1>1. /\ item.guard \in {<<>>} \cup GuardLines /\ item.alternatives \in Seq(Words)
      /\ item.body \in Branches /\ item.otherwise \in Branches
  BY DEF Items
<1>2. Ors(item.alternatives) \in Seq(Sayable)
  <2>1. CASE Words = {}
    <3>1. Len(item.alternatives) = 0
      BY <1>1, <2>1, ElementOfSeq, LenProperties
    <3>2. Ors(item.alternatives) = <<>>
      BY <1>1, <3>1, LenProperties DEF Ors
    <3> QED BY <3>2, EmptySeq
  <2>2. CASE Words # {}
    BY <1>1, <2>2, OrsAppend
  <2> QED BY <2>1, <2>2
<1>3. (IF item.guard = <<>> THEN <<>> ELSE <<item.guard>>) \in Seq(Sayable)
  <2>1. item.guard = <<>> \/ item.guard \in Sayable
    BY <1>1 DEF GuardLines, Sayable
  <2> QED BY <2>1, EmptySeq
<1>4. Beginning(item) \in Seq(Sayable)
  BY <1>2, <1>3, Joins, Regroups DEF Beginning
<1>5. Written(item.body) \in Seq(Sayable) /\ Written(item.otherwise) \in Seq(Sayable)
  BY <1>1, WrittenIs
<1>6. <<<<"otherwise", "">>>> \in Seq(Sayable)
  BY OneLine, NothingJoins
<1> DEFINE start == Beginning(item) \o Written(item.body)
<1>7. start \in Seq(Sayable)
  BY <1>4, <1>5, Joins, Regroups
<1>8. item.otherwise = NoBranch => Unparsed(item) = start
  <2>1. start \o <<>> = start
    BY <1>7, Joins, Regroups
  <2> QED BY <2>1 DEF Unparsed, Beginning, Ors
<1>9. ASSUME item.otherwise # NoBranch
      PROVE  Unparsed(item) = (start \o <<<<"otherwise", "">>>>) \o Written(item.otherwise)
  <2>1. Unparsed(item) = start \o (<<<<"otherwise", "">>>> \o Written(item.otherwise))
    BY <1>9 DEF Unparsed, Beginning, Ors
  <2> HIDE DEF start
  <2> QED BY <1>5, <1>6, <1>7, <2>1, Joins, Regroups
<1>10. Unparsed(item) \in Seq(Sayable)
  <2> HIDE DEF start
  <2>1. start \o <<<<"otherwise", "">>>> \in Seq(Sayable)
    BY <1>6, <1>7, Joins
  <2>2. (start \o <<<<"otherwise", "">>>>) \o Written(item.otherwise) \in Seq(Sayable)
    BY <1>5, <2>1, Joins
  <2> QED BY <1>7, <1>8, <1>9, <2>2
<1> QED
  BY <1>4, <1>6, <1>8, <1>9, <1>10

(* Items say what each says, one after the other.                           *)
LEMMA SaidAppend ==
    ASSUME NEW front \in Seq(Items), NEW item \in Items
    PROVE  /\ Said(front) \in Seq(Sayable) /\ Said(<<>>) = <<>>
           /\ Said(Append(front, item)) = Said(front) \o Unparsed(item)
<1> DEFINE F == [x \in Items |-> Unparsed(x)]
           map(q) == [k \in DOMAIN q |-> F[q[k]]]
<1>1. \A x \in Items : F[x] \in Seq(Sayable)
  BY UnparsedIs
<1>2. ASSUME NEW q \in Seq(Items) PROVE Said(q) = FlattenSeq(map(q))
  <2>1. \A k \in DOMAIN q : q[k] \in Items
    BY LenProperties, ElementOfSeq
  <2> QED BY <2>1 DEF Said
<1>3. Append(front, item) \in Seq(Items)
  BY AppendProperties
<1>4. F[item] = Unparsed(item)
  OBVIOUS
<1>5. Said(<<>>) = <<>>
  BY EmptySeq DEF Said, FlattenSeq
<1> HIDE DEF F
<1>6. map(front) \in Seq(Seq(Sayable)) /\ map(Append(front, item)) = Append(map(front), F[item])
  <2> DEFINE B == Seq(Sayable)
  <2>1. \A x \in Items : F[x] \in B
    BY <1>1
  <2> HIDE DEF B
  <2>2. map(front) \in Seq(B) /\ map(Append(front, item)) = Append(map(front), F[item])
    BY <2>1, MapAppend
  <2> HIDE DEF map
  <2> QED BY <2>2 DEF B
<1> HIDE DEF map
<1>7. /\ FlattenSeq(map(front)) \in Seq(Sayable)
      /\ FlattenSeq(Append(map(front), F[item])) = FlattenSeq(map(front)) \o F[item]
  BY <1>1, <1>6, FlattenAppend
<1> QED
  BY <1>2, <1>3, <1>4, <1>5, <1>6, <1>7
LEMMA SameGrows ==
    ASSUME NEW a \in Seq(Sayable), NEW b \in Seq(Lines), SameLines(a, b),
           NEW e \in Sayable, NEW l \in Lines,
           e = l \/ (Keyword(l) = "or" /\ e = AsStep(l))
    PROVE  SameLines(a \o <<e>>, Append(b, l))
<1>1. /\ Len(a) \in Nat /\ DOMAIN a = 1..Len(a) /\ Len(b) = Len(a)
      /\ <<e>> \in Seq(Sayable) /\ Len(<<e>>) = 1 /\ <<e>>[1] = e
  BY LenProperties DEF SameLines
<1>2. /\ a \o <<e>> \in Seq(Sayable) /\ Len(a \o <<e>>) = Len(a) + 1
      /\ \A i \in 1..Len(a) : (a \o <<e>>)[i] = a[i]
      /\ (a \o <<e>>)[Len(a) + 1] = e
  BY <1>1, ConcatProperties
<1>3. /\ Len(Append(b, l)) = Len(b) + 1 /\ Append(b, l)[Len(b) + 1] = l
      /\ \A i \in 1..Len(b) : Append(b, l)[i] = b[i]
  BY AppendProperties
<1>4. DOMAIN (a \o <<e>>) = 1..(Len(a) + 1)
  BY <1>2, LenProperties
<1> DEFINE u == a \o <<e>>
           v == Append(b, l)
<1> HIDE DEF u, v
<1>5. ASSUME NEW k \in 1..(Len(a) + 1)
      PROVE  u[k] = v[k] \/ (Keyword(v[k]) = "or" /\ u[k] = AsStep(v[k]))
  <2>1. CASE k = Len(a) + 1
    BY <1>1, <1>2, <1>3, <2>1 DEF u, v
  <2>2. CASE k # Len(a) + 1
    <3>1. k \in 1..Len(a) /\ u[k] = a[k] /\ v[k] = b[k]
      BY <1>1, <1>2, <1>3, <2>2 DEF u, v
    <3> QED BY <1>1, <3>1 DEF SameLines
  <2> QED BY <2>1, <2>2
<1>6. Len(u) = Len(v) /\ DOMAIN u = 1..(Len(a) + 1)
  BY <1>1, <1>2, <1>3, <1>4 DEF u, v
<1> QED
  BY <1>5, <1>6 DEF SameLines, u, v

-----------------------------------------------------------------------------
(* What the parser keeps of the text: the items, without the line that       *)
(* closes the open block and with what is still owed, say the lines read.    *)
Final(its) == its[Len(its)]

TextTyped ==
    /\ items \in Seq(Items) /\ text \in Seq(Lines) /\ alphabet \subseteq Lines
    /\ pending \in {<<>>} \cup GuardLines /\ alternatives \in Seq(Words)
    /\ open \in {"none"} \cup Blocks /\ owed \in BOOLEAN

(* Of the block, the guard and the `otherwise` that wait for lines at most  *)
(* one does; the last item knows whether it has its `otherwise`.            *)
OneWaits ==
    /\ pending = <<>> => alternatives = <<>>
    /\ pending # <<>> => open = "none" /\ ~owed
    /\ owed => open = "none" /\ slot = "free"
    /\ slot # "none" => items # <<>>
    /\ open # "none" => items # <<>>
    /\ items # <<>> =>
          LET last == Final(items)
          IN  /\ (slot = "filled") <=> (last.otherwise # NoBranch)
              /\ open # "none" => (IF slot = "filled" THEN last.otherwise ELSE last.body).block = open

Kept ==
    \E x \in Seq(Sayable) :
        Said(items) = x \o Closing(open) /\ SameLines(x \o Owing(pending, alternatives, owed), text)

TextInv ==
    /\ phase = "reading" => TextTyped /\ OneWaits /\ Kept
    /\ phase = "parsed" => TextTyped /\ OneWaits /\ Kept /\ ~EndsOpen

LEMMA OwingIs ==
    ASSUME NEW guard \in {<<>>} \cup GuardLines, NEW words \in Seq(Words), NEW otherwise \in BOOLEAN,
           guard = <<>> => words = <<>>, guard # <<>> => ~otherwise
    PROVE  /\ Owing(guard, words, otherwise) \in Seq(Sayable)
           /\ guard = <<>> /\ ~otherwise => Owing(guard, words, otherwise) = <<>>
           /\ otherwise => Owing(guard, words, otherwise) = <<<<"otherwise", "">>>>
           /\ guard # <<>> => Owing(guard, words, otherwise) = <<guard>> \o Ors(words)
<1>1. Ors(words) \in Seq(Sayable) /\ (words = <<>> => Ors(words) = <<>>)
  <2>1. CASE Words = {}
    <3>1. Len(words) = 0
      BY <2>1, ElementOfSeq, LenProperties
    <3>2. Ors(words) = <<>>
      BY <3>1, LenProperties DEF Ors
    <3> QED BY <3>2, EmptySeq
  <2>2. CASE Words # {}
    BY <2>2, OrsAppend
  <2> QED BY <2>1, <2>2
<1>2. (IF guard = <<>> THEN <<>> ELSE <<guard>>) \in Seq(Sayable)
  <2>1. guard = <<>> \/ guard \in Sayable
    BY DEF GuardLines, Sayable
  <2> QED BY <2>1, EmptySeq
<1>3. <<<<"otherwise", "">>>> \in Seq(Sayable) /\ <<>> \in Seq(Sayable)
  BY OneLine, NothingJoins
<1> DEFINE p == IF guard = <<>> THEN <<>> ELSE <<guard>>
           o == IF otherwise THEN <<<<"otherwise", "">>>> ELSE <<>>
<1>4. p \in Seq(Sayable) /\ o \in Seq(Sayable) /\ Owing(guard, words, otherwise) = (p \o Ors(words)) \o o
  BY <1>2, <1>3 DEF Owing
<1>5. Owing(guard, words, otherwise) \in Seq(Sayable)
  <2> HIDE DEF p, o
  <2> QED BY <1>1, <1>4, Joins, Regroups
<1>6. guard = <<>> => p \o Ors(words) = <<>>
  BY <1>1, NothingJoins
<1>7. guard = <<>> => Owing(guard, words, otherwise) = o
  <2> HIDE DEF p, o
  <2>1. o \in Seq(Sayable)
    BY <1>4
  <2> QED BY <1>4, <1>6, <2>1, Joins, Regroups
<1>8. guard # <<>> => Owing(guard, words, otherwise) = <<guard>> \o Ors(words)
  <2>1. guard # <<>> => o = <<>> /\ p = <<guard>>
    OBVIOUS
  <2>2. p \o Ors(words) \in Seq(Sayable)
    <3> HIDE DEF p, o
    <3> QED BY <1>1, <1>4, Joins, Regroups
  <2>3. (p \o Ors(words)) \o <<>> = p \o Ors(words)
    <3> HIDE DEF p, o
    <3> QED BY <2>2, Joins, Regroups
  <2> HIDE DEF p, o
  <2> QED BY <1>4, <2>1, <2>3
<1>9. guard = <<>> /\ ~otherwise => Owing(guard, words, otherwise) = <<>>
  BY <1>7
<1>10. otherwise => guard = <<>>
  OBVIOUS
<1>11. otherwise => Owing(guard, words, otherwise) = <<<<"otherwise", "">>>>
  BY <1>7, <1>10
<1> QED
  BY <1>5, <1>8, <1>9, <1>11

LEMMA TextInvInit == TextInit => TextInv
<1> SUFFICES ASSUME TextInit PROVE TextTyped /\ OneWaits /\ Kept
  BY DEF TextInit, TextInv
<1>1. TextTyped
  <2>1. <<>> \in Seq(Items) /\ <<>> \in Seq(Lines) /\ <<>> \in Seq(Words)
    BY EmptySeq
  <2>2. alphabet \subseteq Lines
    BY DEF TextInit, Lines
  <2> QED BY <2>1, <2>2 DEF TextInit, TextTyped
<1>2. OneWaits
  BY DEF TextInit, OneWaits
<1>3. Kept
  <2>1. /\ Owing(pending, alternatives, owed) = <<>> /\ Closing(open) = <<>>
        /\ <<>> \in Seq(Sayable)
    BY <1>1, <1>2, OwingIs DEF TextInit, TextTyped, OneWaits, Closing
  <2>2. Said(items) = <<>>
    BY EmptySeq DEF Said, FlattenSeq, TextInit
  <2>3. <<>> \o <<>> = <<>>
    BY <2>1, Joins, Regroups
  <2>4. SameLines(<<>>, text)
    BY DEF SameLines, TextInit
  <2> QED BY <2>1, <2>2, <2>3, <2>4 DEF Kept
<1> QED
  BY <1>1, <1>2, <1>3
LEMMA FinalItem ==
    ASSUME NEW its \in Seq(Items), its # <<>>, NEW item \in Items
    PROVE  /\ Final(its) \in Items
           /\ \E front \in Seq(Items) :
                 its = Append(front, Final(its)) /\ [its EXCEPT ![Len(its)] = item] = Append(front, item)
           /\ [its EXCEPT ![Len(its)] = item] \in Seq(Items)
           /\ [its EXCEPT ![Len(its)] = item] # <<>>
           /\ Final([its EXCEPT ![Len(its)] = item]) = item
<1>1. PICK front \in Seq(Items), last \in Items : its = Append(front, last)
  BY SequenceEmptyOrAppend
<1>2. /\ Len(front) \in Nat /\ Len(its) = Len(front) + 1 /\ its[Len(front) + 1] = last
      /\ \A i \in 1..Len(front) : its[i] = front[i]
  BY <1>1, AppendProperties, LenProperties
<1>3. Final(its) = last
  BY <1>2 DEF Final
<1> DEFINE changed == [its EXCEPT ![Len(its)] = item]
           other == Append(front, item)
<1>4. /\ changed \in Seq(Items) /\ Len(changed) = Len(its)
      /\ \A i \in 1..Len(its) : changed[i] = IF i = Len(its) THEN item ELSE its[i]
  BY <1>2, ExceptSeq
<1>5. /\ other \in Seq(Items) /\ Len(other) = Len(front) + 1 /\ other[Len(front) + 1] = item
      /\ \A i \in 1..Len(front) : other[i] = front[i]
  BY AppendProperties
<1> HIDE DEF changed, other
<1>6. \A i \in 1..Len(changed) : changed[i] = other[i]
  BY <1>2, <1>4, <1>5
<1>7. changed = other
  BY <1>2, <1>4, <1>5, <1>6, SeqEqual
<1>8. Final(changed) = item /\ changed # <<>>
  BY <1>2, <1>4, EmptySeq DEF Final
<1> QED
  BY <1>1, <1>3, <1>4, <1>7, <1>8 DEF changed, other

(* _attach adds the lines of the item, after those that were owed.           *)
LEMMA AttachSays ==
    ASSUME TextTyped, OneWaits, NEW b \in Branches, b # NoBranch, Attach(b)
    PROVE  /\ items' \in Seq(Items) /\ items' # <<>>
           /\ Said(items') = (Said(items) \o Owing(pending, alternatives, owed)) \o Written(b)
           /\ pending' = <<>> /\ alternatives' = <<>> /\ owed' = FALSE
           /\ (slot' = "filled") <=> (Final(items').otherwise # NoBranch)
           /\ b = IF slot' = "filled" THEN Final(items').otherwise ELSE Final(items').body
<1>1. /\ Said(items) \in Seq(Sayable) /\ Written(b) \in Seq(Sayable)
      /\ Owing(pending, alternatives, owed) \in Seq(Sayable)
      /\ NoBranch \in Branches
  <2>1. NoBranch \in Branches
    BY EmptySeq DEF NoBranch, Branches
  <2>2. [guard |-> <<>>, alternatives |-> <<>>, body |-> b, otherwise |-> b] \in Items
    BY EmptySeq DEF Items
  <2> QED BY <2>1, <2>2, SaidAppend, WrittenIs, OwingIs DEF TextTyped, OneWaits
<1>2. CASE owed
  <2> DEFINE last == Final(items)
             item == [last EXCEPT !.otherwise = b]
  <2>1. items # <<>> /\ last.otherwise = NoBranch /\ slot = "free" /\ pending = <<>>
        /\ alternatives = <<>>
    BY <1>2 DEF OneWaits
  <2>2. last \in Items
    <3>1. last \in Items
      <4>1. items \in Seq(Items)
        BY DEF TextTyped
      <4>2. Len(items) \in 1..Len(items)
        BY <2>1, <4>1, EmptySeq
      <4> QED BY <4>1, <4>2, ElementOfSeq DEF Final
    <3> QED BY <3>1
  <2>3. /\ item \in Items /\ item.otherwise = b /\ item.body = last.body
        /\ item.guard = last.guard /\ item.alternatives = last.alternatives
    BY <2>2 DEF Items
  <2>4. /\ items' = [items EXCEPT ![Len(items)] = item]
        /\ owed' = FALSE /\ slot' = "filled" /\ UNCHANGED <<pending, alternatives>>
    BY <1>2 DEF Attach, Final
  <2> HIDE DEF last, item
  <2>5. PICK front \in Seq(Items) : items = Append(front, last) /\ items' = Append(front, item)
    BY <2>1, <2>3, <2>4, FinalItem DEF TextTyped, last
  <2>6. items' \in Seq(Items) /\ items' # <<>> /\ Final(items') = item
    BY <2>1, <2>3, <2>4, FinalItem DEF TextTyped
  <2>7. /\ Said(items) = Said(front) \o Unparsed(last) /\ Said(items') = Said(front) \o Unparsed(item)
        /\ Said(front) \in Seq(Sayable)
    BY <2>2, <2>3, <2>5, SaidAppend
  <2>8. /\ Unparsed(last) \in Seq(Sayable) /\ <<<<"otherwise", "">>>> \in Seq(Sayable)
        /\ Unparsed(item) = (Unparsed(last) \o <<<<"otherwise", "">>>>) \o Written(b)
    BY <2>1, <2>2, <2>3, UnparsedIs DEF Beginning
  <2>9. Owing(pending, alternatives, owed) = <<<<"otherwise", "">>>>
    BY <1>2, <2>1, OwingIs DEF TextTyped, OneWaits
  <2>10. Said(items') = ((Said(front) \o Unparsed(last)) \o <<<<"otherwise", "">>>>) \o Written(b)
    <3> DEFINE o == <<<<"otherwise", "">>>>
    <3>1. o \in Seq(Sayable)
      BY <2>8
    <3>2. Unparsed(item) = (Unparsed(last) \o o) \o Written(b)
      BY <2>8
    <3> HIDE DEF o
    <3>3. Unparsed(last) \o o \in Seq(Sayable)
      BY <2>8, <3>1, Joins
    <3>4. Said(items') = (Said(front) \o (Unparsed(last) \o o)) \o Written(b)
      <4>1. Said(front) \o ((Unparsed(last) \o o) \o Written(b))
            = (Said(front) \o (Unparsed(last) \o o)) \o Written(b)
        BY <1>1, <2>7, <3>3, Regroups
      <4> QED BY <2>7, <3>2, <4>1
    <3>5. Said(front) \o (Unparsed(last) \o o) = (Said(front) \o Unparsed(last)) \o o
      BY <2>7, <2>8, <3>1, Joins, Regroups
    <3> QED BY <3>4, <3>5 DEF o
  <2> QED BY <2>1, <2>3, <2>4, <2>6, <2>7, <2>9, <2>10
<1>3. CASE ~owed
  <2> DEFINE item == [guard |-> pending, alternatives |-> alternatives,
                      body |-> b, otherwise |-> NoBranch]
  <2>1. item \in Items /\ item.otherwise = NoBranch /\ item.body = b
    BY <1>1 DEF Items, TextTyped
  <2>2. /\ items' = Append(items, item) /\ pending' = <<>> /\ alternatives' = <<>> /\ owed' = FALSE
        /\ slot' \in {"none", "free", "refused"}
    BY <1>3 DEF Attach
  <2>3. Beginning(item) = Owing(pending, alternatives, owed)
    <3>1. Beginning(item) = (IF pending = <<>> THEN <<>> ELSE <<pending>>) \o Ors(alternatives)
      BY DEF Beginning
    <3>2. Beginning(item) \in Seq(Sayable)
      BY <2>1, UnparsedIs
    <3>3. Owing(pending, alternatives, owed)
          = ((IF pending = <<>> THEN <<>> ELSE <<pending>>) \o Ors(alternatives)) \o <<>>
      BY <1>3 DEF Owing
    <3> QED BY <3>1, <3>2, <3>3, Joins, Regroups
  <2> HIDE DEF item
  <2>4. Said(items') = Said(items) \o (Owing(pending, alternatives, owed) \o Written(b))
    BY <2>1, <2>2, <2>3, SaidAppend, UnparsedIs DEF TextTyped
  <2>5. Said(items') = (Said(items) \o Owing(pending, alternatives, owed)) \o Written(b)
    BY <1>1, <2>4, Joins, Regroups
  <2>6. items' \in Seq(Items) /\ items' # <<>> /\ Final(items') = item
    <3>1. items \in Seq(Items)
      BY DEF TextTyped
    <3> QED BY <2>1, <2>2, <3>1, AppendProperties DEF Final
  <2> QED BY <2>1, <2>2, <2>5, <2>6
<1> QED
  BY <1>2, <1>3
(* A step in an open block is said before the line that closes the block.    *)
LEMMA BranchGrows ==
    ASSUME NEW b \in Branches, b.block # "none", NEW w \in Words, NEW pre \in Seq(Sayable)
    PROVE  LET grown == [b EXCEPT !.steps = Append(@, w)]
           IN  /\ grown \in Branches /\ grown.block = b.block
               /\ \E x \in Seq(Sayable) :
                     /\ pre \o Written(b) = x \o Closing(b.block)
                     /\ pre \o Written(grown) = (x \o <<<<"step", w>>>>) \o Closing(b.block)
<1> DEFINE grown == [b EXCEPT !.steps = Append(@, w)]
           x == pre \o Begun(b)
           s == <<<<"step", w>>>>
           o == <<<<b.block, "">>>>
<1>1. grown \in Branches /\ grown.block = b.block
  <2>1. Append(b.steps, w) \in Seq(Words)
    BY AppendProperties DEF Branches, Words
  <2> QED BY <2>1 DEF Branches, Words
<1>2. s \in Seq(Sayable)
  <2>1. <<"step", w>> \in Sayable
    BY DEF Sayable
  <2> QED BY <2>1, OneLine
<1>3. Steps(b) \in Seq(Sayable) /\ Steps(grown) = Steps(b) \o s
  BY StepsAppend
<1>4. o \in Seq(Sayable)
  <2>1. b.block \in {"parallel", "pipeline"}
    BY DEF Branches, Blocks
  <2>2. <<b.block, "">> \in Sayable
    BY <2>1 DEF Sayable
  <2> QED BY <2>2, OneLine
<1>5. Begun(b) = o \o Steps(b) /\ Begun(grown) = o \o Steps(grown)
  BY <1>1 DEF Begun
<1> HIDE DEF s, o, grown
<1>6. Begun(grown) = Begun(b) \o s
  <2>1. (o \o Steps(b)) \o s = o \o (Steps(b) \o s)
    BY <1>2, <1>3, <1>4, Regroups
  <2> QED BY <1>3, <1>5, <2>1
<1>7. /\ Begun(b) \in Seq(Sayable) /\ Closing(b.block) \in Seq(Sayable)
      /\ Written(b) = Begun(b) \o Closing(b.block)
      /\ Written(grown) = Begun(grown) \o Closing(b.block) /\ Begun(grown) \in Seq(Sayable)
  BY <1>1, WrittenIs
<1>8. x \in Seq(Sayable) /\ pre \o Written(b) = x \o Closing(b.block)
  <2>1. x \in Seq(Sayable)
    BY <1>7, Joins
  <2>2. pre \o (Begun(b) \o Closing(b.block)) = (pre \o Begun(b)) \o Closing(b.block)
    BY <1>7, Regroups
  <2> QED BY <1>7, <2>1, <2>2
<1>9. pre \o Written(grown) = (pre \o Begun(grown)) \o Closing(b.block)
  BY SMTT(60), <1>7, Joins, Regroups
<1>10. pre \o Begun(grown) = x \o s
  BY SMTT(60), <1>2, <1>6, <1>7, Joins, Regroups
<1> QED
  BY <1>1, <1>8, <1>9, <1>10 DEF s, grown

LEMMA IntoSays ==
    ASSUME TextTyped, OneWaits, open # "none", NEW w \in Words, IntoOpenBlock(w)
    PROVE  /\ items' \in Seq(Items) /\ items' # <<>>
           /\ (slot = "filled") <=> (Final(items').otherwise # NoBranch)
           /\ (IF slot = "filled" THEN Final(items').otherwise ELSE Final(items').body).block = open
           /\ \E x \in Seq(Sayable) :
                 /\ Said(items) = x \o Closing(open)
                 /\ Said(items') = (x \o <<<<"step", w>>>>) \o Closing(open)
<1> DEFINE last == Final(items)
<1>1. items # <<>> /\ items \in Seq(Items)
  BY DEF OneWaits, TextTyped
<1>2. last \in Items
  <2>1. Len(items) \in 1..Len(items)
    BY <1>1, EmptySeq
  <2> QED BY <1>1, <2>1, ElementOfSeq DEF Final
<1>3. last.body \in Branches /\ last.otherwise \in Branches
  BY <1>2 DEF Items
<1>4. PICK item \in Items, pre \in Seq(Sayable), b \in Branches :
         LET grown == [b EXCEPT !.steps = Append(@, w)]
         IN  /\ b.block = open /\ items' = [items EXCEPT ![Len(items)] = item]
             /\ (slot = "filled") <=> (item.otherwise # NoBranch)
             /\ grown = IF slot = "filled" THEN item.otherwise ELSE item.body
             /\ Unparsed(last) = pre \o Written(b)
             /\ Unparsed(item) = pre \o Written(grown)
  <2>1. CASE slot = "filled"
    <3> DEFINE b == last.otherwise
               grown == [b EXCEPT !.steps = Append(@, w)]
               item == [last EXCEPT !.otherwise = grown]
               pre == (Beginning(last) \o Written(last.body)) \o <<<<"otherwise", "">>>>
    <3>1. b.block = open /\ b # NoBranch /\ b \in Branches
      BY <1>1, <1>3, <2>1 DEF OneWaits
    <3>2. grown \in Branches /\ grown.block = open
      <4>1. \E y \in Seq(Sayable) : TRUE
        BY EmptySeq
      <4> QED BY <3>1, <4>1, BranchGrows
    <3>3. /\ item \in Items /\ item.otherwise = grown /\ item.body = last.body
          /\ item.guard = last.guard /\ item.alternatives = last.alternatives
      <4> HIDE DEF grown
      <4> QED BY <1>2, <3>2 DEF Items
    <3>4. items' = [items EXCEPT ![Len(items)] = item]
      BY <1>1, <1>2, <2>1 DEF IntoOpenBlock, Final, Items
    <3>5. grown # NoBranch
      BY <3>2 DEF NoBranch
    <3> HIDE DEF item, grown
    <3>6. /\ Beginning(last) \in Seq(Sayable) /\ Written(last.body) \in Seq(Sayable)
          /\ <<<<"otherwise", "">>>> \in Seq(Sayable) /\ Unparsed(last) = pre \o Written(b)
      BY <1>2, <1>3, <3>1, UnparsedIs, WrittenIs
    <3>7. pre \in Seq(Sayable)
      <4> DEFINE o == <<<<"otherwise", "">>>>
      <4>1. o \in Seq(Sayable)
        BY <3>6
      <4> HIDE DEF o
      <4>2. (Beginning(last) \o Written(last.body)) \o o \in Seq(Sayable)
        BY <3>6, <4>1, Joins, Regroups
      <4> QED BY <4>2 DEF o
    <3>8. Unparsed(item) = pre \o Written(grown)
      BY <3>3, <3>5, UnparsedIs DEF Beginning
    <3> HIDE DEF pre
    <3> QED BY <2>1, <3>1, <3>3, <3>4, <3>5, <3>6, <3>7, <3>8 DEF grown
  <2>2. CASE slot # "filled"
    <3> DEFINE b == last.body
               grown == [b EXCEPT !.steps = Append(@, w)]
               item == [last EXCEPT !.body = grown]
               pre == Beginning(last)
    <3>1. b.block = open /\ b \in Branches /\ last.otherwise = NoBranch
      BY <1>1, <1>3, <2>2 DEF OneWaits
    <3>2. grown \in Branches
      <4>1. \E y \in Seq(Sayable) : TRUE
        BY EmptySeq
      <4> QED BY <3>1, <4>1, BranchGrows
    <3>3. /\ item \in Items /\ item.otherwise = NoBranch /\ item.body = grown
          /\ item.guard = last.guard /\ item.alternatives = last.alternatives
      <4> HIDE DEF grown
      <4> QED BY <1>2, <3>1, <3>2 DEF Items
    <3>4. items' = [items EXCEPT ![Len(items)] = item]
      BY <1>1, <1>2, <2>2 DEF IntoOpenBlock, Final, Items
    <3> HIDE DEF item, grown
    <3>5. pre \in Seq(Sayable) /\ Unparsed(last) = pre \o Written(b)
      BY <1>2, <3>1, UnparsedIs
    <3>6. Unparsed(item) = pre \o Written(grown)
      BY <3>3, UnparsedIs DEF Beginning
    <3> HIDE DEF pre
    <3> QED BY <2>2, <3>1, <3>3, <3>4, <3>5, <3>6 DEF grown
  <2> QED BY <2>1, <2>2
<1> DEFINE grown == [b EXCEPT !.steps = Append(@, w)]
<1>5. PICK front \in Seq(Items) :
         items = Append(front, last) /\ items' = Append(front, item)
  <2>1. items' = [items EXCEPT ![Len(items)] = item]
    BY <1>4
  <2> HIDE DEF last
  <2>2. \E front \in Seq(Items) :
           items = Append(front, Final(items)) /\ [items EXCEPT ![Len(items)] = item] = Append(front, item)
    BY <1>1, FinalItem
  <2> QED BY <2>1, <2>2 DEF last
<1>6. items' \in Seq(Items) /\ items' # <<>> /\ Final(items') = item
  BY <1>1, <1>4, FinalItem
<1>7. /\ Said(front) \in Seq(Sayable) /\ Said(items) = Said(front) \o Unparsed(last)
      /\ Said(items') = Said(front) \o Unparsed(item)
  BY <1>2, <1>5, SaidAppend
<1>8. grown \in Branches /\ grown.block = open
  BY <1>4, BranchGrows
<1>9. Written(b) \in Seq(Sayable) /\ Written(grown) \in Seq(Sayable)
  <2> HIDE DEF grown
  <2> QED BY <1>8, WrittenIs
<1>10. /\ Said(items) = (Said(front) \o pre) \o Written(b)
       /\ Said(items') = (Said(front) \o pre) \o Written(grown)
       /\ Said(front) \o pre \in Seq(Sayable)
  <2>1. Unparsed(last) = pre \o Written(b) /\ Unparsed(item) = pre \o Written(grown)
    BY <1>4
  <2> HIDE DEF grown
  <2>2. Said(front) \o (pre \o Written(b)) = (Said(front) \o pre) \o Written(b)
    BY <1>7, <1>9, Regroups
  <2>3. Said(front) \o (pre \o Written(grown)) = (Said(front) \o pre) \o Written(grown)
    BY <1>7, <1>9, Regroups
  <2>4. Said(front) \o pre \in Seq(Sayable)
    BY <1>7, Joins
  <2> QED BY <1>7, <2>1, <2>2, <2>3, <2>4
<1>11. \E x \in Seq(Sayable) :
          /\ Said(items) = x \o Closing(open)
          /\ Said(items') = (x \o <<<<"step", w>>>>) \o Closing(open)
  <2> DEFINE p == Said(front) \o pre
  <2>1. p \in Seq(Sayable) /\ b.block = open /\ open # "none"
    BY <1>4, <1>10
  <2>2. Said(items) = p \o Written(b) /\ Said(items') = p \o Written(grown)
    BY <1>10
  <2> HIDE DEF p
  <2>3. \E x \in Seq(Sayable) :
           /\ p \o Written(b) = x \o Closing(b.block)
           /\ p \o Written(grown) = (x \o <<<<"step", w>>>>) \o Closing(b.block)
    BY <2>1, BranchGrows
  <2> QED BY <2>1, <2>2, <2>3
<1> QED
  BY <1>4, <1>6, <1>8, <1>11
TakesIn(line) ==
    /\ text' = Append(text, line) /\ line \in Lines /\ UNCHANGED alphabet
    /\ TextTyped /\ OneWaits /\ Kept

(* An item's first line: what was owed is said, and the line after it.       *)
LEMMA AttachKeeps ==
    ASSUME NEW line \in Lines, TakesIn(line), open # "parallel",
           NEW b \in Branches, b # NoBranch, Attach(b), NEW e \in Sayable, Begun(b) = <<e>>,
           e = line \/ (Keyword(line) = "or" /\ e = AsStep(line)), open' = b.block
    PROVE  TextTyped' /\ OneWaits' /\ Kept'
<1>1. /\ items' \in Seq(Items) /\ items' # <<>>
      /\ Said(items') = (Said(items) \o Owing(pending, alternatives, owed)) \o Written(b)
      /\ pending' = <<>> /\ alternatives' = <<>> /\ owed' = FALSE
      /\ (slot' = "filled") <=> (Final(items').otherwise # NoBranch)
      /\ b = IF slot' = "filled" THEN Final(items').otherwise ELSE Final(items').body
  BY AttachSays DEF TakesIn
<1>2. /\ Owing(pending, alternatives, owed) \in Seq(Sayable)
      /\ Owing(pending', alternatives', owed') = <<>>
  <2>1. <<>> \in Seq(Words)
    BY EmptySeq
  <2> QED BY <1>1, <2>1, OwingIs DEF TakesIn, TextTyped, OneWaits
<1>3. TextTyped'
  <2>1. text' \in Seq(Lines)
    BY AppendProperties DEF TakesIn, TextTyped
  <2>2. b.block \in {"none"} \cup Blocks
    BY DEF Branches
  <2>3. <<>> \in Seq(Words)
    BY EmptySeq
  <2> QED BY <1>1, <2>1, <2>2, <2>3 DEF TakesIn, TextTyped
<1>4. OneWaits'
  BY <1>1 DEF OneWaits
<1>5. Kept'
  <2>1. PICK x \in Seq(Sayable) :
           /\ Said(items) = x \o Closing(open)
           /\ SameLines(x \o Owing(pending, alternatives, owed), text)
    BY DEF TakesIn, Kept
  <2>2. Said(items) = x
    BY <2>1, Joins, Regroups DEF Closing
  <2> DEFINE y == x \o Owing(pending, alternatives, owed)
  <2>3. y \in Seq(Sayable)
    BY <1>2, Joins, Regroups
  <2>4. SameLines(y \o <<e>>, text')
    BY <2>1, <2>3, SameGrows DEF TakesIn, TextTyped
  <2>5. y \o <<e>> \in Seq(Sayable)
    BY <2>3, Joins, Regroups
  <2>6. Said(items') = (y \o <<e>>) \o Closing(open')
    <3>1. /\ Written(b) = Begun(b) \o Closing(b.block)
          /\ Begun(b) \in Seq(Sayable) /\ Closing(b.block) \in Seq(Sayable)
      BY WrittenIs
    <3> HIDE DEF y
    <3>2. y \o (Begun(b) \o Closing(b.block)) = (y \o Begun(b)) \o Closing(b.block)
      BY <2>3, <3>1, Regroups
    <3>3. Said(items') = y \o Written(b)
      BY <1>1, <2>2 DEF y
    <3> QED BY <3>1, <3>2, <3>3
  <2> HIDE DEF y
  <2>7. (y \o <<e>>) \o Owing(pending', alternatives', owed') = y \o <<e>>
    BY <1>2, <2>5, Joins, Regroups
  <2> QED BY <2>4, <2>5, <2>6, <2>7 DEF Kept
<1> QED
  BY <1>3, <1>4, <1>5

(* A guard's line, another condition or an `otherwise`: owed one line more.  *)
LEMMA OweKeeps ==
    ASSUME NEW line \in Lines, TakesIn(line), open # "parallel", open' # "parallel",
           UNCHANGED items,
           Owing(pending', alternatives', owed')
           = Owing(pending, alternatives, owed) \o <<line>>
    PROVE  Kept'
<1>1. PICK x \in Seq(Sayable) :
         /\ Said(items) = x \o Closing(open)
         /\ SameLines(x \o Owing(pending, alternatives, owed), text)
  BY DEF TakesIn, Kept
<1> DEFINE o == Owing(pending, alternatives, owed)
<1>2. o \in Seq(Sayable)
  BY OwingIs DEF TakesIn, TextTyped, OneWaits
<1>3. x \o o \in Seq(Sayable)
  BY <1>2, Joins, Regroups
<1>4. line \in Sayable
  BY LineFacts
<1>5. SameLines((x \o o) \o <<line>>, text')
  BY <1>1, <1>3, <1>4, SameGrows DEF TakesIn, TextTyped
<1>6. Owing(pending', alternatives', owed') = o \o <<line>>
  OBVIOUS
<1> HIDE DEF o
<1>7. (x \o o) \o <<line>> = x \o Owing(pending', alternatives', owed')
  <2> DEFINE l == <<line>>
  <2>1. l \in Seq(Sayable)
    BY <1>4, OneLine
  <2> HIDE DEF l
  <2>2. (x \o o) \o l = x \o (o \o l)
    BY <1>2, <2>1, Regroups
  <2> QED BY <1>6, <2>2 DEF l
<1>8. Said(items') = x \o Closing(open')
  BY <1>1 DEF Closing
<1> QED
  BY <1>5, <1>7, <1>8 DEF Kept

LEMMA LineKeeps ==
    ASSUME NEW line \in Lines, TakesIn(line), Taken(line)
    PROVE  TextTyped' /\ OneWaits' /\ Kept'
<1>1. text' \in Seq(Lines)
  BY AppendProperties DEF TakesIn, TextTyped
<1>2. Rest(line) \in Words /\ line = <<Keyword(line), Rest(line)>> /\ line # <<>>
      /\ AsStep(line) \in Sayable /\ line \in Sayable
  BY LineFacts
<1>3. Owing(pending, alternatives, owed) \in Seq(Sayable)
  BY OwingIs DEF TakesIn, TextTyped, OneWaits
<1>4. CASE Merge(line)
  <2>1. TextTyped' /\ OneWaits'
    BY <1>1, <1>4 DEF Merge, TakesIn, TextTyped, OneWaits
  <2>2. PICK x \in Seq(Sayable) :
           /\ Said(items) = x \o Closing(open)
           /\ SameLines(x \o Owing(pending, alternatives, owed), text)
    BY DEF TakesIn, Kept
  <2>3. open = "parallel" /\ open' = "none" /\ UNCHANGED <<items, pending, alternatives, owed, slot>>
    BY <1>4 DEF Merge, CanMerge
  <2>4. line = <<"merge", "">>
    BY <1>2, <1>4, LineFacts DEF Merge
  <2>5. Owing(pending, alternatives, owed) = <<>>
    BY <2>3, OwingIs DEF TakesIn, TextTyped, OneWaits
  <2>6. Said(items) = x \o <<line>>
    BY <2>2, <2>3, <2>4 DEF Closing
  <2>7. SameLines(x \o <<line>>, text')
    <3>1. x \o <<>> = x
      BY Joins, Regroups
    <3> QED BY <1>2, <2>2, <2>5, <3>1, SameGrows DEF TakesIn, TextTyped
  <2> DEFINE y == x \o <<line>>
  <2>8. y \in Seq(Sayable)
    BY <1>2, Joins, Regroups
  <2> HIDE DEF y
  <2>9. y \o <<>> = y
    BY <2>8, Joins, Regroups
  <2>10. Said(items') = y \o Closing(open')
    BY <2>3, <2>6, <2>9 DEF Closing, y
  <2>11. SameLines(y \o Owing(pending', alternatives', owed'), text')
    BY <2>3, <2>5, <2>7, <2>9 DEF y
  <2>12. Kept'
    BY <2>8, <2>10, <2>11 DEF Kept
  <2> QED BY <2>1, <2>12
<1>5. CASE OpenBlock(line)
  <2> DEFINE b == Opened(Keyword(line))
  <2>1. /\ Keyword(line) \in Blocks /\ open # "parallel" /\ Attach(b) /\ open' = Keyword(line)
    BY <1>5 DEF OpenBlock
  <2>2. line = <<Keyword(line), "">>
    BY <1>2, <2>1, LineFacts DEF Blocks
  <2>3. b \in Branches /\ b # NoBranch /\ b.block = Keyword(line)
    <3>1. <<>> \in Seq({Rest(l) : l \in Lines})
      BY EmptySeq
    <3> QED BY <2>1, <3>1 DEF Opened, Branches, NoBranch, Blocks
  <2>4. Begun(b) = <<line>>
    <3>1. Steps(b) = <<>>
      BY DEF Opened, Steps
    <3>2. <<line>> \o <<>> = <<line>>
      BY <1>2, Joins, Regroups
    <3>3. b.block # "none"
      BY <2>1, <2>3 DEF Blocks
    <3> QED BY <2>2, <2>3, <3>1, <3>2, <3>3 DEF Begun
  <2> HIDE DEF b
  <2> QED BY <1>2, <2>1, <2>3, <2>4, AttachKeeps
<1>6. CASE Guard(line)
  <2>1. /\ open # "parallel" /\ ~owed /\ pending = <<>> /\ Keyword(line) \in Guards
        /\ pending' = line /\ alternatives' = <<>> /\ open' = "none"
        /\ UNCHANGED <<items, owed, slot>>
    BY <1>6 DEF Guard, CanGuard
  <2>2. TextTyped' /\ OneWaits'
    <3>1. <<>> \in Seq(Words)
      BY EmptySeq
    <3>2. TextTyped'
      BY <1>1, <2>1, <3>1 DEF TakesIn, TextTyped, GuardLines
    <3>3. OneWaits'
      BY <1>2, <2>1 DEF TakesIn, OneWaits
    <3> QED BY <3>2, <3>3
  <2>3. Owing(pending, alternatives, owed) = <<>>
    BY <2>1, OwingIs DEF TakesIn, TextTyped, OneWaits
  <2>4. Owing(pending', alternatives', owed') = <<line>>
    <3>1. Owing(line, <<>>, FALSE) = <<line>> \o Ors(<<>>)
      <4>1. <<>> \in Seq(Words) /\ line \in GuardLines
        BY <2>1, EmptySeq DEF GuardLines
      <4> QED BY <1>2, <4>1, OwingIs
    <3>2. Ors(<<>>) = <<>>
      BY DEF Ors
    <3>3. <<line>> \o <<>> = <<line>>
      BY <1>2, Joins, Regroups
    <3>4. owed' = FALSE
      BY <2>1 DEF TakesIn, TextTyped
    <3> QED BY <2>1, <3>1, <3>2, <3>3, <3>4
  <2>5. <<>> \o <<line>> = <<line>>
    BY <1>2, Joins, Regroups
  <2> QED BY <2>1, <2>2, <2>3, <2>4, <2>5, OweKeeps
<1>7. CASE Alternative(line)
  <2>1. /\ Keyword(line) = "or" /\ pending # <<>>
        /\ alternatives' = Append(alternatives, Rest(line))
        /\ UNCHANGED <<items, open, pending, owed, slot>>
    BY <1>7 DEF Alternative
  <2>2. TextTyped' /\ OneWaits'
    <3>1. alternatives' \in Seq(Words)
      BY <1>2, <2>1, AppendProperties DEF TakesIn, TextTyped
    <3>2. TextTyped'
      BY <1>1, <2>1, <3>1 DEF TakesIn, TextTyped
    <3>3. OneWaits'
      BY <2>1 DEF TakesIn, OneWaits
    <3> QED BY <3>2, <3>3
  <2>3. open # "parallel"
    BY <2>1 DEF TakesIn, OneWaits
  <2>4. Owing(pending, alternatives, owed) = <<pending>> \o Ors(alternatives)
    BY <2>1, OwingIs DEF TakesIn, TextTyped, OneWaits
  <2>5. Owing(pending', alternatives', owed') = <<pending>> \o Ors(alternatives')
    <3>1. /\ pending \in {<<>>} \cup GuardLines /\ alternatives' \in Seq(Words) /\ owed \in BOOLEAN
          /\ pending # <<>> /\ ~owed
      BY <2>1, <2>2 DEF TakesIn, TextTyped, OneWaits
    <3> QED BY <2>1, <3>1, OwingIs
  <2>6. Ors(alternatives') = Ors(alternatives) \o <<line>> /\ Ors(alternatives) \in Seq(Sayable)
    <3>1. line = <<"or", Rest(line)>>
      BY <1>2, <2>1
    <3>2. /\ Ors(alternatives) \in Seq(Sayable)
          /\ Ors(Append(alternatives, Rest(line))) = Ors(alternatives) \o <<<<"or", Rest(line)>>>>
      BY <1>2, OrsAppend DEF TakesIn, TextTyped
    <3> QED BY <2>1, <3>1, <3>2
  <2>7. <<pending>> \in Seq(Sayable)
    <3>1. pending \in Sayable
      BY <2>1 DEF TakesIn, TextTyped, GuardLines, Sayable
    <3> QED BY <3>1
  <2>8. <<pending>> \o (Ors(alternatives) \o <<line>>) = (<<pending>> \o Ors(alternatives)) \o <<line>>
    <3> DEFINE p == <<pending>>
               l == <<line>>
    <3>1. p \in Seq(Sayable) /\ l \in Seq(Sayable)
      BY <1>2, <2>7
    <3> HIDE DEF p, l
    <3>2. p \o (Ors(alternatives) \o l) = (p \o Ors(alternatives)) \o l
      BY <2>6, <3>1, Joins, Regroups
    <3> QED BY <3>2 DEF p, l
  <2>9. Owing(pending', alternatives', owed') = Owing(pending, alternatives, owed) \o <<line>>
    BY <2>4, <2>5, <2>6, <2>8
  <2> QED BY <2>1, <2>2, <2>3, <2>9, OweKeeps
<1>8. CASE Otherwise(line)
  <2>1. /\ Keyword(line) = "otherwise" /\ open # "parallel" /\ pending = <<>> /\ ~owed
        /\ slot = "free" /\ owed' = TRUE /\ open' = "none"
        /\ UNCHANGED <<items, pending, alternatives, slot>>
    BY <1>8 DEF Otherwise, CanOtherwise
  <2>2. TextTyped' /\ OneWaits'
    BY <1>1, <2>1 DEF TakesIn, TextTyped, OneWaits
  <2>3. line = <<"otherwise", "">>
    BY <1>2, <2>1, LineFacts
  <2>4. Owing(pending, alternatives, owed) = <<>>
    BY <2>1, OwingIs DEF TakesIn, TextTyped, OneWaits
  <2>5. Owing(pending', alternatives', owed') = <<line>>
    <3>1. <<>> \in Seq(Words) /\ pending' = <<>> /\ alternatives' = <<>> /\ owed' = TRUE
      BY <2>1, EmptySeq DEF TakesIn, OneWaits
    <3> QED BY <2>3, <3>1, OwingIs
  <2>6. <<>> \o <<line>> = <<line>>
    BY <1>2, Joins, Regroups
  <2> QED BY <2>1, <2>2, <2>4, <2>5, <2>6, OweKeeps
<1>9. CASE Step(line)
  <2> DEFINE e == AsStep(line)
  <2>1. /\ e \in Sayable /\ e = <<"step", Rest(line)>>
        /\ e = line \/ (Keyword(line) = "or" /\ e = AsStep(line))
    BY <1>2, <1>9 DEF Step, AsStep
  <2>2. CASE open = "none"
    <3> DEFINE b == Single(Rest(line))
    <3>1. Attach(b) /\ open' = open
      BY <1>9, <2>2 DEF Step
    <3>2. b \in Branches /\ b # NoBranch /\ b.block = "none"
      BY <1>2 DEF Single, Branches, Words, NoBranch
    <3>3. Begun(b) = <<e>>
      <4>1. b.steps = <<Rest(line)>> /\ DOMAIN b.steps = 1..1 /\ b.steps[1] = Rest(line)
        BY DEF Single
      <4>2. Steps(b) = [k \in 1..1 |-> e]
        BY <2>1, <4>1 DEF Steps
      <4>3. [k \in 1..1 |-> e] = <<e>>
        OBVIOUS
      <4> QED BY <3>2, <4>2, <4>3 DEF Begun
    <3> HIDE DEF b, e
    <3> QED BY <2>1, <2>2, <3>1, <3>2, <3>3, AttachKeeps
  <2>3. CASE open # "none"
    <3>1. /\ IntoOpenBlock(Rest(line)) /\ UNCHANGED <<pending, alternatives, owed, slot, open>>
      BY <1>9, <2>3 DEF Step
    <3>2. /\ items' \in Seq(Items) /\ items' # <<>>
          /\ (slot = "filled") <=> (Final(items').otherwise # NoBranch)
          /\ (IF slot = "filled" THEN Final(items').otherwise ELSE Final(items').body).block = open
          /\ \E x \in Seq(Sayable) :
                /\ Said(items) = x \o Closing(open)
                /\ Said(items') = (x \o <<<<"step", Rest(line)>>>>) \o Closing(open)
      BY <1>2, <2>3, <3>1, IntoSays DEF TakesIn
    <3>3. TextTyped' /\ OneWaits'
      <4>1. TextTyped'
        BY <1>1, <3>1, <3>2 DEF TakesIn, TextTyped
      <4>2. OneWaits'
        BY <3>1, <3>2 DEF TakesIn, OneWaits
      <4> QED BY <4>1, <4>2
    <3>4. PICK x \in Seq(Sayable) :
             Said(items) = x \o Closing(open) /\ Said(items') = (x \o <<e>>) \o Closing(open)
      BY <2>1, <3>2
    <3>5. PICK y \in Seq(Sayable) :
             /\ Said(items) = y \o Closing(open)
             /\ SameLines(y \o Owing(pending, alternatives, owed), text)
      BY DEF TakesIn, Kept
    <3>6. x = y
      <4>1. Closing(open) \in Seq(Sayable)
        BY OneLine, NothingJoins DEF Closing
      <4> QED BY <3>4, <3>5, <4>1, ConcatSimplifications
    <3>7. Owing(pending, alternatives, owed) = <<>>
      BY <2>3, OwingIs DEF TakesIn, TextTyped, OneWaits
    <3>8. SameLines(x \o <<e>>, text')
      <4>1. x \o <<>> = x
        BY Joins, Regroups
      <4>2. SameLines(x, text)
        BY <3>5, <3>6, <3>7, <4>1
      <4> HIDE DEF e
      <4> QED BY <2>1, <4>2, SameGrows DEF TakesIn, TextTyped
    <3> DEFINE z == x \o <<e>>
    <3>9. z \in Seq(Sayable)
      <4> HIDE DEF e
      <4> QED BY <2>1, Joins, Regroups
    <3> HIDE DEF z
    <3>10. z \o <<>> = z
      BY <3>9, Joins, Regroups
    <3>11. /\ Said(items') = z \o Closing(open')
           /\ SameLines(z \o Owing(pending', alternatives', owed'), text')
      BY <3>1, <3>4, <3>7, <3>8, <3>10 DEF z
    <3>12. Kept'
      BY <3>9, <3>11 DEF Kept
    <3> QED BY <3>3, <3>12
  <2> QED BY <2>2, <2>3
<1> QED
  BY <1>4, <1>5, <1>6, <1>7, <1>8, <1>9 DEF TakesIn, Taken

LEMMA TextInvNext == ASSUME TextInv, TextNext PROVE TextInv'
<1>1. CASE EndOfText
  <2>1. UNCHANGED <<alphabet, text, items, open, pending, alternatives, owed, slot>>
        /\ phase = "reading" /\ phase' = IF EndsOpen THEN "refused" ELSE "parsed"
    BY <1>1 DEF EndOfText
  <2>2. TextTyped' /\ OneWaits' /\ Kept'
    BY <2>1 DEF TextInv, TextTyped, OneWaits, Kept
  <2> QED BY <2>1, <2>2 DEF TextInv, EndsOpen
<1>2. ASSUME NEW line \in alphabet, ReadLine(line) PROVE TextInv'
  <2>1. CASE Taken(line) /\ UNCHANGED phase
    <3>1. TakesIn(line) /\ line \in Lines /\ phase' = "reading"
      BY <1>2, <2>1 DEF ReadLine, TextInv, TextTyped, TakesIn
    <3>2. TextTyped' /\ OneWaits' /\ Kept'
      BY <2>1, <3>1, LineKeeps
    <3> QED BY <3>1, <3>2 DEF TextInv
  <2>2. CASE phase' = "refused"
    BY <2>2 DEF TextInv
  <2> QED BY <1>2, <2>1, <2>2 DEF ReadLine
<1> QED
  BY <1>1, <1>2 DEF TextNext

LEMMA ParsedIsWhole == TextInv => NothingIsDropped
<1> SUFFICES ASSUME TextTyped, OneWaits, Kept, ~EndsOpen
             PROVE  SameLines(FlattenSeq([i \in DOMAIN items |-> Unparsed(items[i])]), text)
  BY DEF TextInv, NothingIsDropped
<1>1. open # "parallel" /\ pending = <<>> /\ ~owed
  BY DEF EndsOpen
<1>2. PICK x \in Seq(Sayable) :
         /\ Said(items) = x \o Closing(open)
         /\ SameLines(x \o Owing(pending, alternatives, owed), text)
  BY DEF Kept
<1>3. Owing(pending, alternatives, owed) = <<>> /\ Closing(open) = <<>>
  BY <1>1, OwingIs DEF TextTyped, OneWaits, Closing
<1>4. x \o <<>> = x
  BY Joins, Regroups
<1> QED
  BY <1>2, <1>3, <1>4 DEF Said

(* An accepted text of any length is said by its items, line for line: no    *)
(* guard, step or `otherwise` is lost or moved to another owner              *)
(* (_append_workflow_item, _attach).                                         *)
THEOREM NothingIsLost == MCSpec => []NothingIsDropped
<1>1. MCInit => TextInv
  BY TextInvInit DEF MCInit, Init
<1>2. TextInv /\ [MCNext]_allVars => TextInv'
  <2> SUFFICES ASSUME TextInv, [MCNext]_allVars PROVE TextInv'
    OBVIOUS
  <2>1. CASE TextNext
    BY <2>1, TextInvNext
  <2>2. CASE UNCHANGED textVars
    BY <2>2 DEF textVars, TextInv, TextTyped, OneWaits, Kept, EndsOpen
  <2>3. TextNext \/ UNCHANGED textVars
    BY DEF MCNext, CompileNext, AgentsNext, EditorNext, LaunchNext, allVars, vars,
           Next, Parse, Lower, Start, EnterItem, EndRound, Complete, RunStep, Unmoved
  <2> QED BY <2>1, <2>2, <2>3
<1>3. TextInv => NothingIsDropped
  BY ParsedIsWhole
<1> QED
  BY <1>1, <1>2, <1>3, PTL DEF MCSpec

-----------------------------------------------------------------------------
(* The run of an accepted text.                                             *)

BranchNames == {"then", "otherwise"}

(* The step at position k of a branch of item i, as the compiler sees it.   *)
SiteOf(its, i, name, k) ==
    LET b == BranchOf(its[i], name)
    IN [item |-> i, branch |-> name, block |-> b.block, at |-> k,
        step |-> b.steps[k], does |-> Of(b.steps[k])]

LEMMA OneMore == ASSUME NEW n \in Nat PROVE \A i : i \in 1..(n + 1) <=> i \in 1..n \/ i = n + 1
OBVIOUS

(* What a flattened sequence of sequences has in it.                        *)
LEMMA FlattenRange ==
    ASSUME NEW T, NEW ss \in Seq(Seq(T))
    PROVE  \A x : x \in Range(FlattenSeq(ss)) <=> \E i \in 1..Len(ss) : x \in Range(ss[i])
<1> DEFINE N == Len(ss)
<1>1. N \in Nat /\ \A i \in 1..N : ss[i] \in Seq(T)
  BY ElementOfSeq
<1>2. PICK f \in [Nat -> Seq(T)] :
         /\ f[0] = <<>> /\ FlattenSeq(ss) = f[N]
         /\ \A i \in 1..N : f[i] = f[i - 1] \o ss[i]
  BY FlattenIs
<1> HIDE DEF N
<1> DEFINE Has(n) == \A x : x \in Range(f[n]) <=> \E i \in 1..n : x \in Range(ss[i])
           Right == {n \in Nat : n <= N => Has(n)}
<1>3. 0 \in Right
  <2>1. Range(<<>>) = {}
    BY DEF Range
  <2> QED BY <1>2, <2>1
<1>4. ASSUME NEW n \in Nat, n \in Right PROVE n + 1 \in Right
  <2> SUFFICES ASSUME n + 1 <= N PROVE Has(n + 1)
    OBVIOUS
  <2>1. n + 1 \in 1..N /\ (n + 1) - 1 = n /\ Has(n)
    BY <1>1, <1>4
  <2>2. f[n + 1] = f[n] \o ss[n + 1] /\ f[n] \in Seq(T) /\ ss[n + 1] \in Seq(T)
    BY <1>1, <1>2, <2>1
  <2>3. \A x : x \in Range(f[n] \o ss[n + 1]) <=> x \in Range(f[n]) \/ x \in Range(ss[n + 1])
    BY SMTT(60), <2>2, RangeConcatenation
  <2>4. \A i : i \in 1..(n + 1) <=> i \in 1..n \/ i = n + 1
    BY OneMore
  <2> QED BY <2>1, <2>2, <2>3, <2>4
<1>5. Nat \subseteq Right
  <2> HIDE DEF Right
  <2> QED BY <1>3, <1>4, Induction
<1>6. Has(N)
  BY <1>1, <1>5
<1> QED
  BY <1>2, <1>6 DEF N

LEMMA SitesAre ==
    ASSUME NEW its \in Seq(Items)
    PROVE  \A s : s \in SiteSet(its) <=>
              \E i \in DOMAIN its, name \in BranchNames :
                 \E k \in DOMAIN BranchOf(its[i], name).steps : s = SiteOf(its, i, name, k)
<1> DEFINE Of2(i, name) == In(i, name, BranchOf(its[i], name))
           T == UNION {Range(Of2(i, name)) : i \in DOMAIN its, name \in BranchNames}
           lists == [i \in DOMAIN its |-> Of2(i, "then") \o Of2(i, "otherwise")]
<1>1. DOMAIN its = 1..Len(its) /\ Len(its) \in Nat /\ \A i \in DOMAIN its : its[i] \in Items
  BY ElementOfSeq
<1>2. ASSUME NEW i \in DOMAIN its, NEW name \in BranchNames
      PROVE  /\ Of2(i, name) \in Seq(T)
             /\ \A s : s \in Range(Of2(i, name)) <=>
                   \E k \in DOMAIN BranchOf(its[i], name).steps : s = SiteOf(its, i, name, k)
  <2> DEFINE b == BranchOf(its[i], name)
  <2>1. b \in Branches
    BY <1>1, <1>2 DEF Items, BranchOf
  <2>2. Len(b.steps) \in Nat /\ DOMAIN b.steps = 1..Len(b.steps)
    BY <2>1 DEF Branches
  <2>3. Of2(i, name) = [k \in DOMAIN b.steps |-> SiteOf(its, i, name, k)]
    BY DEF In, SiteOf
  <2>4. \A s : s \in Range(Of2(i, name)) <=> \E k \in DOMAIN b.steps : s = SiteOf(its, i, name, k)
    <3> HIDE DEF b
    <3> QED BY <2>3 DEF Range
  <2>5. Range(Of2(i, name)) \subseteq T
    BY <1>2
  <2>6. \A k \in DOMAIN b.steps : SiteOf(its, i, name, k) \in T
    <3> HIDE DEF T, b
    <3> QED BY <2>4, <2>5
  <2>7. Of2(i, name) \in Seq(T)
    <3> HIDE DEF T, b
    <3> QED BY <2>2, <2>3, <2>6
  <2> QED BY <2>4, <2>7
<1>3. Sites(its) = FlattenSeq(lists)
  BY DEF Sites, BranchOf
<1> HIDE DEF Of2, T
<1>4. /\ lists \in Seq(Seq(T)) /\ Len(lists) = Len(its)
      /\ \A i \in DOMAIN its : lists[i] = Of2(i, "then") \o Of2(i, "otherwise")
  <2>1. \A i \in DOMAIN its : Of2(i, "then") \o Of2(i, "otherwise") \in Seq(T)
    BY <1>2, ConcatProperties DEF BranchNames
  <2> QED BY <1>1, <2>1
<1> HIDE DEF lists
<1>5. ASSUME NEW i \in DOMAIN its, NEW s
      PROVE  s \in Range(lists[i]) <=> s \in Range(Of2(i, "then")) \/ s \in Range(Of2(i, "otherwise"))
  <2>1. Of2(i, "then") \in Seq(T) /\ Of2(i, "otherwise") \in Seq(T)
    BY <1>2 DEF BranchNames
  <2>2. Range(Of2(i, "then") \o Of2(i, "otherwise"))
        = Range(Of2(i, "then")) \cup Range(Of2(i, "otherwise"))
    BY <2>1, RangeConcatenation
  <2> QED BY <1>4, <2>2
<1>6. ASSUME NEW s
      PROVE  s \in SiteSet(its) <=>
                \E i \in DOMAIN its, name \in BranchNames : s \in Range(Of2(i, name))
  <2>1. s \in SiteSet(its) <=> \E i \in 1..Len(lists) : s \in Range(lists[i])
    BY <1>3, <1>4, FlattenRange DEF SiteSet
  <2> QED BY <1>1, <1>4, <1>5, <2>1 DEF BranchNames
<1> QED
  BY <1>2, <1>6

(* A site is told by its item, its branch and its position.                 *)
LEMMA SiteIs ==
    ASSUME NEW its \in Seq(Items), NEW s \in SiteSet(its)
    PROVE  /\ s.item \in DOMAIN its /\ s.item \in Nat /\ s.branch \in BranchNames
           /\ s.at \in DOMAIN BranchOf(its[s.item], s.branch).steps /\ s.at \in Nat
           /\ s = SiteOf(its, s.item, s.branch, s.at)
           /\ s.block = BranchOf(its[s.item], s.branch).block
           /\ \E w : s.does = Of(w)
<1>1. PICK i \in DOMAIN its, name \in BranchNames :
         \E k \in DOMAIN BranchOf(its[i], name).steps : s = SiteOf(its, i, name, k)
  BY SitesAre
<1>2. PICK k \in DOMAIN BranchOf(its[i], name).steps : s = SiteOf(its, i, name, k)
  BY <1>1
<1>3. /\ s.item = i /\ s.branch = name /\ s.at = k
      /\ s.block = BranchOf(its[i], name).block
      /\ s.does = Of(BranchOf(its[i], name).steps[k])
  BY <1>2 DEF SiteOf
<1>4. BranchOf(its[i], name) \in Branches
  <2>1. its[i] \in Items
    BY ElementOfSeq
  <2> QED BY <2>1 DEF Items, BranchOf
<1>5. k \in Nat /\ i \in Nat
  BY <1>4 DEF Branches
<1> QED
  BY <1>2, <1>3, <1>5

(* An `otherwise` is of a `when` (_attach, the slot of the last item).       *)
OnlyWhens ==
    /\ \A i \in DOMAIN items : items[i].otherwise # NoBranch => Mode(items[i]) = "when"
    /\ slot \in {"free", "filled"} => items # <<>> /\ Mode(Final(items)) = "when"

OtherwiseInv == phase \in {"reading", "parsed"} => OnlyWhens

LEMMA OtherwiseInvInit == TextInit => OtherwiseInv
BY EmptySeq DEF TextInit, OtherwiseInv, OnlyWhens

LEMMA AttachOwns ==
    ASSUME TextTyped, OneWaits, OnlyWhens, NEW b \in Branches, b # NoBranch, Attach(b)
    PROVE  OnlyWhens'
<1>1. items \in Seq(Items) /\ pending \in {<<>>} \cup GuardLines
  BY DEF TextTyped
<1>2. Len(items) \in Nat /\ DOMAIN items = 1..Len(items)
  BY <1>1
<1>3. CASE owed
  <2>1. /\ items' = [items EXCEPT ![Len(items)].otherwise = b] /\ slot' = "filled"
        /\ slot = "free" /\ items # <<>> /\ Mode(Final(items)) = "when"
    BY <1>3 DEF Attach, OneWaits, OnlyWhens
  <2>2. Len(items) \in 1..Len(items)
    BY <1>1, <2>1, EmptySeq
  <2> DEFINE item == [items[Len(items)] EXCEPT !.otherwise = b]
  <2>3. items' = [items EXCEPT ![Len(items)] = item]
    BY <2>1
  <2>4. /\ item \in Items /\ item.guard = items[Len(items)].guard
    <3>1. items[Len(items)] \in Items
      BY <1>1, <2>2, ElementOfSeq
    <3> QED BY <3>1 DEF Items
  <2> HIDE DEF item
  <2>5. /\ DOMAIN items' = DOMAIN items /\ items' # <<>> /\ Final(items') = item
        /\ \A i \in DOMAIN items : items'[i] = IF i = Len(items) THEN item ELSE items[i]
    <3>1. items' # <<>> /\ Final(items') = item
      <4>1. /\ [items EXCEPT ![Len(items)] = item] # <<>>
            /\ Final([items EXCEPT ![Len(items)] = item]) = item
        BY <1>1, <2>1, <2>4, FinalItem
      <4> QED BY <2>3, <4>1
    <3> QED BY <1>2, <2>3, <3>1
  <2>6. Mode(item) = "when"
    BY <2>1, <2>4 DEF Mode, Final
  <2> QED BY <2>1, <2>5, <2>6 DEF OnlyWhens
<1>4. CASE ~owed
  <2> DEFINE item == [guard |-> pending, alternatives |-> alternatives,
                      body |-> b, otherwise |-> NoBranch]
  <2>1. /\ items' = Append(items, item)
        /\ slot' = IF pending = <<>> THEN "none"
                   ELSE IF Keyword(pending) = "when" THEN "free" ELSE "refused"
    BY <1>4 DEF Attach
  <2>2. /\ item.otherwise = NoBranch /\ item.guard = pending
    OBVIOUS
  <2> HIDE DEF item
  <2>3. /\ DOMAIN items' = 1..(Len(items) + 1) /\ Len(items') = Len(items) + 1
        /\ items'[Len(items) + 1] = item
        /\ \A i \in 1..Len(items) : items'[i] = items[i]
    BY <1>1, <2>1, AppendProperties
  <2>4. Final(items') = item /\ items' # <<>>
    BY <1>2, <2>3, EmptySeq DEF Final
  <2>5. slot' \in {"free", "filled"} => Mode(item) = "when"
    BY <2>1, <2>2 DEF Mode, Keyword
  <2>6. \A i \in DOMAIN items' : items'[i] = item \/ (i \in DOMAIN items /\ items'[i] = items[i])
    BY <1>2, <2>3
  <2> QED BY <2>2, <2>4, <2>5, <2>6 DEF OnlyWhens
<1> QED
  BY <1>3, <1>4

LEMMA IntoOwns ==
    ASSUME TextTyped, OneWaits, OnlyWhens, open # "none", NEW w, IntoOpenBlock(w),
           UNCHANGED slot
    PROVE  OnlyWhens'
<1>1. /\ items \in Seq(Items) /\ items # <<>>
      /\ slot # "filled" => Final(items).otherwise = NoBranch
  BY DEF TextTyped, OneWaits
<1>2. Len(items) \in 1..Len(items) /\ DOMAIN items = 1..Len(items)
  BY <1>1, EmptySeq
<1> DEFINE name == IF slot = "filled" THEN "otherwise" ELSE "body"
           last == items[Len(items)]
           item == [last EXCEPT ![name].steps = Append(@, w)]
<1>3. items' = [items EXCEPT ![Len(items)] = item]
  BY DEF IntoOpenBlock
<1>4. last \in Items
  BY <1>1, <1>2, ElementOfSeq
<1>5. item.guard = last.guard /\ (slot # "filled" => item.otherwise = last.otherwise)
  <2>1. CASE slot = "filled"
    BY <1>4, <2>1 DEF Items
  <2>2. CASE slot # "filled"
    BY <1>4, <2>2 DEF Items
  <2> QED BY <2>1, <2>2
<1> HIDE DEF item, last
<1>6. /\ DOMAIN items' = DOMAIN items /\ items' # <<>> /\ Len(items') = Len(items)
      /\ items'[Len(items)] = item
      /\ \A i \in DOMAIN items : items'[i] = IF i = Len(items) THEN item ELSE items[i]
  <2>1. /\ DOMAIN items' = DOMAIN items
        /\ \A i \in DOMAIN items : items'[i] = IF i = Len(items) THEN item ELSE items[i]
    BY <1>3
  <2>2. Len(items') = Len(items)
    BY <1>1, <1>3
  <2>3. items' # <<>>
    BY <1>2, <2>1
  <2> QED BY <1>2, <2>1, <2>2, <2>3
<1>7. Mode(item) = Mode(last) /\ (item.otherwise # NoBranch => Mode(item) = "when")
  BY <1>1, <1>2, <1>5 DEF OnlyWhens, Mode, Final, last
<1>8. slot' \in {"free", "filled"} => items' # <<>> /\ Mode(Final(items')) = "when"
  BY <1>6, <1>7 DEF OnlyWhens, Final, last
<1> QED
  BY <1>6, <1>7, <1>8 DEF OnlyWhens

LEMMA OtherwiseInvNext == ASSUME TextInv, OtherwiseInv, TextNext PROVE OtherwiseInv'
<1>1. CASE EndOfText
  BY <1>1 DEF EndOfText, OtherwiseInv, OnlyWhens
<1>2. ASSUME NEW line \in alphabet, ReadLine(line) PROVE OtherwiseInv'
  <2>1. TextTyped /\ OneWaits /\ OnlyWhens /\ line \in Lines
    BY <1>2 DEF ReadLine, TextInv, OtherwiseInv, TextTyped
  <2>2. CASE phase' = "refused"
    BY <2>2 DEF OtherwiseInv
  <2>3. CASE UNCHANGED <<items, slot>>
    BY <2>1, <2>3 DEF OtherwiseInv, OnlyWhens
  <2>4. CASE OpenBlock(line)
    <3> DEFINE b == Opened(Keyword(line))
    <3>1. Attach(b) /\ Keyword(line) \in Blocks
      BY <2>4 DEF OpenBlock
    <3>2. b \in Branches /\ b # NoBranch
      <4>1. <<>> \in Seq({Rest(l) : l \in Lines})
        BY EmptySeq
      <4> QED BY <3>1, <4>1 DEF Opened, Branches, NoBranch, Blocks
    <3> HIDE DEF b
    <3> QED BY <2>1, <3>1, <3>2, AttachOwns DEF OtherwiseInv
  <2>5. CASE Step(line) /\ open = "none"
    <3> DEFINE b == Single(Rest(line))
    <3>1. Attach(b)
      BY <2>5 DEF Step
    <3>2. b \in Branches /\ b # NoBranch
      <4>1. Rest(line) \in Words
        BY <2>1, LineFacts
      <4> QED BY <4>1 DEF Single, Branches, Words, NoBranch
    <3> HIDE DEF b
    <3> QED BY <2>1, <3>1, <3>2, AttachOwns DEF OtherwiseInv
  <2>6. CASE Step(line) /\ open # "none"
    <3>1. IntoOpenBlock(Rest(line)) /\ UNCHANGED slot
      BY <2>6 DEF Step
    <3> QED BY <2>1, <2>6, <3>1, IntoOwns DEF OtherwiseInv
  <2>7. \/ phase' = "refused" \/ UNCHANGED <<items, slot>> \/ OpenBlock(line) \/ Step(line)
    BY <1>2 DEF ReadLine, Taken, Merge, Guard, Alternative, Otherwise
  <2> QED BY <2>2, <2>3, <2>4, <2>5, <2>6, <2>7
<1> QED
  BY <1>1, <1>2 DEF TextNext

(* A step that binds a result makes or calls for it.                        *)
LEMMA ResultsAreMade ==
    ASSUME NEW w, Of(w).binds \in ResultNames
    PROVE  Of(w).op \in {"create", "call"}
<1> DEFINE MakesIt(e) == e.binds \in ResultNames => e.op \in {"create", "call"}
<1>1. \A entry \in Lexicon : MakesIt(entry[2])
  <2>1. ASSUME NEW op, NEW binds, NEW sets, NEW refs, binds \notin ResultNames
        PROVE  MakesIt(Effect(op, binds, sets, refs))
    BY <2>1 DEF Effect
  <2>2. ASSUME NEW op \in {"create", "call"}, NEW binds, NEW sets, NEW refs
        PROVE  MakesIt(Effect(op, binds, sets, refs))
    BY <2>2 DEF Effect
  <2>3. "" \notin ResultNames /\ "e" \notin ResultNames
    BY Zenon DEF ResultNames
  <2>4. "create" \in {"create", "call"} /\ "call" \in {"create", "call"}
    OBVIOUS
  <2> HIDE DEF MakesIt
  <2>5. \A entry : \A a, b : entry = <<a, b>> /\ MakesIt(b) => MakesIt(entry[2])
    OBVIOUS
  <2> QED BY <2>1, <2>2, <2>3, <2>4, <2>5, ZenonT(60) DEF Lexicon
<1>2. \E entry \in Lexicon : Of(w) = entry[2]
  <2>1. ASSUME NEW v \in DOMAIN EffectOf PROVE \E entry \in Lexicon : EffectOf[v] = entry[2]
    <3>1. \E entry \in Lexicon : entry[1] = v
      BY DEF EffectOf
    <3>2. (CHOOSE entry \in Lexicon : entry[1] = v) \in Lexicon
      BY <3>1
    <3>3. EffectOf[v] = (CHOOSE entry \in Lexicon : entry[1] = v)[2]
      BY DEF EffectOf
    <3> QED BY <3>2, <3>3
  <2>2. "note" \in DOMAIN EffectOf
    <3>1. \E entry \in Lexicon : "note" = entry[1]
      BY Zenon DEF Lexicon
    <3> QED BY <3>1 DEF EffectOf
  <2> QED BY <2>1, <2>2 DEF Of
<1> QED
  BY <1>1, <1>2

(* What is left of a sequence without its i-th element.                     *)
LEMMA RemoveAtIs ==
    ASSUME NEW S, NEW s \in Seq(S), NEW i \in DOMAIN s
    PROVE  /\ RemoveAt(s, i) \in Seq(S) /\ Len(RemoveAt(s, i)) = Len(s) - 1
           /\ \A j \in 1..(Len(s) - 1) : RemoveAt(s, i)[j] = IF j < i THEN s[j] ELSE s[j + 1]
<1>1. Len(s) \in Nat /\ i \in 1..Len(s) /\ i \in Nat
  OBVIOUS
<1> DEFINE a == SubSeq(s, 1, i - 1)
           b == SubSeq(s, i + 1, Len(s))
<1>2. a \in Seq(S) /\ Len(a) = i - 1 /\ \A j \in 1..(i - 1) : a[j] = s[j]
  BY <1>1, SubSeqProperties
<1>3. b \in Seq(S) /\ Len(b) = Len(s) - i /\ \A j \in 1..(Len(s) - i) : b[j] = s[j + i]
  BY <1>1, SubSeqProperties
<1>4. RemoveAt(s, i) = a \o b
  BY DEF RemoveAt
<1> HIDE DEF a, b
<1>5. /\ a \o b \in Seq(S) /\ Len(a \o b) = Len(a) + Len(b)
      /\ \A j \in 1..(Len(a) + Len(b)) : (a \o b)[j] = IF j <= Len(a) THEN a[j] ELSE b[j - Len(a)]
  BY <1>2, <1>3, ConcatProperties
<1>6. ASSUME NEW j \in 1..(Len(s) - 1)
      PROVE  (a \o b)[j] = IF j < i THEN s[j] ELSE s[j + 1]
  <2>1. j \in 1..(Len(a) + Len(b)) /\ j \in Nat
    BY <1>1, <1>2, <1>3
  <2>2. CASE j < i
    BY <1>1, <1>2, <1>5, <2>1, <2>2
  <2>3. CASE j >= i
    <3>1. j - Len(a) \in 1..(Len(s) - i) /\ (j - Len(a)) + i = j + 1 /\ j > Len(a)
      BY <1>1, <1>2, <2>1, <2>3
    <3> QED BY <1>1, <1>3, <1>5, <2>1, <2>3, <3>1
  <2> QED BY <1>1, <2>1, <2>2, <2>3
<1> QED
  BY SMTT(60), <1>1, <1>2, <1>3, <1>4, <1>5, <1>6

(* What a step makes of the scope: nothing that is bound is unbound, and a   *)
(* step that takes effect binds its result.                                 *)
LEMMA AfterBinds ==
    ASSUME NEW b, b = [n \in Names |-> b[n]], NEW r, NEW l, NEW w, NEW g \in Givens
    PROVE  LET e == After(Scope(b, r, l), Of(w), g)
           IN  /\ e.to.bound = [n \in Names |-> e.to.bound[n]]
               /\ \A n \in Names : b[n] # NoRow => e.to.bound[n] # NoRow
               /\ e.ok /\ Of(w).binds \in ResultNames => e.to.bound[Of(w).binds] # NoRow
<1> DEFINE s == Scope(b, r, l)
           does == Of(w)
           e == After(s, does, g)
           Keeps(t) == /\ t = [n \in Names |-> t[n]]
                       /\ \A n \in Names : b[n] # NoRow => t[n] # NoRow
<1> SUFFICES /\ Keeps(e.to.bound)
             /\ e.ok /\ does.binds \in ResultNames => e.to.bound[does.binds] # NoRow
  OBVIOUS
<1>1. /\ s.bound = b /\ s.row = r /\ s.listed = l /\ s = [bound |-> b, row |-> r, listed |-> l]
  BY DEF Scope
<1>2. g.input # NoRow /\ 0 # NoRow /\ 1 # NoRow
  BY NoRowAssumption DEF Givens, Values
<1>3. Keeps(b)
  OBVIOUS
<1>4. ASSUME NEW name, NEW v, v # NoRow
      PROVE  Keeps(Bind(b, name, v)) /\ (name \in Names => Bind(b, name, v)[name] = v)
  BY <1>4 DEF Bind
<1>5. ASSUME NEW name, NEW v, v # NoRow PROVE Keeps([b EXCEPT ![name] = v])
  BY <1>5
<1>6. does.binds \in ResultNames => does.op \in {"create", "call"} /\ does.binds \in Names
  BY ResultsAreMade DEF ResultNames, Names
<1> HIDE DEF does
<1> DEFINE value == IF does.op = "sum" THEN (IF s.listed = NoRow THEN 0 ELSE s.listed)
                    ELSE LET v == ValueIn(s.bound, CHOOSE n \in does.refs : TRUE, g)
                         IN IF v = NoRow THEN NoRow ELSE 1 - v
<1> HIDE DEF Keeps
<1>7. CASE does.op \in {"read", "cached"}
  <2>1. e = IF s.row = NoRow THEN [ok |-> FALSE, to |-> s]
            ELSE [ok |-> TRUE, to |-> [s EXCEPT !.bound["e"] = s.row]]
    BY <1>7 DEF After
  <2>2. e.to.bound = b \/ (r # NoRow /\ e.to.bound = [b EXCEPT !["e"] = r])
    <3> HIDE DEF e
    <3> QED BY <1>1, <2>1
  <2>3. Keeps(e.to.bound)
    <3> HIDE DEF e
    <3> QED BY <1>3, <1>5, <2>2
  <2> QED BY <1>6, <1>7, <2>3
<1>8. CASE does.op = "create"
  <2>1. e = IF s.row # NoRow THEN [ok |-> FALSE, to |-> s]
            ELSE [ok |-> TRUE, to |-> [s EXCEPT !.row = g.input,
                                                !.bound = Bind(@, does.binds, g.input)]]
    BY <1>8 DEF After
  <2>2. (e.to.bound = b /\ ~e.ok) \/ e.to.bound = Bind(b, does.binds, g.input)
    <3> HIDE DEF e
    <3> QED BY <1>1, <2>1
  <2> HIDE DEF e
  <2> QED BY <1>2, <1>3, <1>4, <1>6, <2>2
<1>9. CASE does.op = "call"
  <2> DEFINE v == IF g.answers THEN 1 ELSE 0
  <2>1. e = IF ~g.answers /\ does.binds \notin Names THEN [ok |-> FALSE, to |-> s]
            ELSE [ok |-> TRUE, to |-> [s EXCEPT !.bound = Bind(@, does.binds, v)]]
    BY <1>9 DEF After
  <2>2. v # NoRow
    BY <1>2
  <2> HIDE DEF v
  <2>3. (e.to.bound = b /\ ~e.ok) \/ e.to.bound = Bind(b, does.binds, v)
    <3> HIDE DEF e
    <3> QED BY <1>1, <2>1
  <2> HIDE DEF e
  <2> QED BY <1>3, <1>4, <1>6, <2>2, <2>3
<1>10. CASE does.op \in {"set", "sum"}
  <2>1. e = IF s.bound[does.sets] = NoRow \/ value = NoRow THEN [ok |-> FALSE, to |-> s]
            ELSE [ok |-> TRUE, to |-> [s EXCEPT !.bound[does.sets] = value, !.row = value]]
    BY <1>10 DEF After
  <2> HIDE DEF value
  <2>2. e.to.bound = b \/ (value # NoRow /\ e.to.bound = [b EXCEPT ![does.sets] = value])
    <3> HIDE DEF e
    <3> QED BY <1>1, <2>1
  <2>3. Keeps(e.to.bound)
    <3> HIDE DEF e
    <3> QED BY <1>3, <1>5, <2>2
  <2> QED BY <1>6, <1>10, <2>3
<1>11. CASE does.op \notin {"read", "cached", "create", "call", "set", "sum"}
  <2>1. e.to.bound = b
    <3>1. \/ e = [ok |-> FALSE, to |-> s] \/ e = [ok |-> TRUE, to |-> s]
          \/ e = [ok |-> TRUE, to |-> [s EXCEPT !.row = NoRow]]
          \/ e = [ok |-> TRUE, to |-> [s EXCEPT !.listed = s.row]]
      BY <1>11, Zenon DEF After
    <3> HIDE DEF e
    <3> QED BY <1>1, <3>1
  <2>2. Keeps(e.to.bound)
    <3> HIDE DEF e
    <3> QED BY <1>3, <2>1
  <2> QED BY <1>6, <1>11, <2>2
<1> QED
  BY <1>7, <1>8, <1>9, <1>10, <1>11

(* c runs before s wherever both do: it is unguarded or of the same branch, *)
(* before s in the text, and not beside it in a parallel block.             *)
Precedes(its, c, s) ==
    /\ Before(c, s)
    /\ Mode(its[c.item]) = "none" \/ SameBlock(c, s)
    /\ ~(SameBlock(c, s) /\ s.block = "parallel")

(* Where the generator is.                                                  *)
PlaceKnown ==
    /\ at \in Nat \ {0} /\ branch \in {"none"} \cup BranchNames
    /\ branch # "none" =>
          /\ at \in DOMAIN items
          /\ left \in Seq(DOMAIN BranchOf(items[at], branch).steps)
          /\ \A j, k \in DOMAIN left : j < k => left[j] < left[k]
    /\ branch = "none" => left = <<>>
    /\ branch = "otherwise" => Mode(items[at]) = "when"

(* What has run: nothing beyond the place, of the items before it every     *)
(* unguarded step and no block in part, of this branch what is not left, and *)
(* before a step all that precede it.                                       *)
PastKnown ==
    /\ did \subseteq SiteSet(items)
    /\ \A s \in did : s.item <= at /\ (s.item = at => s.branch = branch)
    /\ \A c \in SiteSet(items) : c.item < at /\ Mode(items[c.item]) = "none" => c \in did
    /\ status = "running" /\ branch # "none" =>
          \A c \in SiteSet(items) :
              c.item = at /\ c.branch = branch => c.at \in Range(left) \/ c \in did
    /\ \A s \in did, c \in SiteSet(items) : s.item < at /\ SameBlock(s, c) => c \in did
    /\ \A s \in did, c \in SiteSet(items) : Precedes(items, c, s) => c \in did
    /\ status = "completed" => at > Len(items)

(* A result that was made is bound, and one that was missed was not to be   *)
(* had from a step that precedes.                                           *)
ResultsKnown ==
    /\ bound = [n \in Names |-> bound[n]]
    /\ \A c \in did : c.does.binds \in ResultNames => bound[c.does.binds] # NoRow
    /\ \A m \in misses :
          /\ m[1] \in SiteSet(items) /\ m[2] \in m[1].does.refs
          /\ m[2] \in ResultNames =>
                \A c \in Binders(items, m[2]) : ~Precedes(items, c, m[1])

RunKnown == PlaceKnown /\ PastKnown /\ ResultsKnown /\ given \in Givens

RunInv ==
    /\ verdict = "accepted" => phase = "parsed" /\ Accepted(items)
    /\ status = "none" => did = {} /\ misses = {} /\ bound = Unbound /\ branch = "none"
                         /\ left = <<>>
    /\ status # "none" => verdict = "accepted" /\ RunKnown

LEMMA RunInvInit == Init => RunInv
BY DEF Init, RunInv

(* The items of a run.                                                      *)
LEMMA ItemsRun ==
    ASSUME TextInv, OtherwiseInv, RunInv, verdict = "accepted"
    PROVE  items \in Seq(Items) /\ OnlyWhens /\ Accepted(items)
BY DEF RunInv, TextInv, OtherwiseInv, TextTyped

LEMMA StartRuns ==
    ASSUME TextInv, OtherwiseInv, RunInv, Start
    PROVE  RunInv'
<1>1. /\ verdict = "accepted" /\ status = "none" /\ given' \in Givens /\ at' = 1
      /\ status' = "running" /\ items' = items /\ phase' = phase
      /\ UNCHANGED <<verdict, branch, left, bound, did, misses>>
  BY DEF Start, textVars
<1>2. did = {} /\ misses = {} /\ bound = Unbound /\ branch = "none" /\ left = <<>>
      /\ items \in Seq(Items)
  BY <1>1, ItemsRun DEF RunInv
<1>3. PlaceKnown'
  BY <1>1, <1>2 DEF PlaceKnown, BranchNames
<1>4. PastKnown'
  <2>1. \A c \in SiteSet(items) : ~(c.item < 1)
    <3>1. \A c \in SiteSet(items) : c.item \in DOMAIN items
      BY <1>2, SiteIs
    <3> QED BY <1>2, <3>1
  <2> QED BY <1>1, <1>2, <2>1 DEF PastKnown
<1>5. ResultsKnown'
  BY <1>1, <1>2 DEF ResultsKnown, Unbound
<1> QED
  BY <1>1, <1>3, <1>4, <1>5 DEF RunInv, RunKnown

(* What the generator leaves alone.                                         *)
Elsewhere == /\ UNCHANGED <<items, phase, verdict, given, bound, did, misses, status>>
             /\ status = "running" /\ at \in DOMAIN items /\ items \in Seq(Items) /\ OnlyWhens

LEMMA EnterRuns ==
    ASSUME RunKnown, Elsewhere, NEW name \in BranchNames, NEW r, Enter(name, r),
           branch \in {"none", name}, name = "otherwise" => Mode(items[at]) = "when"
    PROVE  RunKnown'
<1> DEFINE b == BranchOf(items[at], name)
<1>1. /\ branch' = name /\ left' = Positions(b) /\ at' = at /\ items' = items /\ did' = did
      /\ misses' = misses /\ bound' = bound /\ given' = given /\ status' = "running"
  BY DEF Enter, Elsewhere, Here
<1>2. b \in Branches
  <2>1. items[at] \in Items
    BY ElementOfSeq DEF Elsewhere
  <2> QED BY <2>1 DEF Items, BranchOf
<1>3. /\ DOMAIN b.steps = 1..Len(b.steps) /\ Len(b.steps) \in Nat
      /\ left' \in Seq(DOMAIN b.steps) /\ left' = [k \in DOMAIN b.steps |-> k]
  BY <1>1, <1>2 DEF Branches, Positions
<1> HIDE DEF b
<1>4. PlaceKnown'
  <2>1. \A j, k \in DOMAIN left' : j < k => left'[j] < left'[k]
    BY <1>3
  <2>2. at \in Nat \ {0} /\ at \in DOMAIN items /\ name \in {"then", "otherwise"}
    BY DEF RunKnown, PlaceKnown, Elsewhere, BranchNames
  <2> QED BY <1>1, <1>3, <2>1, <2>2 DEF PlaceKnown, b, BranchNames
<1>5. PastKnown'
  <2>1. \A s \in did : s.item = at => s.branch = name
    <3>1. \A s \in did : s.branch \in BranchNames
      BY SiteIs DEF RunKnown, PastKnown, Elsewhere
    <3> QED BY <3>1 DEF RunKnown, PastKnown, BranchNames
  <2>2. \A c \in SiteSet(items) : c.item = at /\ c.branch = name => c.at \in Range(left')
    <3>1. \A c \in SiteSet(items) : c.item = at /\ c.branch = name => c.at \in DOMAIN b.steps
      BY SiteIs DEF Elsewhere, b
    <3>2. \A k \in DOMAIN b.steps : k \in Range(left')
      BY <1>3 DEF Range
    <3> QED BY <3>1, <3>2
  <2> QED BY <1>1, <2>1, <2>2 DEF RunKnown, PastKnown, Elsewhere
<1>6. ResultsKnown'
  BY <1>1 DEF RunKnown, ResultsKnown
<1> QED
  BY <1>1, <1>4, <1>5, <1>6 DEF RunKnown

LEMMA NextRuns ==
    ASSUME RunKnown, Elsewhere, NextItem,
           IF branch = "none" THEN Mode(items[at]) # "none" ELSE left = <<>>
    PROVE  RunKnown'
<1>1. /\ branch' = "none" /\ left' = <<>> /\ at' = at + 1 /\ items' = items /\ did' = did /\ misses' = misses
      /\ bound' = bound /\ given' = given /\ status' = "running" /\ status = "running"
      /\ at \in Nat \ {0} /\ items \in Seq(Items)
  BY DEF NextItem, Elsewhere, RunKnown, PlaceKnown
<1>2. PlaceKnown'
  BY <1>1 DEF PlaceKnown, BranchNames
<1>3. \A c \in SiteSet(items) : c.item \in Nat /\ c.branch \in BranchNames
  BY <1>1, SiteIs
<1>4. Range(<<>>) = {}
  BY DEF Range
<1>5. \A c \in SiteSet(items) : branch # "none" /\ c.item = at /\ c.branch = branch => c \in did
  BY <1>1, <1>4 DEF RunKnown, PastKnown
<1>6. \A c \in SiteSet(items) :
         branch # "none" /\ c.item = at /\ Mode(items[at]) = "none" => c.branch = branch
  <2> SUFFICES ASSUME NEW c \in SiteSet(items), branch # "none", c.item = at,
                      Mode(items[at]) = "none"
               PROVE  c.branch = branch
    OBVIOUS
  <2>1. branch = "then"
    BY DEF RunKnown, PlaceKnown, BranchNames
  <2>2. c.branch # "otherwise"
    <3> SUFFICES ASSUME c.branch = "otherwise" PROVE FALSE
      OBVIOUS
    <3>1. items[at].otherwise = NoBranch
      BY DEF Elsewhere, OnlyWhens
    <3>2. c.at \in DOMAIN BranchOf(items[at], "otherwise").steps
      BY <1>1, SiteIs
    <3>3. BranchOf(items[at], "otherwise").steps = <<>>
      BY <3>1 DEF BranchOf, NoBranch
    <3> QED BY <3>2, <3>3
  <2> QED BY <1>3, <2>1, <2>2 DEF BranchNames
<1>7. PastKnown'
  <2>1. \A s \in did : s.item <= at' /\ s.item # at' /\ s \in SiteSet(items)
    BY <1>1, <1>3 DEF RunKnown, PastKnown
  <2>2. \A c \in SiteSet(items) : c.item < at' /\ Mode(items[c.item]) = "none" => c \in did
    <3>1. \A c \in SiteSet(items) : c.item < at' => c.item < at \/ c.item = at
      BY <1>1, <1>3
    <3> QED BY <1>5, <1>6, <3>1 DEF RunKnown, PastKnown
  <2>3. \A s \in did, c \in SiteSet(items) : s.item < at' /\ SameBlock(s, c) => c \in did
    <3>1. \A s \in did : s.item < at \/ (s.item = at /\ s.branch = branch)
      BY <1>1, <1>3, <2>1 DEF RunKnown, PastKnown
    <3>2. \A s \in did : s.branch # "none"
      BY <1>3, <2>1 DEF BranchNames
    <3> QED BY <1>5, <3>1, <3>2 DEF RunKnown, PastKnown, SameBlock
  <2> QED BY <1>1, <2>1, <2>2, <2>3 DEF RunKnown, PastKnown
<1>8. ResultsKnown'
  BY <1>1 DEF RunKnown, ResultsKnown
<1> QED
  BY <1>1, <1>2, <1>7, <1>8 DEF RunKnown

LEMMA EnterItemRuns ==
    ASSUME TextInv, OtherwiseInv, RunInv, EnterItem
    PROVE  RunInv'
<1>1. /\ Running /\ branch = "none" /\ UNCHANGED textVars
      /\ UNCHANGED <<verdict, given, bound, did, misses, status>>
  BY DEF EnterItem, Unmoved
<1>2. /\ RunKnown /\ verdict = "accepted" /\ status = "running" /\ at <= Len(items)
      /\ phase = "parsed" /\ Accepted(items)
  BY <1>1 DEF RunInv, Running
<1>3. Elsewhere
  <2>1. items \in Seq(Items) /\ OnlyWhens
    BY <1>2, ItemsRun
  <2>2. at \in DOMAIN items
    BY <1>2, <2>1 DEF RunKnown, PlaceKnown
  <2> QED BY <1>1, <1>2, <2>1, <2>2 DEF Elsewhere, textVars
<1>4. \/ \E r : Enter("then", r)
      \/ NextItem /\ Mode(Here) \in {"when", "repeat", "until"}
      \/ Enter("otherwise", 1) /\ Mode(Here) = "when"
  BY DEF EnterItem
<1>5. RunKnown'
  <2>1. ASSUME NEW r, Enter("then", r) PROVE RunKnown'
    BY <1>1, <1>2, <1>3, <2>1, EnterRuns DEF BranchNames
  <2>2. CASE NextItem /\ Mode(Here) \in {"when", "repeat", "until"}
    BY <1>1, <1>2, <1>3, <2>2, NextRuns DEF Here
  <2>3. CASE Enter("otherwise", 1) /\ Mode(Here) = "when"
    BY <1>1, <1>2, <1>3, <2>3, EnterRuns DEF BranchNames, Here
  <2> QED BY <1>4, <2>1, <2>2, <2>3
<1> QED
  BY <1>1, <1>2, <1>5 DEF RunInv, textVars

LEMMA EndRoundRuns ==
    ASSUME TextInv, OtherwiseInv, RunInv, EndRound
    PROVE  RunInv'
<1>1. /\ Running /\ branch # "none" /\ left = <<>> /\ UNCHANGED textVars
      /\ UNCHANGED <<verdict, given, bound, did, misses, status>>
  BY DEF EndRound, Unmoved
<1>2. /\ RunKnown /\ verdict = "accepted" /\ status = "running" /\ at <= Len(items)
      /\ phase = "parsed" /\ Accepted(items)
  BY <1>1 DEF RunInv, Running
<1>3. Elsewhere
  <2>1. items \in Seq(Items) /\ OnlyWhens
    BY <1>2, ItemsRun
  <2>2. at \in DOMAIN items
    BY <1>2, <2>1 DEF RunKnown, PlaceKnown
  <2> QED BY <1>1, <1>2, <2>1, <2>2 DEF Elsewhere, textVars
<1>4. NextItem \/ \E r : Enter("then", r) /\ Mode(Here) \in {"repeat", "until"}
  BY DEF EndRound
<1>5. RunKnown'
  <2>1. ASSUME NEW r, Enter("then", r), Mode(Here) \in {"repeat", "until"} PROVE RunKnown'
    <3>1. branch = "then"
      BY <1>1, <1>2, <2>1 DEF RunKnown, PlaceKnown, BranchNames, Here
    <3> QED BY <1>3, <1>2, <2>1, <3>1, EnterRuns DEF BranchNames
  <2>2. CASE NextItem
    BY <1>1, <1>2, <1>3, <2>2, NextRuns
  <2> QED BY <1>4, <2>1, <2>2
<1> QED
  BY <1>1, <1>2, <1>5 DEF RunInv, textVars

(* The steps that precede one which is about to run have run.               *)
LEMMA PrecedingRan ==
    ASSUME RunKnown, items \in Seq(Items), OnlyWhens, status = "running", branch # "none",
           NEW i \in DOMAIN left, i = 1 \/ BranchOf(items[at], branch).block = "parallel"
    PROVE  LET s == SiteOf(items, at, branch, left[i])
           IN  /\ SiteAt(left[i]) = s /\ s \in SiteSet(items)
               /\ \A c \in SiteSet(items) : Precedes(items, c, s) => c \in did
<1> DEFINE s == SiteOf(items, at, branch, left[i])
<1>1. /\ at \in DOMAIN items /\ branch \in BranchNames
      /\ left \in Seq(DOMAIN BranchOf(items[at], branch).steps)
      /\ \A j, k \in DOMAIN left : j < k => left[j] < left[k]
  BY DEF RunKnown, PlaceKnown
<1>2. left[i] \in DOMAIN BranchOf(items[at], branch).steps
  BY <1>1
<1>3. SiteAt(left[i]) = s
  BY DEF SiteAt, SiteOf, Here
<1>4. s \in SiteSet(items)
  BY <1>1, <1>2, SitesAre
<1>5. /\ s.item = at /\ s.branch = branch /\ s.at = left[i]
      /\ s.block = BranchOf(items[at], branch).block
  BY DEF SiteOf
<1> HIDE DEF s
<1>6. ASSUME NEW c \in SiteSet(items), Precedes(items, c, s) PROVE c \in did
  <2>1. /\ c.item \in DOMAIN items /\ c.branch \in BranchNames /\ c.at \in Nat /\ s.at \in Nat
        /\ c.at \in DOMAIN BranchOf(items[c.item], c.branch).steps
    BY <1>4, SiteIs
  <2>2. CASE c.item < s.item
    <3>1. Mode(items[c.item]) = "none"
      BY <1>6, <2>1, <2>2 DEF Precedes, SameBlock
    <3> QED BY <1>5, <2>2, <3>1 DEF RunKnown, PastKnown
  <2>3. CASE c.item = s.item /\ c.branch = "then" /\ s.branch = "otherwise"
    <3>1. Mode(items[c.item]) = "none"
      BY <1>6, <2>3 DEF Precedes, SameBlock
    <3>2. Mode(items[at]) = "when"
      BY <1>5, <2>3 DEF RunKnown, PlaceKnown
    <3> QED BY <1>5, <2>3, <3>1, <3>2
  <2>4. CASE c.item = s.item /\ c.branch = s.branch /\ c.at < s.at
    <3>1. i = 1
      BY <1>5, <1>6, <2>4 DEF Precedes, SameBlock
    <3>2. \A j \in DOMAIN left : left[j] \in Nat /\ left[1] <= left[j]
      <4> SUFFICES ASSUME NEW j \in DOMAIN left PROVE left[j] \in Nat /\ left[1] <= left[j]
        OBVIOUS
      <4>1. BranchOf(items[at], branch) \in Branches
        <5>1. items[at] \in Items
          BY <1>1, ElementOfSeq
        <5> QED BY <5>1 DEF Items, BranchOf
      <4>2. DOMAIN BranchOf(items[at], branch).steps \subseteq Nat
        BY <4>1 DEF Branches
      <4>3. left[j] \in Nat /\ left[1] \in Nat
        BY <1>1, <3>1, <4>2
      <4>4. j \in Nat /\ j >= 1 /\ 1 \in DOMAIN left
        BY <1>1, <3>1
      <4> QED BY <1>1, <4>3, <4>4
    <3>3. c.at \notin Range(left)
      BY <1>5, <2>1, <2>4, <3>1, <3>2 DEF Range
    <3> QED BY <1>5, <2>4, <3>3 DEF RunKnown, PastKnown
  <2> QED BY <1>6, <2>2, <2>3, <2>4 DEF Precedes, Before
<1> QED
  BY <1>3, <1>4, <1>6 DEF s

(* A preceding step that makes a result has bound it.                       *)
LEMMA PrecedingBound ==
    ASSUME RunKnown, NEW s, \A c \in SiteSet(items) : Precedes(items, c, s) => c \in did,
           NEW m \in MissesOf(s)
    PROVE  /\ m[1] = s /\ m[2] \in s.does.refs
           /\ m[2] \in ResultNames => \A c \in Binders(items, m[2]) : ~Precedes(items, c, s)
<1>1. m[1] = s /\ m[2] \in s.does.refs /\ bound[m[2]] = NoRow
  BY DEF MissesOf
<1>2. ASSUME m[2] \in ResultNames, NEW c \in Binders(items, m[2]), Precedes(items, c, s) PROVE FALSE
  <2>1. c \in did /\ c.does.binds = m[2]
    BY <1>2 DEF Binders
  <2> QED BY <1>1, <1>2, <2>1 DEF RunKnown, ResultsKnown
<1> QED
  BY <1>1, <1>2

LEMMA StepRuns ==
    ASSUME TextInv, OtherwiseInv, RunInv, NEW i \in DOMAIN left, RunStep(i)
    PROVE  RunInv'
<1> DEFINE s == SiteOf(items, at, branch, left[i])
           steps == DOMAIN BranchOf(items[at], branch).steps
           result == After(Scope(bound, row, listed), s.does, given)
<1>1. /\ RunKnown /\ verdict = "accepted" /\ status = "running" /\ phase = "parsed"
      /\ Accepted(items) /\ items \in Seq(Items) /\ OnlyWhens
  BY ItemsRun DEF RunStep, Running, RunInv
<1>2. branch # "none"
  BY <1>1 DEF RunKnown, PlaceKnown
<1>3. /\ SiteAt(left[i]) = s /\ s \in SiteSet(items)
      /\ \A c \in SiteSet(items) : Precedes(items, c, s) => c \in did
  <2>1. i = 1 \/ BranchOf(items[at], branch).block = "parallel"
    BY DEF RunStep, Here
  <2> QED BY <1>1, <1>2, <2>1, PrecedingRan
<1>4. /\ misses' \in {misses, misses \cup MissesOf(s)}
      /\ bound' = result.to.bound
      /\ IF result.ok THEN did' = did \cup {s} /\ status' = "running"
         ELSE did' = did /\ status' = "failed"
      /\ left' = RemoveAt(left, i)
      /\ UNCHANGED <<textVars, verdict, given, at, branch>>
  BY <1>3 DEF RunStep
<1>5. /\ s.item = at /\ s.branch = branch /\ s.at = left[i] /\ \E w : s.does = Of(w)
  BY DEF SiteOf
<1> HIDE DEF s, result
<1>6. items' = items /\ at' = at /\ branch' = branch /\ given' = given
  BY <1>4 DEF textVars
<1>7. /\ at \in DOMAIN items /\ branch \in BranchNames /\ left \in Seq(steps)
      /\ \A j, k \in DOMAIN left : j < k => left[j] < left[k]
  BY <1>2, <1>1 DEF RunKnown, PlaceKnown
<1> HIDE DEF steps
<1>8. /\ left' \in Seq(steps) /\ Len(left') = Len(left) - 1
      /\ \A j \in 1..(Len(left) - 1) : left'[j] = IF j < i THEN left[j] ELSE left[j + 1]
  BY <1>4, <1>7, RemoveAtIs
<1>9. Len(left) \in Nat /\ DOMAIN left = 1..Len(left) /\ DOMAIN left' = 1..(Len(left) - 1) /\ i \in Nat
  BY <1>7, <1>8
<1>10. PlaceKnown'
  <2>1. ASSUME NEW j \in DOMAIN left', NEW k \in DOMAIN left', j < k PROVE left'[j] < left'[k]
    <3> DEFINE p(n) == IF n < i THEN n ELSE n + 1
    <3>1. left'[j] = left[p(j)] /\ left'[k] = left[p(k)]
      BY <1>8, <1>9
    <3>2. p(j) \in DOMAIN left /\ p(k) \in DOMAIN left /\ p(j) < p(k)
      BY <1>9, <2>1
    <3> HIDE DEF p
    <3> QED BY <1>7, <3>1, <3>2
  <2> QED BY <1>1, <1>2, <1>6, <1>7, <1>8, <2>1 DEF RunKnown, PlaceKnown, steps
<1>11. PastKnown'
  <2>1. \A c \in did' : c \in did \/ c = s
    BY <1>4
  <2>2. did' \subseteq SiteSet(items) /\ did \subseteq did'
    BY <1>1, <1>3, <1>4 DEF RunKnown, PastKnown
  <2>3. \A c \in did' : c.item <= at /\ (c.item = at => c.branch = branch)
    <3>1. at \in Nat
      BY <1>1 DEF RunKnown, PlaceKnown
    <3> QED BY <1>1, <1>5, <2>1, <3>1 DEF RunKnown, PastKnown
  <2>4. status' = "running" =>
           \A c \in SiteSet(items) :
              c.item = at /\ c.branch = branch => c.at \in Range(left') \/ c \in did'
    <3> SUFFICES ASSUME status' = "running", NEW c \in SiteSet(items), c.item = at,
                        c.branch = branch, c \notin did'
                 PROVE  c.at \in Range(left')
      OBVIOUS
    <3>1. did' = did \cup {s}
      BY <1>4
    <3>2. c.at \in Range(left) /\ c # s
      BY <1>1, <1>2, <3>1 DEF RunKnown, PastKnown
    <3>3. PICK k \in DOMAIN left : c.at = left[k]
      BY <3>2 DEF Range
    <3>4. c = SiteOf(items, at, branch, left[k])
      BY <1>1, <3>3, SiteIs
    <3>5. k # i
      BY <3>2, <3>4 DEF s
    <3> DEFINE j == IF k < i THEN k ELSE k - 1
    <3>6. j \in DOMAIN left' /\ left'[j] = left[k]
      BY <1>8, <1>9, <3>5
    <3> QED BY <3>3, <3>6 DEF Range
  <2>5. \A c \in did', d \in SiteSet(items) : c.item < at /\ SameBlock(c, d) => d \in did'
    <3>1. ~(s.item < at)
      BY <1>1, <1>5 DEF RunKnown, PlaceKnown
    <3> QED BY <1>1, <2>1, <2>2, <3>1 DEF RunKnown, PastKnown
  <2>6. \A d \in did', c \in SiteSet(items) : Precedes(items, c, d) => c \in did'
    BY <1>1, <1>3, <2>1, <2>2 DEF RunKnown, PastKnown
  <2>7. status' # "completed"
    BY <1>4
  <2> QED BY <1>1, <1>6, <2>2, <2>3, <2>4, <2>5, <2>6, <2>7 DEF RunKnown, PastKnown
<1>12. ResultsKnown'
  <2>1. /\ bound' = [n \in Names |-> bound'[n]]
        /\ \A n \in Names : bound[n] # NoRow => bound'[n] # NoRow
        /\ result.ok /\ s.does.binds \in ResultNames => bound'[s.does.binds] # NoRow
    <3>1. PICK w : s.does = Of(w)
      BY <1>5
    <3>2. bound = [n \in Names |-> bound[n]] /\ given \in Givens
      BY <1>1 DEF RunKnown, ResultsKnown
    <3>3. result = After(Scope(bound, row, listed), Of(w), given)
      BY <3>1 DEF result
    <3>4. LET e == After(Scope(bound, row, listed), Of(w), given)
          IN  /\ e.to.bound = [n \in Names |-> e.to.bound[n]]
              /\ \A n \in Names : bound[n] # NoRow => e.to.bound[n] # NoRow
              /\ e.ok /\ Of(w).binds \in ResultNames => e.to.bound[Of(w).binds] # NoRow
      BY <3>2, AfterBinds
    <3> QED BY <1>4, <3>1, <3>3, <3>4
  <2>2. \A c \in did' : c.does.binds \in ResultNames => bound'[c.does.binds] # NoRow
    <3>1. ResultNames \subseteq Names
      BY DEF ResultNames, Names
    <3> QED BY <1>1, <1>4, <2>1, <3>1 DEF RunKnown, ResultsKnown
  <2>3. \A m \in misses' :
          /\ m[1] \in SiteSet(items) /\ m[2] \in m[1].does.refs
          /\ m[2] \in ResultNames => \A c \in Binders(items, m[2]) : ~Precedes(items, c, m[1])
    <3>1. \A m \in misses' : m \in misses \/ m \in MissesOf(s)
      BY <1>4
    <3>2. ASSUME NEW m \in MissesOf(s)
          PROVE  /\ m[1] \in SiteSet(items) /\ m[2] \in m[1].does.refs
                 /\ m[2] \in ResultNames =>
                       \A c \in Binders(items, m[2]) : ~Precedes(items, c, m[1])
      BY <1>1, <1>3, PrecedingBound
    <3> QED BY <1>1, <3>1, <3>2 DEF RunKnown, ResultsKnown
  <2> QED BY <1>6, <2>1, <2>2, <2>3 DEF ResultsKnown
<1> QED
  BY <1>1, <1>4, <1>6, <1>10, <1>11, <1>12 DEF RunInv, RunKnown, textVars

LEMMA CompleteRuns ==
    ASSUME TextInv, OtherwiseInv, RunInv, Complete
    PROVE  RunInv'
<1> DEFINE asked == {d \in did : d.does.op = "respond"}
<1>1. /\ status = "running" /\ at > Len(items) /\ status' = "completed"
      /\ misses' = misses \cup UNION {MissesOf(s) : s \in asked}
      /\ UNCHANGED <<textVars, verdict, given, at, branch, left, bound, did>>
  BY DEF Complete
<1>2. /\ RunKnown /\ verdict = "accepted" /\ items' = items /\ phase' = phase
      /\ phase = "parsed" /\ Accepted(items)
  BY <1>1 DEF RunInv, textVars
<1>3. PlaceKnown'
  BY <1>1, <1>2 DEF RunKnown, PlaceKnown
<1>4. PastKnown'
  BY <1>1, <1>2 DEF RunKnown, PastKnown
<1>5. ResultsKnown'
  <2>1. ASSUME NEW m \in misses'
        PROVE  /\ m[1] \in SiteSet(items) /\ m[2] \in m[1].does.refs
               /\ m[2] \in ResultNames =>
                     \A c \in Binders(items, m[2]) : ~Precedes(items, c, m[1])
    <3>1. CASE m \in misses
      BY <1>2, <3>1 DEF RunKnown, ResultsKnown
    <3>2. ASSUME NEW s \in did, m \in MissesOf(s)
          PROVE  /\ m[1] \in SiteSet(items) /\ m[2] \in m[1].does.refs
                 /\ m[2] \in ResultNames =>
                       \A c \in Binders(items, m[2]) : ~Precedes(items, c, m[1])
      <4>1. s \in SiteSet(items) /\ \A c \in SiteSet(items) : Precedes(items, c, s) => c \in did
        BY <1>2 DEF RunKnown, PastKnown
      <4> QED BY <1>2, <3>2, <4>1, PrecedingBound
    <3> QED BY <1>1, <2>1, <3>1, <3>2
  <2>2. UNCHANGED <<bound, did, items>>
    BY <1>1, <1>2
  <2> QED BY <1>2, <2>1, <2>2 DEF RunKnown, ResultsKnown
<1> QED
  BY <1>1, <1>2, <1>3, <1>4, <1>5 DEF RunInv, RunKnown

LEMMA RunInvNext == ASSUME TextInv, OtherwiseInv, RunInv, Next PROVE RunInv'
<1>1. CASE Parse
  <2>1. phase = "reading" /\ UNCHANGED <<verdict, runVars>>
    BY <1>1 DEF Parse, TextNext, EndOfText, ReadLine
  <2> QED BY <2>1 DEF RunInv, runVars
<1>2. CASE Lower
  <2>1. /\ phase = "parsed" /\ verdict = "none" /\ UNCHANGED <<textVars, runVars>>
        /\ verdict' = IF Accepted(items) THEN "accepted" ELSE "rejected"
    BY <1>2 DEF Lower
  <2> QED BY <2>1 DEF RunInv, runVars, textVars
<1> QED
  BY <1>1, <1>2, StartRuns, EnterItemRuns, EndRoundRuns, CompleteRuns, StepRuns DEF Next

LEMMA PairAndOne == ASSUME NEW a, NEW b, NEW c PROVE <<a, b>> \o <<c>> = <<a, b, c>>
<1> DEFINE T == {a, b, c}
           p == <<a, b>>
           o == <<c>>
           t == <<a, b, c>>
<1>1. /\ p \in Seq(T) /\ Len(p) = 2 /\ p[1] = a /\ p[2] = b
      /\ o \in Seq(T) /\ Len(o) = 1 /\ o[1] = c
      /\ t \in Seq(T) /\ Len(t) = 3 /\ t[1] = a /\ t[2] = b /\ t[3] = c
  OBVIOUS
<1> HIDE DEF p, o, t, T
<1>2. /\ p \o o \in Seq(T) /\ Len(p \o o) = 3
      /\ \A i \in 1..3 : (p \o o)[i] = IF i <= 2 THEN p[i] ELSE o[i - 2]
  <2>1. /\ p \o o \in Seq(T) /\ Len(p \o o) = Len(p) + Len(o)
        /\ \A i \in 1..(Len(p) + Len(o)) :
              (p \o o)[i] = IF i <= Len(p) THEN p[i] ELSE o[i - Len(p)]
    BY <1>1, ConcatProperties
  <2> QED BY <1>1, <2>1
<1>3. \A i \in 1..3 : (p \o o)[i] = t[i]
  <2>1. (p \o o)[1] = a /\ (p \o o)[2] = b /\ (p \o o)[3] = c
    BY <1>1, <1>2
  <2>2. \A i \in 1..3 : i = 1 \/ i = 2 \/ i = 3
    OBVIOUS
  <2> QED BY <1>1, <2>1, <2>2
<1>4. p \o o = t
  BY <1>1, <1>2, <1>3, SeqEqual
<1> QED
  BY <1>4 DEF p, o, t

(* What the identity of a scope tells of a step's guard.                    *)
LEMMA KeyIs ==
    ASSUME items \in Seq(Items), OnlyWhens, NEW s \in SiteSet(items)
    PROVE  LET g == items[s.item].guard
               key == GuardKey(items, s)
           IN  /\ key = <<>> <=> Mode(items[s.item]) = "none"
               /\ Mode(items[s.item]) # "none" =>
                     /\ g = <<g[1], g[2]>>
                     /\ \/ s.branch = "then" /\ key = g
                        \/ s.branch = "otherwise" /\ key = <<g[1], g[2], "otherwise">>
<1> DEFINE item == items[s.item]
           g == item.guard
<1>1. /\ s.item \in DOMAIN items /\ s.branch \in BranchNames
      /\ s.at \in DOMAIN BranchOf(item, s.branch).steps
  BY SiteIs
<1>2. item \in Items
  BY <1>1, ElementOfSeq
<1>3. g = <<>> \/ (g \in Lines /\ Keyword(g) \in Guards)
  BY <1>2 DEF Items, GuardLines
<1>4. item.otherwise # NoBranch => Mode(item) = "when"
  BY <1>1 DEF OnlyWhens
<1>5. s.branch = "otherwise" => Mode(item) = "when"
  <2>1. s.branch = "otherwise" => item.otherwise # NoBranch
    BY <1>1 DEF BranchOf, NoBranch
  <2> QED BY <1>4, <2>1
<1> HIDE DEF item
<1>6. CASE g = <<>>
  <2>1. Mode(item) = "none"
    BY <1>6 DEF Mode
  <2>2. GuardKey(items, s) = <<>>
    BY <2>1 DEF GuardKey, item
  <2> QED BY <2>1, <2>2 DEF item
<1>7. CASE g # <<>>
  <2>1. g = <<g[1], g[2]>> /\ g[1] \in Guards
    BY <1>3, <1>7, LineFacts DEF Keyword, Rest
  <2>2. Mode(item) = g[1] /\ Mode(item) # "none"
    BY <1>7, <2>1 DEF Mode, Guards
  <2>3. g \o <<"otherwise">> = <<g[1], g[2], "otherwise">>
    BY <2>1, PairAndOne
  <2>4. GuardKey(items, s)
        = IF Mode(item) = "repeat" \/ s.branch = "then" THEN g ELSE g \o <<"otherwise">>
    BY <2>2 DEF GuardKey, item
  <2>5. \/ s.branch = "then" /\ GuardKey(items, s) = g
        \/ s.branch = "otherwise" /\ GuardKey(items, s) = <<g[1], g[2], "otherwise">>
    <3>1. s.branch \in {"then", "otherwise"}
      BY <1>1 DEF BranchNames
    <3> QED BY <1>5, <2>3, <2>4, <3>1
  <2>6. GuardKey(items, s) # <<>>
    BY <1>7, <2>5
  <2> QED BY <2>1, <2>2, <2>5, <2>6 DEF item
<1> QED
  BY <1>6, <1>7

LEMMA SameKeys ==
    ASSUME items \in Seq(Items), OnlyWhens, NEW a \in SiteSet(items), NEW b \in SiteSet(items),
           GuardKey(items, a) = GuardKey(items, b)
    PROVE  \/ Mode(items[a.item]) = "none" /\ Mode(items[b.item]) = "none"
           \/ WrittenAlike(items, a, b) /\ Mode(items[b.item]) # "none"
<1>1. CASE GuardKey(items, a) = <<>>
  BY <1>1, KeyIs
<1>2. CASE GuardKey(items, a) # <<>>
  <2> DEFINE g == items[a.item].guard
             h == items[b.item].guard
  <2>1. /\ g = <<g[1], g[2]>> /\ Mode(items[b.item]) # "none"
        /\ \/ a.branch = "then" /\ GuardKey(items, a) = g
           \/ a.branch = "otherwise" /\ GuardKey(items, a) = <<g[1], g[2], "otherwise">>
    BY <1>2, KeyIs
  <2>2. /\ h = <<h[1], h[2]>>
        /\ \/ b.branch = "then" /\ GuardKey(items, b) = h
           \/ b.branch = "otherwise" /\ GuardKey(items, b) = <<h[1], h[2], "otherwise">>
    BY <1>2, KeyIs
  <2> HIDE DEF g, h
  <2>3. g = h /\ a.branch = b.branch
    <3>1. \A u, v, x, y, z : <<u, v>> # <<x, y, z>>
      OBVIOUS
    <3>2. \A u, v, x, y : <<u, v, "otherwise">> = <<x, y, "otherwise">> => u = x /\ v = y
      OBVIOUS
    <3>3. CASE a.branch = "then" /\ GuardKey(items, a) = g
      <4>1. b.branch = "then" /\ GuardKey(items, b) = h
        BY <2>1, <2>2, <3>1, <3>3
      <4> QED BY <3>3, <4>1
    <3>4. CASE a.branch = "otherwise" /\ GuardKey(items, a) = <<g[1], g[2], "otherwise">>
      <4>1. b.branch = "otherwise" /\ GuardKey(items, b) = <<h[1], h[2], "otherwise">>
        BY <2>1, <2>2, <3>1, <3>4
      <4>2. <<g[1], g[2], "otherwise">> = <<h[1], h[2], "otherwise">>
        BY <3>4, <4>1
      <4>3. g[1] = h[1] /\ g[2] = h[2]
        BY <3>2, <4>2, Zenon
      <4> QED BY <2>1, <2>2, <3>4, <4>1, <4>3
    <3> QED BY <2>1, <3>3, <3>4
  <2> QED BY <2>1, <2>3 DEF WrittenAlike, g, h
<1> QED
  BY <1>1, <1>2

LEMMA ReadsAreExplained ==
    ASSUME TextInv, OtherwiseInv, RunInv PROVE UnboundReadsAreExplained
<1> SUFFICES ASSUME NEW m \in misses, m[2] \in ResultNames, ~Escapes(items, m[1], m[2])
             PROVE  \E c \in Binders(items, m[2]) :
                       \/ OnlyWrittenAlike(items, c, m[1])
                       \/ /\ Mode(items[c.item]) = "none" \/ SameBlock(c, m[1])
                          /\ NotBefore(c, m[1])
  BY DEF UnboundReadsAreExplained
<1> DEFINE s == m[1]
           name == m[2]
<1>1. /\ RunKnown /\ verdict = "accepted"
  BY DEF RunInv
<1>2. items \in Seq(Items) /\ OnlyWhens /\ Accepted(items)
  BY <1>1, ItemsRun
<1>3. /\ s \in SiteSet(items) /\ name \in s.does.refs
      /\ \A c \in Binders(items, name) : ~Precedes(items, c, s)
  BY <1>1 DEF RunKnown, ResultsKnown
<1>4. Binders(items, name) # {}
  <2>1. CanBind(items, name)
    BY <1>2, <1>3 DEF Accepted, Resolves
  <2> QED BY <2>1 DEF CanBind, ResultNames
<1>5. PICK c \in Binders(items, name) :
         GuardKey(items, c) = <<>> \/ GuardKey(items, c) = GuardKey(items, s)
  BY <1>3, <1>4 DEF Escapes, Unconditional
<1>6. c \in SiteSet(items)
  BY DEF Binders
<1>7. ~Precedes(items, c, s)
  BY <1>3
<1> HIDE DEF s, name
<1>8. CASE Mode(items[c.item]) = "none"
  <2>1. NotBefore(c, s)
    BY <1>7, <1>8 DEF Precedes, NotBefore
  <2> QED BY <1>8, <2>1 DEF s, name
<1>9. CASE Mode(items[c.item]) # "none"
  <2>1. GuardKey(items, c) = GuardKey(items, s)
    BY <1>2, <1>5, <1>6, <1>9, KeyIs
  <2>2. WrittenAlike(items, c, s) /\ Mode(items[s.item]) # "none"
    BY <1>2, <1>3, <1>6, <1>9, <2>1, SameKeys
  <2>3. CASE c.item # s.item
    BY <2>2, <2>3 DEF OnlyWrittenAlike, s, name
  <2>4. CASE c.item = s.item
    <3>1. SameBlock(c, s)
      BY <2>2, <2>4 DEF WrittenAlike, SameBlock
    <3>2. NotBefore(c, s)
      BY <1>7, <3>1 DEF Precedes, NotBefore
    <3> QED BY <3>1, <3>2 DEF s, name
  <2> QED BY <2>3, <2>4
<1> QED
  BY <1>8, <1>9

LEMMA EmitsAreHonest ==
    ASSUME TextInv, OtherwiseInv, RunInv PROVE SourcedEmitsAreHonest
<1> SUFFICES ASSUME status = "completed", NEW s \in did, ~SourceMismatch(items, s)
             PROVE  \/ \E c \in did : c.does.op = "create"
                    \/ \E c \in SiteSet(items) :
                          c.does.op = "create" /\ OnlyWrittenAlike(items, c, s)
  BY DEF SourcedEmitsAreHonest
<1>1. /\ RunKnown /\ verdict = "accepted"
  BY DEF RunInv
<1>2. items \in Seq(Items) /\ OnlyWhens /\ s \in SiteSet(items)
  BY <1>1, ItemsRun DEF RunKnown, PastKnown
<1>3. PICK c \in SiteSet(items) :
         c.does.op = "create" /\ GuardKey(items, c) = GuardKey(items, s)
  BY DEF SourceMismatch
<1>4. s.item < at /\ c.item < at
  <2>1. /\ s.item \in DOMAIN items /\ c.item \in DOMAIN items
    BY <1>2, SiteIs
  <2>2. at \in Nat /\ at > Len(items)
    BY <1>1 DEF RunKnown, PlaceKnown, PastKnown
  <2> QED BY <1>2, <2>1, <2>2
<1>5. CASE Mode(items[c.item]) = "none"
  BY <1>1, <1>3, <1>4, <1>5 DEF RunKnown, PastKnown
<1>6. CASE Mode(items[c.item]) # "none"
  <2>1. WrittenAlike(items, c, s) /\ Mode(items[s.item]) # "none"
    BY <1>2, <1>3, <1>6, SameKeys
  <2>2. CASE c.item # s.item
    BY <1>3, <2>1, <2>2 DEF OnlyWrittenAlike
  <2>3. CASE c.item = s.item
    <3>1. SameBlock(s, c)
      BY <2>1, <2>3 DEF WrittenAlike, SameBlock
    <3> QED BY <1>1, <1>3, <1>4, <3>1 DEF RunKnown, PastKnown
  <2> QED BY <2>2, <2>3
<1> QED
  BY <1>5, <1>6

LEMMA SumsAreFilled ==
    ASSUME TextInv, OtherwiseInv, RunInv PROVE AggregatesAreFilled
<1> SUFFICES ASSUME NEW s \in did, s.does.op = "sum", ~AggregationOrphaned(items, s)
             PROVE  \/ \E q \in did : q.does.op = "query"
                    \/ \E q \in SiteSet(items) :
                          q.does.op = "query" /\ SameBlock(q, s) /\ s.block = "parallel"
  BY DEF AggregatesAreFilled
<1>1. RunKnown
  BY DEF RunInv
<1>2. PICK q \in SiteSet(items) :
         q.does.op = "query" /\ Mode(items[q.item]) = "none" /\ Before(q, s)
  BY DEF AggregationOrphaned, ListedBefore
<1>3. CASE SameBlock(q, s) /\ s.block = "parallel"
  BY <1>2, <1>3
<1>4. CASE ~(SameBlock(q, s) /\ s.block = "parallel")
  <2>1. Precedes(items, q, s)
    BY <1>2, <1>4 DEF Precedes
  <2> QED BY <1>1, <1>2, <2>1 DEF RunKnown, PastKnown
<1> QED
  BY <1>3, <1>4

(* What the compiler does not warn of does not happen: in a run of any       *)
(* accepted text, with any payload and answers, a result that is not found   *)
(* is explained by the text, an event is emitted with what it is declared    *)
(* on, and an aggregate has its list (_check_guard_scoped_binding_reads,     *)
(* _check_event_source_mismatch, _check_scoped_conditions).                  *)
THEOREM WarningsStayComplete == MCSpec => []WarningsAreComplete
<1> DEFINE I == TextInv /\ OtherwiseInv /\ RunInv
<1>1. MCInit => I
  BY TextInvInit, OtherwiseInvInit, RunInvInit DEF MCInit, Init
<1>2. I /\ [MCNext]_allVars => I'
  <2> SUFFICES ASSUME I, [MCNext]_allVars PROVE I'
    OBVIOUS
  <2>1. CASE Next
    <3>1. CASE TextNext
      BY <2>1, <3>1, TextInvNext, OtherwiseInvNext, RunInvNext
    <3>2. CASE UNCHANGED textVars
      BY <2>1, <3>2, RunInvNext DEF textVars, TextInv, TextTyped, OneWaits, Kept, EndsOpen,
         OtherwiseInv, OnlyWhens
    <3>3. TextNext \/ UNCHANGED textVars
      BY <2>1 DEF Next, Parse, Lower, Start, EnterItem, EndRound, Complete, RunStep, Unmoved
    <3> QED BY <3>1, <3>2, <3>3
  <2>2. CASE UNCHANGED vars
    BY <2>2 DEF vars, runVars, textVars, TextInv, TextTyped, OneWaits, Kept, EndsOpen,
       OtherwiseInv, OnlyWhens, RunInv, RunKnown, PlaceKnown, PastKnown, ResultsKnown
  <2>3. Next \/ UNCHANGED vars
    BY DEF MCNext, CompileNext, AgentsNext, EditorNext, LaunchNext, allVars
  <2> QED BY <2>1, <2>2, <2>3
<1>3. I => WarningsAreComplete
  BY ReadsAreExplained, EmitsAreHonest, SumsAreFilled DEF WarningsAreComplete
<1> QED
  BY <1>1, <1>2, <1>3, PTL DEF MCSpec
=============================================================================
