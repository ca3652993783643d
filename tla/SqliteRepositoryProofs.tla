----------------------- MODULE SqliteRepositoryProofs -----------------------
(***************************************************************************)
(* Theorems about SqliteRepository, for any number of runs, keys and       *)
(* effects per run: its writer is alone and nothing dirty is seen, what was *)
(* committed stays, and the store implements the ledger.                   *)
(***************************************************************************)
EXTENDS SqliteRepository, TLAPS

-----------------------------------------------------------------------------
(* Types.  One lemma per building block of the actions.                     *)

(* What a statement of a run sees is a well-typed store.                    *)
LEMMA SeenType ==
    ASSUME TypeOK, NEW r \in Runs
    PROVE  SeenRows(r) \in RowsType /\ SeenOutbox(r) \in Seq(Emission)
BY DEF TypeOK, StoreType, ConnType, SeenRows, SeenOutbox

(* A SELECT leaves the connection well typed.                               *)
LEMMA SelectType ==
    ASSUME TypeOK, NEW r \in Runs, SelectStatement(r)
    PROVE  ConnType'
BY DEF TypeOK, StoreType, ConnType, SelectStatement, conn

(* So does a write that executes, given well-typed contents to write.       *)
LEMMA WriteType ==
    ASSUME TypeOK, NEW r \in Runs,
           NEW nr \in RowsType, NEW no \in Seq(Emission),
           WriteStatement(r, nr, no)
    PROVE  ConnType'
BY DEF TypeOK, StoreType, ConnType, WriteStatement

(* And a write that is refused.                                             *)
LEMMA RefusedType ==
    ASSUME TypeOK, NEW r \in Runs, WriteRefused(r)
    PROVE  ConnType'
BY DEF TypeOK, ConnType, WriteRefused

(* Executing an effect spends one unit of the run's budget.                 *)
LEMMA ExecutesType ==
    ASSUME TypeOK, NEW r \in Runs, NEW op, Executes(r, op)
    PROVE  op \in AllOps /\ left' \in [Runs -> 0..MaxOps]
BY RepositoryAssumption DEF TypeOK, ControlType, Executes

(* However an effect ends, the control state stays well typed.              *)
LEMMA OutcomeType ==
    ASSUME TypeOK, NEW r \in Runs, NEW op \in AllOps, NEW k \in Keys,
           Completes(r, op, k) \/ Raises(r, op, k) \/ RaisesForGood(r),
           left' \in [Runs -> 0..MaxOps]
    PROVE  ControlType'
BY DEF TypeOK, ControlType, Completes, Raises, RaisesForGood, Running

(* The end of a run resets its connection and its bookkeeping.              *)
LEMMA EndType ==
    ASSUME TypeOK, NEW r \in Runs, NEW o \in Ended, EndRun(r, o)
    PROVE  ConnType' /\ ControlType' /\ DataType'
<1>1. ConnType'
  BY DEF TypeOK, ConnType, EndRun, NoView, RowsType
<1>2. ControlType'
  BY RepositoryAssumption DEF TypeOK, ControlType, EndRun
<1>3. DataType'
  BY DEF TypeOK, DataType, EndRun, NoView, RowsType
<1> QED
  BY <1>1, <1>2, <1>3

(* Every step of a run on a key preserves the types.                        *)
LEMMA KeyStepType ==
    ASSUME TypeOK, NEW r \in Runs, NEW k \in Keys, KeyStep(r, k)
    PROVE  TypeOK'
<1>0. SeenRows(r) \in RowsType /\ SeenOutbox(r) \in Seq(Emission)
  BY SeenType
<1>a. \A op : Executes(r, op) => op \in AllOps /\ left' \in [Runs -> 0..MaxOps]
  BY ExecutesType
<1>1. CASE Read(r, k)
  <2>1. StoreType' /\ Executes(r, "read")
    BY <1>1 DEF Read, TypeOK, StoreType, store
  <2>2. ConnType'
    BY <1>1, SelectType DEF Read
  <2>3. ControlType'
    BY <1>1, <1>a, <2>1, OutcomeType DEF Read
  <2>4. DataType'
    <3>1. bound \in [Runs -> RowsType] /\ SeenRows(r)[k] \in Row \cup {NoRow}
      BY <1>0 DEF TypeOK, DataType, RowsType
    <3>2. bound' \in [Runs -> RowsType]
      BY <1>1, <3>1 DEF Read, RowsType
    <3> QED
      BY <1>1, <3>2 DEF Read, TypeOK, DataType, audit
  <2> QED
    BY <2>1, <2>2, <2>3, <2>4 DEF TypeOK
<1>2. CASE SetLands(r, k)
  <2> DEFINE row == [by |-> Assigned(r, k), ver |-> bound[r][k].ver + 1]
  <2>1. StoreType' /\ Executes(r, "set")
    BY <1>2 DEF SetLands, SetExecutes, TypeOK, StoreType, store
  <2>2. row \in Row
    BY <1>2 DEF SetLands, SetExecutes, TypeOK, DataType, RowsType, Row, Assigned
  <2>3. [SeenRows(r) EXCEPT ![k] = row] \in RowsType
    BY <2>2, <1>0 DEF RowsType
  <2>4. ConnType'
    BY <1>2, <1>0, <2>3, WriteType DEF SetLands
  <2>5. ControlType'
    BY <1>2, <1>a, <2>1, OutcomeType DEF SetLands
  <2>6. DataType'
    BY <1>2, <2>2 DEF SetLands, SetExecutes, TypeOK, DataType, RowsType
  <2> QED
    BY <2>1, <2>4, <2>5, <2>6 DEF TypeOK
<1>3. CASE SetConflicts(r, k) \/ SetRefused(r, k)
  <2>1. StoreType' /\ Executes(r, "set")
    BY <1>3 DEF SetConflicts, SetRefused, SetExecutes, TypeOK, StoreType, store
  <2>2. ConnType'
    BY <1>3, <1>0, WriteType, RefusedType DEF SetConflicts, SetRefused
  <2>3. ControlType'
    BY <1>3, <1>a, <2>1, OutcomeType DEF SetConflicts, SetRefused
  <2>4. DataType'
    <3>1. bound \in [Runs -> RowsType] /\ bound[r][k] \in Row
      BY <1>3 DEF SetConflicts, SetRefused, SetExecutes, TypeOK, DataType, RowsType
    <3>2. [bound[r][k] EXCEPT !.by = Assigned(r, k)] \in Row
      BY <3>1 DEF Row, Assigned
    <3>3. bound' = [bound EXCEPT ![r][k] = [bound[r][k] EXCEPT !.by = Assigned(r, k)]]
      BY <1>3, <3>1 DEF SetConflicts, SetRefused
    <3>4. bound' \in [Runs -> RowsType]
      BY <3>1, <3>2, <3>3 DEF RowsType
    <3> QED
      BY <1>3, <3>4 DEF SetConflicts, SetRefused, SetExecutes, TypeOK, DataType
  <2> QED
    BY <2>1, <2>2, <2>3, <2>4 DEF TypeOK
<1>4. CASE SetCreated(r, k)
  <2> DEFINE new == IF SeenRows(r)[k] = NoRow THEN SeenRows(r)
                    ELSE [SeenRows(r) EXCEPT ![k] = [by |-> {r}, ver |-> @.ver + 1]]
  <2>1. StoreType' /\ DataType' /\ Executes(r, "set")
    BY <1>4 DEF SetCreated, TypeOK, StoreType, DataType, store, audit
  <2>2. new \in RowsType
    BY <1>0 DEF RowsType, Row
  <2>3. ConnType'
    BY <1>4, <1>0, <2>2, WriteType DEF SetCreated
  <2>4. ControlType'
    BY <1>4, <1>a, <2>1, OutcomeType DEF SetCreated
  <2> QED
    BY <2>1, <2>3, <2>4 DEF TypeOK
<1>5. CASE CreateLands(r, k)
  <2>1. StoreType' /\ Executes(r, "create")
    BY <1>5 DEF CreateLands, CreateExecutes, TypeOK, StoreType, store
  <2>2. [SeenRows(r) EXCEPT ![k] = [by |-> {r}, ver |-> 1]] \in RowsType
    BY <1>0 DEF RowsType, Row
  <2>3. ConnType'
    BY <1>5, <1>0, <2>2, WriteType DEF CreateLands
  <2>4. ControlType'
    BY <1>5, <1>a, <2>1, OutcomeType DEF CreateLands
  <2>5. DataType'
    BY <1>5 DEF CreateLands, CreateExecutes, TypeOK, DataType, audit
  <2> QED
    BY <2>1, <2>3, <2>4, <2>5 DEF TypeOK
<1>6. CASE CreateConflicts(r, k) \/ CreateRefused(r, k)
  <2>1. StoreType' /\ DataType' /\ Executes(r, "create")
    BY <1>6 DEF CreateConflicts, CreateRefused, CreateExecutes, TypeOK, StoreType,
                DataType, store, audit
  <2>2. ConnType'
    BY <1>6, <1>0, WriteType, RefusedType DEF CreateConflicts, CreateRefused
  <2>3. ControlType'
    BY <1>6, <1>a, <2>1, OutcomeType DEF CreateConflicts, CreateRefused
  <2> QED
    BY <2>1, <2>2, <2>3 DEF TypeOK
<1>7. CASE TouchRead(r, k)
  <2>1. StoreType' /\ Executes(r, "update")
    BY <1>7 DEF TouchRead, TypeOK, StoreType, store
  <2>2. ConnType'
    BY <1>7, SelectType DEF TouchRead
  <2>3. ControlType'
    BY <1>7, <1>a, <2>1 DEF TouchRead, TypeOK, ControlType
  <2>4. DataType'
    BY <1>7, <1>0 DEF TouchRead, TypeOK, DataType, RowsType, audit
  <2> QED
    BY <2>1, <2>2, <2>3, <2>4 DEF TypeOK
<1>8. CASE DeleteLands(r, k) \/ DeleteMissing(r, k) \/ DeleteRefused(r, k)
  <2>1. StoreType' /\ Executes(r, "delete")
    BY <1>8 DEF DeleteLands, DeleteMissing, DeleteRefused, DeleteExecutes, TypeOK,
                StoreType, store
  <2>2. [SeenRows(r) EXCEPT ![k] = NoRow] \in RowsType
    BY <1>0 DEF RowsType
  <2>3. ConnType'
    BY <1>8, <1>0, <2>2, WriteType, RefusedType
    DEF DeleteLands, DeleteMissing, DeleteRefused
  <2>4. ControlType'
    BY <1>8, <1>a, <2>1, OutcomeType DEF DeleteLands, DeleteMissing, DeleteRefused
  <2>5. DataType'
    BY <1>8 DEF DeleteLands, DeleteMissing, DeleteRefused, DeleteExecutes, TypeOK,
                DataType
  <2> QED
    BY <2>1, <2>3, <2>4, <2>5 DEF TypeOK
<1> QED
  BY <1>1, <1>2, <1>3, <1>4, <1>5, <1>6, <1>7, <1>8 DEF KeyStep

(* Every other step of a run preserves the types.                           *)
LEMMA RunStepType ==
    ASSUME TypeOK, NEW r \in Runs, RunStep(r)
    PROVE  TypeOK'
<1>0. SeenRows(r) \in RowsType /\ SeenOutbox(r) \in Seq(Emission)
  BY SeenType
<1>a. \A op : Executes(r, op) => op \in AllOps /\ left' \in [Runs -> 0..MaxOps]
  BY ExecutesType
<1>1. CASE Begin(r) \/ RetryStep(r)
  <2>1. StoreType' /\ ConnType' /\ DataType'
    BY <1>1 DEF Begin, RetryStep, TypeOK, StoreType, ConnType, DataType, store, conn, audit
  <2>2. ControlType'
    BY <1>1 DEF Begin, RetryStep, TypeOK, ControlType, Running
  <2> QED
    BY <2>1, <2>2 DEF TypeOK
<1>2. CASE Query(r)
  <2>1. StoreType' /\ DataType' /\ Executes(r, "query")
    BY <1>2 DEF Query, TypeOK, StoreType, DataType, store, audit
  <2>2. ConnType'
    BY <1>2, SelectType DEF Query
  <2>3. ControlType'
    BY <1>2, <1>a, <2>1 DEF Query, TypeOK, ControlType
  <2> QED
    BY <2>1, <2>2, <2>3 DEF TypeOK
<1>3. CASE TouchLands(r)
  <2> DEFINE k == touch[r].key
             row == [by |-> TouchedBy(r), ver |-> SeenRows(r)[k].ver + 1]
  <2>0. k \in Keys /\ touch[r].row \in Row \cup {NoRow}
    BY <1>3 DEF TouchLands, Touching, TypeOK, DataType
  <2>1. StoreType' /\ SeenRows(r)[k] # NoRow /\ Completes(r, "update", k)
    BY <1>3 DEF TouchLands, Touching, TypeOK, StoreType, store
  <2>2. row \in Row
    BY <2>0, <2>1, <1>0 DEF RowsType, Row, TouchedBy
  <2>3. [SeenRows(r) EXCEPT ![k] = row] \in RowsType
    BY <2>0, <2>2, <1>0 DEF RowsType
  <2>4. ConnType'
    BY <1>3, <1>0, <2>3, WriteType DEF TouchLands
  <2>5. ControlType'
    <3>1. left' \in [Runs -> 0..MaxOps] /\ "update" \in AllOps
      BY <1>3 DEF TouchLands, Touching, TypeOK, ControlType, AllOps
    <3> QED
      BY <2>0, <2>1, <3>1, OutcomeType
  <2>6. DataType'
    BY <1>3, <2>0 DEF TouchLands, Touching, TypeOK, DataType, RowsType, Row, audit
  <2> QED
    BY <2>1, <2>4, <2>5, <2>6 DEF TypeOK
<1>4. CASE TouchMissing(r) \/ TouchRefused(r)
  <2>0. touch[r].key \in Keys
    BY <1>4 DEF TouchMissing, TouchRefused, Touching, TypeOK, DataType
  <2>1. StoreType' /\ DataType' /\ Raises(r, "update", touch[r].key)
    BY <1>4 DEF TouchMissing, TouchRefused, Touching, TypeOK, StoreType, DataType,
                store, audit
  <2>2. ConnType'
    BY <1>4, <1>0, WriteType, RefusedType DEF TouchMissing, TouchRefused
  <2>3. ControlType'
    <3>1. left' \in [Runs -> 0..MaxOps] /\ "update" \in AllOps
      BY <1>4 DEF TouchMissing, TouchRefused, Touching, TypeOK, ControlType, AllOps
    <3> QED
      BY <2>0, <2>1, <3>1, OutcomeType
  <2> QED
    BY <2>1, <2>2, <2>3 DEF TypeOK
<1>5. CASE EmitLands(r)
  <2>1. StoreType' /\ Executes(r, "emit")
    BY <1>5 DEF EmitLands, EmitExecutes, TypeOK, StoreType, store
  <2>2. Append(SeenOutbox(r), <<r, emitted[r] + 1>>) \in Seq(Emission)
    BY <1>0 DEF TypeOK, DataType, Emission
  <2>3. ConnType'
    BY <1>5, <1>0, <2>2, WriteType DEF EmitLands
  <2>4. ControlType'
    BY <1>5, <1>a, <2>1 DEF EmitLands, TypeOK, ControlType
  <2>5. DataType'
    BY <1>5 DEF EmitLands, EmitExecutes, TypeOK, DataType
  <2> QED
    BY <2>1, <2>3, <2>4, <2>5 DEF TypeOK
<1>6. CASE EmitRefused(r)
  <2>1. StoreType' /\ DataType' /\ Executes(r, "emit")
    BY <1>6 DEF EmitRefused, EmitExecutes, TypeOK, StoreType, DataType, store
  <2>2. ConnType'
    BY <1>6, RefusedType DEF EmitRefused
  <2>3. ControlType'
    BY <1>6, <1>a, <2>1 DEF EmitRefused, RaisesForGood, TypeOK, ControlType, Running
  <2> QED
    BY <2>1, <2>2, <2>3 DEF TypeOK
<1>7. CASE Commit(r)
  <2>1. StoreType'
    BY <1>7 DEF Commit, TypeOK, StoreType, ConnType, store
  <2>2. EndRun(r, "committed") /\ "committed" \in Ended
    BY <1>7 DEF Commit, Ended
  <2> QED
    BY <2>1, <2>2, EndType DEF TypeOK
<1>8. CASE Rollback(r) \/ Crash(r)
  <2>1. StoreType'
    BY <1>8 DEF Rollback, Crash, TypeOK, StoreType, store
  <2>2. PICK o \in Ended : EndRun(r, o)
    BY <1>8 DEF Rollback, Crash, Ended
  <2> QED
    BY <2>1, <2>2, EndType DEF TypeOK
<1> QED
  BY <1>1, <1>2, <1>3, <1>4, <1>5, <1>6, <1>7, <1>8 DEF RunStep

(* Every reachable state is well typed, whatever the workflows do.          *)
THEOREM TypeCorrect == Spec => []TypeOK
<1>1. Init => TypeOK
  BY RepositoryAssumption
  DEF Init, TypeOK, StoreType, ConnType, ControlType, DataType, RowsType, Row, NoView
<1>2. TypeOK /\ [Next]_vars => TypeOK'
  <2> SUFFICES ASSUME TypeOK, [Next]_vars PROVE TypeOK'
    OBVIOUS
  <2>1. CASE \E r \in Runs : RunStep(r)
    BY <2>1, RunStepType
  <2>2. CASE \E r \in Runs : \E k \in Keys : KeyStep(r, k)
    BY <2>2, KeyStepType
  <2>3. CASE UNCHANGED vars
    BY <2>3 DEF vars, store, conn, audit, TypeOK, StoreType, ConnType, ControlType,
                DataType
  <2> QED
    BY <2>1, <2>2, <2>3 DEF Next, AllEnded
<1> QED
  BY <1>1, <1>2, PTL DEF Spec

-----------------------------------------------------------------------------
(* The inductive invariant.  Between its begin and its end a run only does *)
(* what Working allows, so each part of StoreInv is proved once for         *)
(* Working, once for Commit and once for a run that ends otherwise.         *)

HeldRows(b, t, c) ==
    \A x \in Runs : /\ \A k \in Keys : MadeOf(b[x][k], c \cup {x})
                    /\ t[x] # NoTouch => MadeOf(t[x].row, c \cup {x})

OwnRows(r, nr) == nr \in RowsType /\ \A k \in Keys : MadeOf(nr[k], Committed \cup {r})

Writes(r) ==
    \/ /\ \E nr : OwnRows(r, nr) /\ WriteStatement(r, nr, SeenOutbox(r))
       /\ UNCHANGED emitted
    \/ /\ WriteStatement(r, SeenRows(r), Append(SeenOutbox(r), <<r, emitted[r] + 1>>))
       /\ emitted' = [emitted EXCEPT ![r] = @ + 1]

Working(r) ==
    /\ UNCHANGED store
    /\ pc[r] \in {"idle"} \cup Running
    /\ \E s \in Running : pc' = [pc EXCEPT ![r] = s]
    /\ HeldRows(bound', touch', Committed)
    /\ \/ UNCHANGED <<conn, emitted>>
       \/ SelectStatement(r) /\ UNCHANGED emitted
       \/ WriteRefused(r) /\ UNCHANGED emitted
       \/ Writes(r)

(* What a statement of a run sees carries committed assignments and its own. *)
LEMMA SeenOwned ==
    ASSUME StoreInv, NEW r \in Runs
    PROVE  OwnRows(r, SeenRows(r))
<1>1. SeenRows(r) \in RowsType
  BY SeenType DEF StoreInv
<1>2. \A k \in Keys : MadeOf(SeenRows(r)[k], Committed \cup {r})
  BY DEF StoreInv, NothingDirty, SeenRows, MadeOf
<1> QED
  BY <1>1, <1>2 DEF OwnRows

(* Rows a run holds in memory are as clean before the step.                 *)
LEMMA HeldBefore ==
    ASSUME StoreInv
    PROVE  HeldRows(bound, touch, Committed)
BY DEF StoreInv, NothingDirty, HeldRows

(* Binding one more clean row keeps them clean.                             *)
LEMMA BoundClean ==
    ASSUME StoreInv, NEW r \in Runs, NEW k \in Keys, NEW row,
           MadeOf(row, Committed \cup {r}),
           bound' = [bound EXCEPT ![r][k] = row]
    PROVE  \A x \in Runs : \A j \in Keys : MadeOf(bound'[x][j], Committed \cup {x})
<1> bound \in [Runs -> RowsType]
  BY DEF StoreInv, TypeOK, DataType
<1> QED
  BY HeldBefore DEF HeldRows, RowsType

(* The same, when the step leaves the row _touch holds alone.               *)
LEMMA BindClean ==
    ASSUME StoreInv, NEW r \in Runs, NEW k \in Keys, NEW row,
           MadeOf(row, Committed \cup {r}),
           bound' = [bound EXCEPT ![r][k] = row], UNCHANGED touch
    PROVE  HeldRows(bound', touch', Committed)
BY HeldBefore, BoundClean DEF HeldRows

(* A step on a key is work.                                                 *)
LEMMA KeyStepWorks ==
    ASSUME StoreInv, NEW r \in Runs, NEW k \in Keys, KeyStep(r, k)
    PROVE  Working(r)
<1>0. OwnRows(r, SeenRows(r))
  BY SeenOwned
<1>h. HeldRows(bound, touch, Committed)
  BY HeldBefore
<1>t. bound \in [Runs -> RowsType] /\ pc \in [Runs -> {"idle"} \cup Running \cup Ended]
  BY DEF StoreInv, TypeOK, DataType, ControlType
<1>s. pc = [pc EXCEPT ![r] = pc[r]]
  BY <1>t
<1>1. CASE Read(r, k)
  <2>1. pc[r] \in {"idle"} \cup Running /\ UNCHANGED <<store, emitted>>
    BY <1>1 DEF Read, Executes, Running, audit
  <2>2. \E s \in Running : pc' = [pc EXCEPT ![r] = s]
    BY <1>1, <1>s DEF Read, Executes, Raises, Completes, Running
  <2>3. HeldRows(bound', touch', Committed)
    <3>1. CASE SeenRows(r)[k] = NoRow
      BY <1>1, <1>h, <3>1 DEF Read
    <3>2. CASE SeenRows(r)[k] # NoRow
      <4>1. MadeOf(SeenRows(r)[k], Committed \cup {r})
        BY <1>0 DEF OwnRows
      <4> QED
        BY <1>1, <3>2, <4>1, BindClean DEF Read
    <3> QED
      BY <3>1, <3>2
  <2> QED
    BY <1>1, <2>1, <2>2, <2>3 DEF Read, Working
<1>2. CASE SetLands(r, k) \/ SetConflicts(r, k) \/ SetRefused(r, k)
  <2> DEFINE row == [by |-> Assigned(r, k), ver |-> bound[r][k].ver + 1]
             held == [bound[r][k] EXCEPT !.by = Assigned(r, k)]
  <2>0. SetExecutes(r, k) /\ bound[r][k] \in Row /\ bound[r][k] # NoRow
    BY <1>2, <1>t DEF SetLands, SetConflicts, SetRefused, SetExecutes, RowsType
  <2>1. pc[r] \in {"idle"} \cup Running /\ UNCHANGED <<store, emitted, touch>>
    BY <2>0 DEF SetExecutes, Executes, Running
  <2>2. \E s \in Running : pc' = [pc EXCEPT ![r] = s]
    BY <1>2, <2>0, <1>s DEF SetLands, SetConflicts, SetRefused, SetExecutes, Executes,
                            Raises, Completes, Running
  <2>3. Assigned(r, k) \subseteq Committed \cup {r}
    BY <2>0, <1>h DEF HeldRows, MadeOf, Assigned
  <2>4. MadeOf(row, Committed \cup {r}) /\ row \in Row
    BY <2>0, <2>3 DEF MadeOf, Row, Assigned
  <2>5. MadeOf(held, Committed \cup {r})
    BY <2>0, <2>3 DEF MadeOf, Row
  <2>6. bound' = [bound EXCEPT ![r][k] = row] \/ bound' = [bound EXCEPT ![r][k] = held]
    BY <1>2, <1>t DEF SetLands, SetConflicts, SetRefused, RowsType
  <2>7. HeldRows(bound', touch', Committed)
    BY <2>1, <2>4, <2>5, <2>6, BindClean
  <2>8. OwnRows(r, [SeenRows(r) EXCEPT ![k] = row])
    BY <1>0, <2>4 DEF OwnRows, RowsType
  <2>9. Writes(r) \/ WriteRefused(r)
    BY <1>2, <1>0, <2>1, <2>8 DEF SetLands, SetConflicts, SetRefused, Writes
  <2> QED
    BY <2>1, <2>2, <2>7, <2>9 DEF Working
<1>3. CASE SetCreated(r, k)
  <2> DEFINE new == IF SeenRows(r)[k] = NoRow THEN SeenRows(r)
                    ELSE [SeenRows(r) EXCEPT ![k] = [by |-> {r}, ver |-> @.ver + 1]]
  <2>1. pc[r] \in {"idle"} \cup Running /\ UNCHANGED <<store, emitted, bound, touch>>
    BY <1>3 DEF SetCreated, Executes, Running, audit
  <2>2. \E s \in Running : pc' = [pc EXCEPT ![r] = s]
    BY <1>3, <1>s DEF SetCreated, Executes, Completes, Running
  <2>3. OwnRows(r, new)
    BY <1>0 DEF OwnRows, RowsType, MadeOf, Row
  <2>4. Writes(r)
    BY <1>3, <2>1, <2>3 DEF SetCreated, Writes
  <2> QED
    BY <2>1, <2>2, <2>4, <1>h DEF Working
<1>4. CASE CreateLands(r, k) \/ CreateConflicts(r, k) \/ CreateRefused(r, k)
  <2>1. pc[r] \in {"idle"} \cup Running /\ UNCHANGED <<store, emitted, bound, touch>>
    BY <1>4 DEF CreateLands, CreateConflicts, CreateRefused, CreateExecutes, Executes,
                Running, audit
  <2>2. \E s \in Running : pc' = [pc EXCEPT ![r] = s]
    BY <1>4, <1>s DEF CreateLands, CreateConflicts, CreateRefused, CreateExecutes,
                      Executes, Completes, RaisesForGood, Running
  <2>3. OwnRows(r, [SeenRows(r) EXCEPT ![k] = [by |-> {r}, ver |-> 1]])
    BY <1>0 DEF OwnRows, RowsType, MadeOf, Row
  <2>4. Writes(r) \/ WriteRefused(r)
    BY <1>4, <1>0, <2>1, <2>3 DEF CreateLands, CreateConflicts, CreateRefused, Writes
  <2> QED
    BY <2>1, <2>2, <2>4, <1>h DEF Working
<1>5. CASE TouchRead(r, k)
  <2>1. pc[r] \in {"idle"} \cup Running /\ UNCHANGED <<store, emitted, bound>>
    BY <1>5 DEF TouchRead, Executes, Running, audit
  <2>2. \E s \in Running : pc' = [pc EXCEPT ![r] = s]
    BY <1>5, <1>s DEF TouchRead, Executes, Running
  <2>3. HeldRows(bound', touch', Committed)
    <3>1. touch \in [Runs -> [key : Keys, row : Row \cup {NoRow}] \cup {NoTouch}]
      BY DEF StoreInv, TypeOK, DataType
    <3>2. MadeOf(SeenRows(r)[k], Committed \cup {r})
      BY <1>0 DEF OwnRows
    <3> QED
      BY <1>5, <1>h, <2>1, <3>1, <3>2 DEF TouchRead, HeldRows
  <2> QED
    BY <1>5, <2>1, <2>2, <2>3 DEF Working, TouchRead
<1>6. CASE DeleteLands(r, k) \/ DeleteMissing(r, k) \/ DeleteRefused(r, k)
  <2>1. pc[r] \in {"idle"} \cup Running /\ UNCHANGED <<store, emitted, bound, touch>>
    BY <1>6 DEF DeleteLands, DeleteMissing, DeleteRefused, DeleteExecutes, Executes,
                Running
  <2>2. \E s \in Running : pc' = [pc EXCEPT ![r] = s]
    BY <1>6, <1>s DEF DeleteLands, DeleteMissing, DeleteRefused, DeleteExecutes,
                      Executes, Completes, Raises, Running
  <2>3. OwnRows(r, [SeenRows(r) EXCEPT ![k] = NoRow])
    BY <1>0 DEF OwnRows, RowsType, MadeOf
  <2>4. Writes(r) \/ WriteRefused(r)
    BY <1>6, <1>0, <2>1, <2>3 DEF DeleteLands, DeleteMissing, DeleteRefused, Writes
  <2> QED
    BY <2>1, <2>2, <2>4, <1>h DEF Working
<1> QED
  BY <1>1, <1>2, <1>3, <1>4, <1>5, <1>6 DEF KeyStep

(* A run that ends without committing.                                      *)
Abandons(r) ==
    /\ pc[r] \in Running
    /\ UNCHANGED store
    /\ \E o \in {"rolledback", "crashed"} : EndRun(r, o)

(* Every other step is work, a commit, or the run is abandoned.             *)
LEMMA RunStepWorks ==
    ASSUME StoreInv, NEW r \in Runs, RunStep(r)
    PROVE  Working(r) \/ Commit(r) \/ Abandons(r)
<1>0. OwnRows(r, SeenRows(r))
  BY SeenOwned
<1>h. HeldRows(bound, touch, Committed)
  BY HeldBefore
<1>t. /\ bound \in [Runs -> RowsType]
      /\ pc \in [Runs -> {"idle"} \cup Running \cup Ended]
      /\ touch \in [Runs -> [key : Keys, row : Row \cup {NoRow}] \cup {NoTouch}]
  BY DEF StoreInv, TypeOK, DataType, ControlType
<1>s. pc = [pc EXCEPT ![r] = pc[r]]
  BY <1>t
<1>1. CASE Begin(r) \/ RetryStep(r)
  BY <1>1, <1>h DEF Begin, RetryStep, Working, Running, audit
<1>2. CASE Query(r)
  <2>1. \E s \in Running : pc' = [pc EXCEPT ![r] = s]
    BY <1>2, <1>s DEF Query, Executes, Running
  <2> QED
    BY <1>2, <1>h, <2>1 DEF Query, Executes, Working, Running, audit
<1>3. CASE TouchLands(r)
  <2> DEFINE k == touch[r].key
             row == [by |-> TouchedBy(r), ver |-> SeenRows(r)[k].ver + 1]
  <2>0. touch[r] \in [key : Keys, row : Row \cup {NoRow}] /\ k \in Keys
    BY <1>3, <1>t DEF TouchLands, Touching
  <2>1. /\ pc[r] \in {"idle"} \cup Running
        /\ UNCHANGED <<store, emitted>>
        /\ touch' = [touch EXCEPT ![r] = NoTouch]
        /\ SeenRows(r)[k] # NoRow
    BY <1>3 DEF TouchLands, Touching, Running, audit
  <2>2. \E s \in Running : pc' = [pc EXCEPT ![r] = s]
    BY <1>3, <1>s DEF TouchLands, Touching, Completes, Running
  <2>3. TouchedBy(r) \subseteq Committed \cup {r}
    BY <2>0, <1>h, <1>3 DEF TouchLands, Touching, HeldRows, MadeOf, TouchedBy
  <2>4. row \in Row /\ MadeOf(row, Committed \cup {r})
    BY <2>0, <2>1, <2>3, <1>0 DEF OwnRows, RowsType, Row, MadeOf, TouchedBy
  <2>5. OwnRows(r, [SeenRows(r) EXCEPT ![k] = row])
    BY <1>0, <2>0, <2>4 DEF OwnRows, RowsType
  <2>6. Writes(r)
    BY <1>3, <2>1, <2>5 DEF TouchLands, Writes
  <2>7. HeldRows(bound', touch', Committed)
    <3>1. \A x \in Runs : \A j \in Keys : MadeOf(bound'[x][j], Committed \cup {x})
      <4> DEFINE up == [bound[r][k] EXCEPT !.ver = @ + 1]
      <4>1. bound' = bound \/ (bound[r][k] # NoRow /\ bound' = [bound EXCEPT ![r][k] = up])
        <5>1. bound' = IF bound[r][k] = NoRow THEN bound
                       ELSE [bound EXCEPT ![r][k].ver = @ + 1]
          BY <1>3 DEF TouchLands
        <5> QED
          BY <5>1
      <4>2. bound[r][k] # NoRow => up.by = bound[r][k].by
        BY <1>t, <2>0 DEF RowsType, Row
      <4>3. bound[r][k] # NoRow => MadeOf(up, Committed \cup {r})
        BY <4>2, <1>h, <2>0 DEF HeldRows, MadeOf
      <4>4. CASE bound' = bound
        BY <4>4, <1>h DEF HeldRows
      <4>5. CASE bound[r][k] # NoRow /\ bound' = [bound EXCEPT ![r][k] = up]
        BY <4>5, <4>3, <2>0, BoundClean
      <4> QED
        BY <4>1, <4>4, <4>5
    <3>2. \A x \in Runs : touch'[x] # NoTouch => MadeOf(touch'[x].row, Committed \cup {x})
      BY <1>t, <1>h, <2>1 DEF HeldRows
    <3> QED
      BY <3>1, <3>2 DEF HeldRows
  <2> QED
    BY <2>1, <2>2, <2>6, <2>7 DEF Working
<1>4. CASE TouchMissing(r) \/ TouchRefused(r)
  <2>1. /\ pc[r] \in {"idle"} \cup Running
        /\ UNCHANGED <<store, emitted, bound>>
        /\ touch' = [touch EXCEPT ![r] = NoTouch]
    BY <1>4 DEF TouchMissing, TouchRefused, Touching, Running, audit
  <2>2. \E s \in Running : pc' = [pc EXCEPT ![r] = s]
    BY <1>4 DEF TouchMissing, TouchRefused, Raises, Running
  <2>3. Writes(r) \/ WriteRefused(r)
    BY <1>4, <1>0, <2>1 DEF TouchMissing, TouchRefused, Writes
  <2>4. HeldRows(bound', touch', Committed)
    BY <1>t, <1>h, <2>1 DEF HeldRows
  <2> QED
    BY <2>1, <2>2, <2>3, <2>4 DEF Working
<1>5. CASE EmitLands(r)
  <2>1. \E s \in Running : pc' = [pc EXCEPT ![r] = s]
    BY <1>5, <1>s DEF EmitLands, EmitExecutes, Executes, Running
  <2>2. Writes(r)
    BY <1>5 DEF EmitLands, Writes
  <2> QED
    BY <1>5, <1>h, <2>1, <2>2 DEF EmitLands, EmitExecutes, Executes, Working, Running
<1>6. CASE EmitRefused(r)
  BY <1>6, <1>h DEF EmitRefused, EmitExecutes, Executes, RaisesForGood, Working, Running
<1>7. CASE Commit(r)
  BY <1>7
<1>8. CASE Rollback(r) \/ Crash(r)
  BY <1>8 DEF Rollback, Crash, Abandons
<1> QED
  BY <1>1, <1>2, <1>3, <1>4, <1>5, <1>6, <1>7, <1>8 DEF RunStep

(* Appending the next emission keeps the outbox of its run complete.        *)
LEMMA AppendCarries ==
    ASSUME NEW o \in Seq(Emission), NEW r \in Runs, NEW n \in Nat,
           Carries(o, r, n)
    PROVE  Carries(Append(o, <<r, n + 1>>), r, n + 1)
<1> DEFINE p == Append(o, <<r, n + 1>>)
<1>1. /\ Len(p) = Len(o) + 1
      /\ \A i \in 1..Len(o) : p[i] = o[i]
      /\ p[Len(o) + 1] = <<r, n + 1>>
      /\ Len(o) \in Nat
  OBVIOUS
<1> HIDE DEF p
<1>2. \A i \in 1..Len(p) : i \in 1..Len(o) \/ i = Len(o) + 1
  BY <1>1
<1>3. \A i \in 1..Len(p) : p[i][1] = r => p[i][2] \in 1..(n + 1)
  BY <1>1, <1>2 DEF Carries
<1>4. \A m \in 1..(n + 1) : \E i \in 1..Len(p) : p[i] = <<r, m>>
  <2> SUFFICES ASSUME NEW m \in 1..(n + 1) PROVE \E i \in 1..Len(p) : p[i] = <<r, m>>
    OBVIOUS
  <2>1. CASE m = n + 1
    BY <1>1, <2>1
  <2>2. CASE m \in 1..n
    <3>1. PICK i \in 1..Len(o) : o[i] = <<r, m>>
      BY <2>2 DEF Carries
    <3>2. p[i] = <<r, m>> /\ i \in 1..Len(p)
      BY <1>1, <3>1
    <3> QED
      BY <3>2
  <2> QED
    BY <2>1, <2>2
<1>5. \A i, j \in 1..Len(p) :
         i < j /\ p[i][1] = r /\ p[j][1] = r => p[i][2] < p[j][2]
  BY SMTT(60), <1>1, <1>2 DEF Carries
<1> QED
  BY <1>3, <1>4, <1>5 DEF Carries, p

(* A run that gets a write through is the only writer, and what it saw     *)
(* before was the committed store or its own view of it.                    *)
LEMMA WriteAlone ==
    ASSUME StoreInv, NEW r \in Runs, CanWrite(r)
    PROVE  /\ \A x \in Runs \ {r} : sql[x] # "writing"
           /\ sql[r] # "writing" => SeenRows(r) = rows /\ SeenOutbox(r) = outbox
BY RepositoryAssumption
DEF StoreInv, WriterOnCurrent, SnapshotsHold, CanWrite, SeenRows, SeenOutbox, InView,
    TypeOK, ConnType

(* The outbox a writer starts from extends the committed one.               *)
LEMMA SeenFeed ==
    ASSUME StoreInv, NEW r \in Runs, CanWrite(r), pc[r] \in {"idle"} \cup Running
    PROVE  /\ SeenOutbox(r) \in Seq(Emission)
           /\ Len(outbox) <= Len(SeenOutbox(r))
           /\ \A i \in 1..Len(outbox) : SeenOutbox(r)[i] = outbox[i]
           /\ \A i \in (Len(outbox) + 1)..Len(SeenOutbox(r)) : SeenOutbox(r)[i][1] = r
           /\ Carries(SeenOutbox(r), r, emitted[r])
<1>1. SeenOutbox(r) \in Seq(Emission) /\ outbox \in Seq(Emission)
  BY SeenType DEF StoreInv, TypeOK, StoreType
<1>2. CASE sql[r] = "writing"
  BY <1>1, <1>2 DEF StoreInv, FeedExtends, SeenOutbox, InView
<1>3. CASE sql[r] # "writing"
  <2>1. SeenOutbox(r) = outbox
    BY <1>3, WriteAlone
  <2>2. r \notin Committed /\ emitted[r] = 0
    BY <1>3 DEF StoreInv, OpenWhileRunning, Committed, Running, Ended
  <2>3. Carries(outbox, r, 0)
    BY <2>2 DEF StoreInv, AllOrNothing
  <2> QED
    BY <1>1, <2>1, <2>2, <2>3
<1> QED
  BY <1>2, <1>3

(* Work preserves every part of the invariant.                              *)
LEMMA WorkingKeeps ==
    ASSUME StoreInv, NEW r \in Runs, Working(r)
    PROVE  /\ WriterOnCurrent' /\ OpenWhileRunning' /\ SnapshotsHold'
           /\ FeedExtends' /\ NothingDirty' /\ AllOrNothing'
<1>t. /\ sql \in [Runs -> {"none", "begun", "pinned", "writing"}]
      /\ vrows \in [Runs -> RowsType] /\ voutbox \in [Runs -> Seq(Emission)]
      /\ vgen \in [Runs -> Nat] /\ gen \in Nat /\ emitted \in [Runs -> Nat]
      /\ pc \in [Runs -> {"idle"} \cup Running \cup Ended]
      /\ outbox \in Seq(Emission)
  BY DEF StoreInv, TypeOK, StoreType, ConnType, ControlType, DataType
<1>1. /\ rows' = rows /\ outbox' = outbox /\ gen' = gen
      /\ pc[r] \in {"idle"} \cup Running
      /\ HeldRows(bound', touch', Committed)
  BY DEF Working, store
<1>2. PICK s \in Running : pc' = [pc EXCEPT ![r] = s]
  BY DEF Working
<1>3. Committed' = Committed /\ r \notin Committed
  BY <1>t, <1>1, <1>2 DEF Committed, Running
<1>4. \A x \in Runs : x \in Committed => emitted'[x] = emitted[x]
  BY <1>t, <1>3 DEF Working, Writes
<1>5. AllOrNothing'
  BY <1>1, <1>3, <1>4 DEF StoreInv, AllOrNothing
<1>6. CASE \/ UNCHANGED <<conn, emitted>>
           \/ SelectStatement(r) /\ UNCHANGED emitted
           \/ WriteRefused(r) /\ UNCHANGED emitted
  <2>1. \A x \in Runs : sql'[x] = "writing" <=> sql[x] = "writing"
    BY <1>t, <1>6 DEF conn, SelectStatement, WriteRefused
  <2>2. \A x \in Runs : sql[x] = "writing" =>
           vgen'[x] = vgen[x] /\ vrows'[x] = vrows[x] /\ voutbox'[x] = voutbox[x]
    BY <1>t, <1>6 DEF conn, SelectStatement, WriteRefused
  <2>3. lock' = lock /\ emitted' = emitted
    BY <1>6 DEF conn, SelectStatement, WriteRefused
  <2>4. WriterOnCurrent'
    BY <1>1, <2>1, <2>2, <2>3 DEF StoreInv, WriterOnCurrent
  <2>5. FeedExtends'
    BY <1>1, <2>1, <2>2, <2>3 DEF StoreInv, FeedExtends
  <2>6. OpenWhileRunning'
    <3> SUFFICES ASSUME NEW x \in Runs
                 PROVE  /\ sql'[x] # "none" => pc'[x] \in Running
                        /\ sql'[x] # "writing" /\ pc'[x] \notin Ended => emitted'[x] = 0
      BY DEF OpenWhileRunning
    <3>1. CASE x = r
      BY <1>1, <1>t, <1>2, <2>1, <2>3, <3>1
      DEF StoreInv, OpenWhileRunning, Running, Ended
    <3>2. CASE x # r
      BY <1>t, <1>2, <1>6, <2>1, <2>3, <3>2
      DEF StoreInv, OpenWhileRunning, conn, SelectStatement, WriteRefused
    <3> QED
      BY <3>1, <3>2
  <2>7. SnapshotsHold'
    <3> SUFFICES ASSUME NEW x \in Runs, sql'[x] = "pinned"
                 PROVE  /\ vgen'[x] <= gen'
                        /\ vgen'[x] = gen' => vrows'[x] = rows' /\ voutbox'[x] = outbox'
      BY DEF SnapshotsHold
    <3>1. \/ sql[x] = "pinned" /\ vgen'[x] = vgen[x]
             /\ vrows'[x] = vrows[x] /\ voutbox'[x] = voutbox[x]
          \/ vgen'[x] = gen /\ vrows'[x] = rows /\ voutbox'[x] = outbox
      BY <1>t, <1>6 DEF conn, SelectStatement, WriteRefused
    <3>2. sql[x] = "pinned" =>
             /\ vgen[x] <= gen
             /\ vgen[x] = gen => vrows[x] = rows /\ voutbox[x] = outbox
      BY DEF StoreInv, SnapshotsHold
    <3> QED
      BY <1>1, <1>t, <3>1, <3>2
  <2>8. NothingDirty'
    <3>1. \A x \in Runs : \A k \in Keys : MadeOf(vrows'[x][k], Committed \cup {x})
      <4>1. \A x \in Runs : vrows'[x] = vrows[x] \/ vrows'[x] = rows
        BY <1>t, <1>6 DEF conn, SelectStatement, WriteRefused
      <4>2. \A x \in Runs : \A k \in Keys : /\ MadeOf(vrows[x][k], Committed \cup {x})
                                          /\ MadeOf(rows[k], Committed)
        BY DEF StoreInv, NothingDirty
      <4> QED
        BY <4>1, <4>2 DEF MadeOf
    <3> QED
      BY <1>1, <1>3, <3>1 DEF StoreInv, NothingDirty, HeldRows
  <2> QED
    BY <1>5, <2>4, <2>5, <2>6, <2>7, <2>8
<1>7. CASE Writes(r)
  <2>0. PICK nr, no : /\ WriteStatement(r, nr, no)
                      /\ OwnRows(r, nr)
                      /\ \/ no = SeenOutbox(r) /\ emitted' = emitted
                         \/ /\ no = Append(SeenOutbox(r), <<r, emitted[r] + 1>>)
                            /\ emitted' = [emitted EXCEPT ![r] = @ + 1]
    BY <1>7, SeenOwned DEF Writes
  <2>1. CanWrite(r)
    BY <2>0 DEF WriteStatement
  <2>2. /\ lock' = r
        /\ sql' = [sql EXCEPT ![r] = "writing"]
        /\ vrows' = [vrows EXCEPT ![r] = nr]
        /\ voutbox' = [voutbox EXCEPT ![r] = no]
        /\ vgen' = [vgen EXCEPT ![r] = gen]
    BY <2>0 DEF WriteStatement
  <2>3. \A x \in Runs \ {r} : sql[x] # "writing"
    BY <2>1, WriteAlone
  <2>4. WriterOnCurrent'
    BY <1>t, <1>1, <2>2, <2>3 DEF WriterOnCurrent
  <2>5. OpenWhileRunning'
    BY <1>t, <1>2, <2>0, <2>2 DEF StoreInv, OpenWhileRunning
  <2>6. SnapshotsHold'
    BY <1>t, <1>1, <2>2 DEF StoreInv, SnapshotsHold
  <2>7. FeedExtends'
    <3>1. /\ Len(outbox) <= Len(no)
          /\ \A i \in 1..Len(outbox) : no[i] = outbox[i]
          /\ \A i \in (Len(outbox) + 1)..Len(no) : no[i][1] = r
          /\ Carries(no, r, emitted'[r])
      <4>1. CASE no = SeenOutbox(r) /\ emitted' = emitted
        BY <4>1, <1>1, <2>1, SeenFeed
      <4>2. CASE /\ no = Append(SeenOutbox(r), <<r, emitted[r] + 1>>)
                 /\ emitted' = [emitted EXCEPT ![r] = @ + 1]
        <5>1. emitted'[r] = emitted[r] + 1 /\ emitted[r] \in Nat
          BY <4>2, <1>t
        <5>2. Carries(no, r, emitted'[r])
          BY <4>2, <5>1, <1>1, <2>1, SeenFeed, AppendCarries
        <5>3. SeenOutbox(r) \in Seq(Emission) /\ Len(outbox) <= Len(SeenOutbox(r))
          BY <1>1, <2>1, SeenFeed
        <5>4. /\ Len(no) = Len(SeenOutbox(r)) + 1
              /\ \A i \in 1..Len(SeenOutbox(r)) : no[i] = SeenOutbox(r)[i]
              /\ no[Len(SeenOutbox(r)) + 1] = <<r, emitted[r] + 1>>
          BY <4>2, <5>3
        <5>5. Len(outbox) \in Nat /\ Len(SeenOutbox(r)) \in Nat
          BY <1>t, <5>3
        <5> QED
          BY <5>2, <5>3, <5>4, <5>5, <1>1, <2>1, SeenFeed
      <4> QED
        BY <2>0, <4>1, <4>2
    <3>2. voutbox'[r] = no
      BY <1>t, <2>2
    <3> QED
      BY <1>1, <1>t, <2>2, <2>3, <3>1, <3>2 DEF FeedExtends
  <2>8. NothingDirty'
    <3>1. \A x \in Runs : \A k \in Keys : MadeOf(vrows'[x][k], Committed \cup {x})
      BY <1>t, <2>0, <2>2 DEF StoreInv, NothingDirty, OwnRows
    <3> QED
      BY <1>1, <1>3, <3>1 DEF StoreInv, NothingDirty, HeldRows
  <2> QED
    BY <1>5, <2>4, <2>5, <2>6, <2>7, <2>8
<1> QED
  BY <1>6, <1>7 DEF Working

(* What the end of run r leaves of the other runs, and of r.                *)
LEMMA EndFacts ==
    ASSUME StoreInv, NEW r \in Runs, NEW o \in Ended, EndRun(r, o)
    PROVE  /\ pc' = [pc EXCEPT ![r] = o] /\ pc'[r] = o
           /\ sql'[r] = "none" /\ vrows'[r] = NoView /\ bound'[r] = NoView
           /\ touch'[r] = NoTouch /\ emitted' = emitted
           /\ \A x \in Runs \ {r} :
                /\ pc'[x] = pc[x] /\ sql'[x] = sql[x] /\ vrows'[x] = vrows[x]
                /\ voutbox'[x] = voutbox[x] /\ vgen'[x] = vgen[x]
                /\ bound'[x] = bound[x] /\ touch'[x] = touch[x]
                /\ lock = x => lock' = x
BY DEF StoreInv, TypeOK, ConnType, ControlType, DataType, EndRun

(* A run that is abandoned takes nothing with it.                           *)
LEMMA AbandonKeeps ==
    ASSUME StoreInv, NEW r \in Runs, Abandons(r)
    PROVE  /\ WriterOnCurrent' /\ OpenWhileRunning' /\ SnapshotsHold'
           /\ FeedExtends' /\ NothingDirty' /\ AllOrNothing'
<1>1. PICK o \in {"rolledback", "crashed"} : EndRun(r, o)
  BY DEF Abandons
<1>2. o \in Ended /\ o # "committed" /\ o \notin Running
  BY DEF Ended, Running
<1>3. rows' = rows /\ outbox' = outbox /\ gen' = gen /\ pc[r] \in Running
  BY DEF Abandons, store
<1>4. Committed' = Committed /\ r \notin Committed
  BY <1>1, <1>2, <1>3, EndFacts DEF Committed, Running
<1>5. WriterOnCurrent'
  BY <1>1, <1>2, <1>3, EndFacts DEF StoreInv, WriterOnCurrent
<1>6. OpenWhileRunning'
  BY <1>1, <1>2, EndFacts DEF StoreInv, OpenWhileRunning
<1>7. SnapshotsHold'
  BY <1>1, <1>2, <1>3, EndFacts DEF StoreInv, SnapshotsHold
<1>8. FeedExtends'
  BY <1>1, <1>2, <1>3, EndFacts DEF StoreInv, FeedExtends
<1>9. NothingDirty'
  <2>1. \A k \in Keys : NoView[k] = NoRow
    BY DEF NoView
  <2> QED
    BY <1>1, <1>2, <1>3, <1>4, <2>1, EndFacts DEF StoreInv, NothingDirty, MadeOf
<1>10. AllOrNothing'
  BY <1>1, <1>2, <1>3, <1>4, EndFacts DEF StoreInv, AllOrNothing
<1> QED
  BY <1>5, <1>6, <1>7, <1>8, <1>9, <1>10

(* A commit publishes the writer's view and makes it a committed run.       *)
LEMMA CommitKeeps ==
    ASSUME StoreInv, NEW r \in Runs, Commit(r)
    PROVE  /\ WriterOnCurrent' /\ OpenWhileRunning' /\ SnapshotsHold'
           /\ FeedExtends' /\ NothingDirty' /\ AllOrNothing'
<1>t. /\ gen \in Nat /\ outbox \in Seq(Emission)
      /\ voutbox \in [Runs -> Seq(Emission)] /\ vgen \in [Runs -> Nat]
      /\ pc \in [Runs -> {"idle"} \cup Running \cup Ended]
  BY DEF StoreInv, TypeOK, StoreType, ConnType, ControlType
<1>1. /\ EndRun(r, "committed") /\ "committed" \in Ended /\ "committed" \notin Running
      /\ pc[r] = "running"
  BY DEF Commit, Ended, Running
<1>2. Committed' = Committed \cup {r} /\ r \notin Committed
  BY <1>1, <1>t, EndFacts DEF Committed
<1>3. \A x \in Runs \ {r} : x \in Committed' <=> x \in Committed
  BY <1>2
<1>v. \A k \in Keys : NoView[k] = NoRow
  BY DEF NoView
<1>4. OpenWhileRunning'
  BY <1>1, EndFacts DEF StoreInv, OpenWhileRunning
<1>5. CASE sql[r] # "writing"
  <2>1. rows' = rows /\ outbox' = outbox /\ gen' = gen
    BY <1>5 DEF Commit, store
  <2>2. emitted[r] = 0
    BY <1>5, <1>1 DEF StoreInv, OpenWhileRunning, Ended
  <2>3. WriterOnCurrent'
    BY <1>1, <2>1, EndFacts DEF StoreInv, WriterOnCurrent
  <2>4. SnapshotsHold'
    BY <1>1, <2>1, EndFacts DEF StoreInv, SnapshotsHold
  <2>5. FeedExtends'
    BY <1>1, <2>1, EndFacts DEF StoreInv, FeedExtends
  <2>6. NothingDirty'
    BY <1>1, <1>2, <1>v, <2>1, EndFacts DEF StoreInv, NothingDirty, MadeOf
  <2>7. AllOrNothing'
    BY <1>1, <1>2, <2>1, <2>2, EndFacts DEF StoreInv, AllOrNothing
  <2> QED
    BY <1>4, <2>3, <2>4, <2>5, <2>6, <2>7
<1>6. CASE sql[r] = "writing"
  <2>1. rows' = vrows[r] /\ outbox' = voutbox[r] /\ gen' = gen + 1
    BY <1>6 DEF Commit
  <2>2. \A x \in Runs \ {r} : sql[x] # "writing"
    BY <1>6 DEF StoreInv, WriterOnCurrent
  <2>3. WriterOnCurrent' /\ FeedExtends'
    BY <1>1, <2>2, EndFacts DEF WriterOnCurrent, FeedExtends
  <2>4. SnapshotsHold'
    <3> SUFFICES ASSUME NEW x \in Runs, sql'[x] = "pinned"
                 PROVE  vgen'[x] <= gen' /\ vgen'[x] # gen'
      BY DEF SnapshotsHold
    <3>1. x # r /\ sql[x] = "pinned" /\ vgen'[x] = vgen[x]
      BY <1>1, EndFacts
    <3>2. vgen[x] <= gen /\ vgen[x] \in Nat
      BY <1>t, <3>1 DEF StoreInv, SnapshotsHold
    <3> QED
      BY <1>t, <2>1, <3>1, <3>2
  <2>5. NothingDirty'
    <3>1. \A k \in Keys : MadeOf(rows'[k], Committed')
      BY <1>2, <2>1 DEF StoreInv, NothingDirty
    <3>2. \A x \in Runs : \A k \in Keys : /\ MadeOf(vrows'[x][k], Committed' \cup {x})
                                          /\ MadeOf(bound'[x][k], Committed' \cup {x})
      BY <1>1, <1>2, <1>v, EndFacts DEF StoreInv, NothingDirty, MadeOf
    <3>3. \A x \in Runs : touch'[x] # NoTouch => MadeOf(touch'[x].row, Committed' \cup {x})
      BY <1>1, <1>2, EndFacts DEF StoreInv, NothingDirty, MadeOf
    <3> QED
      BY <3>1, <3>2, <3>3 DEF NothingDirty
  <2>6. AllOrNothing'
    <3> SUFFICES ASSUME NEW x \in Runs
                 PROVE  /\ Carries(outbox', x,
                                   IF x \in Committed' THEN emitted'[x] ELSE 0)
                        /\ x \notin Committed' =>
                             \A k \in Keys : rows'[k] # NoRow => x \notin rows'[k].by
      BY DEF AllOrNothing
    <3>1. CASE x = r
      BY <1>1, <1>2, <1>6, <2>1, <3>1, EndFacts DEF StoreInv, FeedExtends
    <3>2. CASE x # r
      <4> DEFINE n == IF x \in Committed THEN emitted[x] ELSE 0
      <4>1. Carries(outbox, x, n)
        BY DEF StoreInv, AllOrNothing
      <4>2. /\ Len(outbox) <= Len(outbox') /\ Len(outbox) \in Nat /\ Len(outbox') \in Nat
            /\ \A i \in 1..Len(outbox) : outbox'[i] = outbox[i]
            /\ \A i \in (Len(outbox) + 1)..Len(outbox') : outbox'[i][1] # x
        BY <1>6, <1>t, <2>1, <3>2 DEF StoreInv, FeedExtends
      <4>3. \A i \in 1..Len(outbox') : outbox'[i][1] = x => i \in 1..Len(outbox)
        BY <4>2
      <4>4. \A i \in 1..Len(outbox') : outbox'[i][1] = x => outbox'[i][2] \in 1..n
        BY <4>1, <4>2, <4>3 DEF Carries
      <4>5. \A m \in 1..n : \E i \in 1..Len(outbox') : outbox'[i] = <<x, m>>
        <5> SUFFICES ASSUME NEW m \in 1..n
                     PROVE  \E i \in 1..Len(outbox') : outbox'[i] = <<x, m>>
          OBVIOUS
        <5>1. PICK i \in 1..Len(outbox) : outbox[i] = <<x, m>>
          BY <4>1 DEF Carries
        <5> QED
          BY <4>2, <5>1
      <4>6. \A i, j \in 1..Len(outbox') :
               i < j /\ outbox'[i][1] = x /\ outbox'[j][1] = x
                 => outbox'[i][2] < outbox'[j][2]
        BY <4>1, <4>2, <4>3 DEF Carries
      <4>7. Carries(outbox', x, n)
        BY <4>4, <4>5, <4>6 DEF Carries
      <4>8. n = IF x \in Committed' THEN emitted'[x] ELSE 0
        BY <1>1, <1>3, <3>2, EndFacts
      <4>9. x \notin Committed' =>
              \A k \in Keys : rows'[k] # NoRow => x \notin rows'[k].by
        BY <1>2, <2>1, <3>2 DEF StoreInv, NothingDirty, MadeOf
      <4> QED
        BY <4>7, <4>8, <4>9
    <3> QED
      BY <3>1, <3>2
  <2> QED
    BY <1>4, <2>3, <2>4, <2>5, <2>6
<1> QED
  BY <1>5, <1>6

(* The initial store satisfies the invariant.                               *)
LEMMA InitStoreInv == Init => StoreInv
<1> SUFFICES ASSUME Init PROVE StoreInv
  OBVIOUS
<1>1. TypeOK
  BY RepositoryAssumption
  DEF Init, TypeOK, StoreType, ConnType, ControlType, DataType, RowsType, Row, NoView
<1>2. WriterOnCurrent /\ OpenWhileRunning /\ SnapshotsHold /\ FeedExtends
  BY DEF Init, WriterOnCurrent, OpenWhileRunning, SnapshotsHold, FeedExtends
<1>3. NothingDirty
  BY DEF Init, NothingDirty, MadeOf, NoView
<1>4. AllOrNothing
  <2>1. Committed = {}
    BY DEF Init, Committed
  <2>2. \A r \in Runs : Carries(outbox, r, 0)
    <3>1. outbox = <<>> /\ Len(outbox) = 0
      BY DEF Init
    <3>2. 1..Len(outbox) = {} /\ 1..0 = {}
      BY <3>1
    <3> QED
      BY <3>2 DEF Carries
  <2> QED
    BY <2>1, <2>2 DEF Init, AllOrNothing
<1> QED
  BY <1>1, <1>2, <1>3, <1>4 DEF StoreInv

(* Every step preserves it.                                                 *)
LEMMA NextStoreInv ==
    ASSUME StoreInv, [Next]_vars
    PROVE  StoreInv'
<1>0. TypeOK
  BY DEF StoreInv
<1>1. CASE \E r \in Runs : RunStep(r)
  <2>1. PICK r \in Runs : RunStep(r)
    BY <1>1
  <2>2. TypeOK'
    BY <1>0, <2>1, RunStepType
  <2>3. Working(r) \/ Commit(r) \/ Abandons(r)
    BY <2>1, RunStepWorks
  <2> QED
    BY <2>2, <2>3, WorkingKeeps, CommitKeeps, AbandonKeeps DEF StoreInv
<1>2. CASE \E r \in Runs : \E k \in Keys : KeyStep(r, k)
  <2>1. PICK r \in Runs, k \in Keys : KeyStep(r, k)
    BY <1>2
  <2>2. TypeOK'
    BY <1>0, <2>1, KeyStepType
  <2>3. Working(r)
    BY <2>1, KeyStepWorks
  <2> QED
    BY <2>2, <2>3, WorkingKeeps DEF StoreInv
<1>3. CASE UNCHANGED vars
  BY <1>3 DEF vars, store, conn, audit, StoreInv, TypeOK, StoreType, ConnType,
     ControlType, DataType, WriterOnCurrent, OpenWhileRunning, SnapshotsHold,
     FeedExtends, NothingDirty, AllOrNothing, Committed
<1> QED
  BY <1>1, <1>2, <1>3 DEF Next, AllEnded

(* The inductive invariant holds of every behaviour.                        *)
THEOREM StoreInvariant == Spec => []StoreInv
BY InitStoreInv, NextStoreInv, PTL DEF Spec

(* One transaction per execution: a run's rows and outbox entries become   *)
(* visible all together or not at all, whatever crashes or fails.           *)
THEOREM AtomicRuns == Spec => []AllOrNothing
BY StoreInvariant, PTL DEF StoreInv

-----------------------------------------------------------------------------
(* What was committed has landed                                            *)

-----------------------------------------------------------------------------
(* What a committed run assigned is in the store.                           *)

(* A set that was attempted is owed, or in the run's own view.              *)
LandedOn(r, k) ==
    \/ <<"set", k>> \in owed[r]
    \/ /\ sql[r] = "writing"
       /\ IF vrows[r][k] = NoRow THEN k \in deleted[r] ELSE r \in vrows[r][k].by

SetsLanded(r) ==
    /\ \A k \in assigned[r] : LandedOn(r, k)
    /\ \A k \in made[r] : sql[r] = "writing" /\ (vrows[r][k] # NoRow \/ k \in deleted[r])
    /\ touch[r] # NoTouch /\ InView(r) => touch[r].row = vrows[r][touch[r].key]

LandInv == \A r \in Runs : SetsLanded(r)

(* What a run knows of itself changes with its own steps only.              *)
Own(r) == <<owed[r], sql[r], vrows[r], deleted[r], assigned[r], made[r], touch[r]>>

LEMMA OthersLanded ==
    ASSUME NEW x \in Runs, SetsLanded(x), UNCHANGED Own(x)
    PROVE  SetsLanded(x)'
BY DEF SetsLanded, LandedOn, InView, Own

(* A write that gets through goes on from what the run saw.                 *)
LEMMA WriteView ==
    ASSUME TypeOK, NEW r \in Runs, NEW nr, NEW no, WriteStatement(r, nr, no)
    PROVE  /\ sql'[r] = "writing" /\ vrows'[r] = nr
           /\ \A x \in Runs \ {r} : sql'[x] = sql[x] /\ vrows'[x] = vrows[x]
           /\ sql[r] = "writing" => SeenRows(r) = vrows[r]
           /\ InView(r) => SeenRows(r) = vrows[r]
BY DEF TypeOK, ConnType, WriteStatement, SeenRows, InView

LEMMA RefusedView ==
    ASSUME TypeOK, NEW r \in Runs, WriteRefused(r)
    PROVE  /\ sql[r] # "writing" /\ sql'[r] # "writing"
           /\ \A x \in Runs \ {r} : sql'[x] = sql[x]
           /\ UNCHANGED vrows
BY DEF TypeOK, ConnType, WriteRefused, CanWrite

LEMMA SelectView ==
    ASSUME TypeOK, NEW r \in Runs, SelectStatement(r)
    PROVE  /\ sql'[r] = "writing" <=> sql[r] = "writing"
           /\ InView(r)' /\ InView(r) => vrows'[r] = vrows[r]
           /\ InView(r)' => vrows'[r] = SeenRows(r)
           /\ sql[r] = "writing" => vrows'[r] = vrows[r]
           /\ \A x \in Runs \ {r} : sql'[x] = sql[x] /\ vrows'[x] = vrows[x]
BY DEF TypeOK, ConnType, SelectStatement, SeenRows, InView, conn

(* A step that assigns nothing, and leaves every row it does not delete     *)
(* with the assignments it had.                                             *)
LEMMA PlainLands ==
    ASSUME NEW r \in Runs, SetsLanded(r), touch'[r] = NoTouch,
           assigned'[r] = assigned[r], made'[r] = made[r],
           deleted[r] \subseteq deleted'[r],
           \A k \in Keys : <<"set", k>> \in owed[r] => <<"set", k>> \in owed'[r],
           assigned[r] \subseteq Keys, made[r] \subseteq Keys,
           sql[r] = "writing" => sql'[r] = "writing",
           sql[r] = "writing" =>
             \A k \in Keys :
               /\ vrows'[r][k] = NoRow => vrows[r][k] = NoRow \/ k \in deleted'[r]
               /\ vrows'[r][k] # NoRow /\ vrows[r][k] # NoRow /\ r \in vrows[r][k].by =>
                    r \in vrows'[r][k].by
               /\ vrows'[r][k] # NoRow /\ vrows[r][k] = NoRow => r \in vrows'[r][k].by
    PROVE  SetsLanded(r)'
<1>1. ASSUME NEW k \in assigned[r] PROVE LandedOn(r, k)'
  BY <1>1 DEF SetsLanded, LandedOn
<1>2. ASSUME NEW k \in made[r]
      PROVE  sql'[r] = "writing" /\ (vrows'[r][k] # NoRow \/ k \in deleted'[r])
  BY <1>2 DEF SetsLanded
<1> QED
  BY <1>1, <1>2 DEF SetsLanded

LEMMA KeyStepLands ==
    ASSUME TypeOK, LandInv, NEW r \in Runs, NEW k \in Keys, KeyStep(r, k)
    PROVE  /\ SetsLanded(r)'
           /\ \A x \in Runs \ {r} : UNCHANGED Own(x)
<1>0. /\ owed \in [Runs -> SUBSET (AllOps \X Keys)]
      /\ assigned \in [Runs -> SUBSET Keys] /\ deleted \in [Runs -> SUBSET Keys]
      /\ made \in [Runs -> SUBSET Keys]
      /\ touch \in [Runs -> [key : Keys, row : Row \cup {NoRow}] \cup {NoTouch}]
      /\ vrows \in [Runs -> RowsType] /\ bound \in [Runs -> RowsType]
  BY DEF TypeOK, ControlType, DataType, ConnType
<1>1. SetsLanded(r)
  BY DEF LandInv
<1>2. SeenRows(r) \in RowsType
  BY SeenType
<1>3. CASE Read(r, k)
  <2>1. /\ SelectStatement(r) /\ touch[r] = NoTouch
        /\ UNCHANGED <<made, touch, assigned, deleted>>
        /\ \E S \in {owed[r] \ {<<"read", k>>}, owed[r] \cup {<<"read", k>>}} :
             owed' = [owed EXCEPT ![r] = S]
    BY <1>3 DEF Read, Executes, Raises, Completes, audit
  <2>2. \A j \in Keys : <<"set", j>> \in owed[r] => <<"set", j>> \in owed'[r]
    BY <1>0, <2>1
  <2>3. SetsLanded(r)'
    BY <1>0, <1>1, <2>1, <2>2, SelectView, PlainLands
  <2> QED
    BY <1>0, <2>1, <2>3, SelectView DEF Own
<1>4. CASE SetLands(r, k)
  <2> DEFINE row == [by |-> Assigned(r, k), ver |-> bound[r][k].ver + 1]
             nr == [SeenRows(r) EXCEPT ![k] = row]
  <2>1. /\ WriteStatement(r, nr, SeenOutbox(r)) /\ touch[r] = NoTouch
        /\ UNCHANGED <<made, touch, deleted>>
        /\ assigned' = [assigned EXCEPT ![r] = @ \cup {k}]
        /\ owed' = [owed EXCEPT ![r] = @ \ {<<"set", k>>}]
        /\ bound[r][k] # NoRow
    BY <1>4 DEF SetLands, SetExecutes, Executes, Completes
  <2>2. row \in Row /\ r \in row.by /\ row # NoRow
    BY <1>0, <2>1, RepositoryAssumption DEF RowsType, Row, Assigned
  <2> HIDE DEF row
  <2>3. nr[k] = row /\ \A j \in Keys \ {k} : nr[j] = SeenRows(r)[j]
    BY <1>2 DEF RowsType
  <2> HIDE DEF nr
  <2>4. sql'[r] = "writing" /\ vrows'[r] = nr /\ (sql[r] = "writing" => SeenRows(r) = vrows[r])
    BY <2>1, WriteView
  <2>5. LandedOn(r, k)'
    BY <2>2, <2>3, <2>4 DEF LandedOn
  <2>6. ASSUME NEW j \in assigned[r], j # k PROVE LandedOn(r, j)'
    <3>1. LandedOn(r, j) /\ j \in Keys
      BY <1>0, <1>1 DEF SetsLanded
    <3>2. <<"set", j>> \in owed[r] => <<"set", j>> \in owed'[r]
      BY <1>0, <2>1, <2>6
    <3>3. sql[r] = "writing" => vrows'[r][j] = vrows[r][j]
      BY <2>3, <2>4, <2>6, <3>1
    <3> QED
      BY <2>1, <2>4, <3>1, <3>2, <3>3 DEF LandedOn
  <2>7. ASSUME NEW j \in made[r]
        PROVE  vrows'[r][j] # NoRow \/ j \in deleted[r]
    <3>1. j \in Keys /\ sql[r] = "writing" /\ (vrows[r][j] # NoRow \/ j \in deleted[r])
      BY <1>0, <1>1 DEF SetsLanded
    <3> QED
      BY <2>2, <2>3, <2>4, <3>1
  <2>8. assigned'[r] = assigned[r] \cup {k}
    BY <1>0, <2>1
  <2>9. SetsLanded(r)'
    BY <2>1, <2>4, <2>5, <2>6, <2>7, <2>8 DEF SetsLanded
  <2> QED
    BY <1>0, <2>1, <2>9, WriteView DEF Own
<1>5. CASE SetConflicts(r, k) \/ SetRefused(r, k)
  <2>1. /\ touch[r] = NoTouch /\ UNCHANGED <<made, touch, deleted>>
        /\ assigned' = [assigned EXCEPT ![r] = @ \cup {k}]
        /\ owed' = [owed EXCEPT ![r] = @ \cup {<<"set", k>>}]
        /\ WriteStatement(r, SeenRows(r), SeenOutbox(r)) \/ WriteRefused(r)
    BY <1>5 DEF SetConflicts, SetRefused, SetExecutes, Executes, Raises
  <2>2. /\ assigned'[r] = assigned[r] \cup {k} /\ owed[r] \subseteq owed'[r]
        /\ <<"set", k>> \in owed'[r]
    BY <1>0, <2>1
  <2>3. sql[r] = "writing" => sql'[r] = "writing" /\ vrows'[r] = vrows[r]
    BY <2>1, WriteView, RefusedView
  <2>4. \A x \in Runs \ {r} : sql'[x] = sql[x] /\ vrows'[x] = vrows[x]
    BY <2>1, WriteView, RefusedView
  <2>5. SetsLanded(r)'
    BY <1>1, <2>1, <2>2, <2>3 DEF SetsLanded, LandedOn
  <2> QED
    BY <1>0, <2>1, <2>4, <2>5 DEF Own
<1>6. CASE SetCreated(r, k)
  <2> DEFINE new == IF SeenRows(r)[k] = NoRow THEN SeenRows(r)
                    ELSE [SeenRows(r) EXCEPT ![k] = [by |-> {r}, ver |-> @.ver + 1]]
  <2>1. /\ WriteStatement(r, new, SeenOutbox(r)) /\ touch[r] = NoTouch /\ k \in made[r]
        /\ UNCHANGED <<made, touch, deleted, assigned>>
        /\ owed' = [owed EXCEPT ![r] = @ \ {<<"set", k>>}]
    BY <1>6 DEF SetCreated, Executes, Completes, audit
  <2>2. sql[r] = "writing" /\ (vrows[r][k] # NoRow \/ k \in deleted[r])
        /\ SeenRows(r) = vrows[r]
    BY <1>1, <2>1 DEF SetsLanded, SeenRows, InView
  <2>3. /\ new[k] = NoRow => vrows[r][k] = NoRow
        /\ new[k] # NoRow => r \in new[k].by
        /\ \A j \in Keys \ {k} : new[j] = vrows[r][j]
    <3>1. CASE SeenRows(r)[k] = NoRow
      BY <2>2, <3>1
    <3>2. CASE SeenRows(r)[k] # NoRow
      <4>1. new[k] = [by |-> {r}, ver |-> SeenRows(r)[k].ver + 1]
        BY <1>2, <3>2 DEF RowsType
      <4>2. new[k] \in Row
        <5>1. SeenRows(r)[k] \in Row
          BY <1>2, <3>2 DEF RowsType
        <5> QED
          BY <4>1, <5>1 DEF Row
      <4> QED
        BY <1>2, <2>2, <3>2, <4>1, <4>2, RepositoryAssumption DEF RowsType
    <3> QED
      BY <3>1, <3>2
  <2> HIDE DEF new
  <2>4. sql'[r] = "writing" /\ vrows'[r] = new
    BY <2>1, WriteView
  <2>5. LandedOn(r, k)'
    BY <2>1, <2>2, <2>3, <2>4 DEF LandedOn
  <2>6. ASSUME NEW j \in assigned[r], j # k PROVE LandedOn(r, j)'
    <3>1. LandedOn(r, j) /\ j \in Keys
      BY <1>0, <1>1 DEF SetsLanded
    <3>2. <<"set", j>> \in owed[r] => <<"set", j>> \in owed'[r]
      BY <1>0, <2>1, <2>6
    <3> QED
      BY <2>1, <2>3, <2>4, <2>6, <3>1, <3>2 DEF LandedOn
  <2>7. ASSUME NEW j \in made[r] PROVE vrows'[r][j] # NoRow \/ j \in deleted[r]
    <3>1. j \in Keys /\ (vrows[r][j] # NoRow \/ j \in deleted[r])
      BY <1>0, <1>1 DEF SetsLanded
    <3> QED
      BY <2>3, <2>4, <3>1
  <2>8. SetsLanded(r)'
    BY <2>1, <2>4, <2>5, <2>6, <2>7 DEF SetsLanded
  <2> QED
    BY <1>0, <2>1, <2>8, WriteView DEF Own
<1>7. CASE CreateLands(r, k)
  <2> DEFINE row == [by |-> {r}, ver |-> 1]
             nr == [SeenRows(r) EXCEPT ![k] = row]
  <2>1. /\ WriteStatement(r, nr, SeenOutbox(r)) /\ touch[r] = NoTouch
        /\ UNCHANGED <<touch, deleted, assigned>>
        /\ made' = [made EXCEPT ![r] = @ \cup {k}]
        /\ owed' = [owed EXCEPT ![r] = @ \ {<<"create", k>>}]
    BY <1>7 DEF CreateLands, CreateExecutes, Executes, Completes, audit
  <2>2. row \in Row /\ r \in row.by /\ row # NoRow
    BY RepositoryAssumption DEF Row
  <2> HIDE DEF row
  <2>3. nr[k] = row /\ \A j \in Keys \ {k} : nr[j] = SeenRows(r)[j]
    BY <1>2 DEF RowsType
  <2> HIDE DEF nr
  <2>4. sql'[r] = "writing" /\ vrows'[r] = nr /\ (sql[r] = "writing" => SeenRows(r) = vrows[r])
    BY <2>1, WriteView
  <2>5. ASSUME NEW j \in assigned[r] PROVE LandedOn(r, j)'
    <3>1. LandedOn(r, j) /\ j \in Keys
      BY <1>0, <1>1 DEF SetsLanded
    <3>2. <<"set", j>> \in owed[r] => <<"set", j>> \in owed'[r]
      BY <1>0, <2>1
    <3> QED
      BY <2>1, <2>2, <2>3, <2>4, <3>1, <3>2 DEF LandedOn
  <2>6. ASSUME NEW j \in made[r] \cup {k} PROVE vrows'[r][j] # NoRow \/ j \in deleted[r]
    <3>1. j # k => j \in Keys /\ sql[r] = "writing" /\ (vrows[r][j] # NoRow \/ j \in deleted[r])
      BY <1>0, <1>1 DEF SetsLanded
    <3> QED
      BY <2>2, <2>3, <2>4, <3>1
  <2>7. made'[r] = made[r] \cup {k}
    BY <1>0, <2>1
  <2>8. SetsLanded(r)'
    BY <2>1, <2>4, <2>5, <2>6, <2>7 DEF SetsLanded
  <2> QED
    BY <1>0, <2>1, <2>8, WriteView DEF Own
<1>8. CASE CreateConflicts(r, k) \/ CreateRefused(r, k)
  <2>1. /\ touch[r] = NoTouch /\ UNCHANGED <<made, touch, deleted, assigned, owed>>
        /\ WriteStatement(r, SeenRows(r), SeenOutbox(r)) \/ WriteRefused(r)
    BY <1>8 DEF CreateConflicts, CreateRefused, CreateExecutes, Executes,
        RaisesForGood, audit
  <2>2. sql[r] = "writing" => sql'[r] = "writing" /\ vrows'[r] = vrows[r]
    BY <2>1, WriteView, RefusedView
  <2>3. \A x \in Runs \ {r} : sql'[x] = sql[x] /\ vrows'[x] = vrows[x]
    BY <2>1, WriteView, RefusedView
  <2>4. SetsLanded(r)'
    BY <1>1, <2>1, <2>2 DEF SetsLanded, LandedOn
  <2> QED
    BY <2>1, <2>3, <2>4 DEF Own
<1>9. CASE TouchRead(r, k)
  <2>1. /\ SelectStatement(r) /\ touch[r] = NoTouch
        /\ touch' = [touch EXCEPT ![r] = [key |-> k, row |-> SeenRows(r)[k]]]
        /\ UNCHANGED <<made, assigned, deleted, owed>>
    BY <1>9 DEF TouchRead, Executes, audit
  <2>2. touch'[r] = [key |-> k, row |-> SeenRows(r)[k]]
    BY <1>0, <2>1
  <2>3. InView(r)' => touch'[r].row = vrows'[r][touch'[r].key]
    BY <2>1, <2>2, SelectView
  <2>4. SetsLanded(r)'
    BY <1>1, <2>1, <2>3, SelectView DEF SetsLanded, LandedOn
  <2> QED
    BY <1>0, <2>1, <2>4, SelectView DEF Own
<1>10. CASE DeleteLands(r, k)
  <2> DEFINE nr == [SeenRows(r) EXCEPT ![k] = NoRow]
  <2>1. /\ WriteStatement(r, nr, SeenOutbox(r)) /\ touch[r] = NoTouch
        /\ UNCHANGED <<touch, made, assigned>>
        /\ deleted' = [deleted EXCEPT ![r] = @ \cup {k}]
        /\ owed' = [owed EXCEPT ![r] = @ \ {<<"delete", k>>}]
    BY <1>10 DEF DeleteLands, DeleteExecutes, Executes, Completes
  <2>2. nr[k] = NoRow /\ \A j \in Keys \ {k} : nr[j] = SeenRows(r)[j]
    BY <1>2 DEF RowsType
  <2> HIDE DEF nr
  <2>3. sql'[r] = "writing" /\ vrows'[r] = nr /\ (sql[r] = "writing" => SeenRows(r) = vrows[r])
    BY <2>1, WriteView
  <2>4. deleted'[r] = deleted[r] \cup {k}
        /\ \A j \in Keys : <<"set", j>> \in owed[r] => <<"set", j>> \in owed'[r]
    BY <1>0, <2>1
  <2>5. SetsLanded(r)'
    <3>1. \A j \in Keys : sql[r] = "writing" /\ j # k => vrows'[r][j] = vrows[r][j]
      BY <2>2, <2>3
    <3>2. vrows'[r][k] = NoRow /\ k \in deleted'[r] /\ deleted[r] \subseteq deleted'[r]
      BY <2>2, <2>3, <2>4
    <3>3. assigned[r] \subseteq Keys /\ made[r] \subseteq Keys
      BY <1>0
    <3> QED
      BY <1>1, <2>1, <2>3, <2>4, <3>1, <3>2, <3>3, PlainLands
  <2> QED
    BY <1>0, <2>1, <2>5, WriteView DEF Own
<1>11. CASE DeleteMissing(r, k) \/ DeleteRefused(r, k)
  <2>1. /\ touch[r] = NoTouch /\ UNCHANGED <<touch, made, assigned>>
        /\ deleted' = [deleted EXCEPT ![r] = @ \cup {k}]
        /\ owed' = [owed EXCEPT ![r] = @ \cup {<<"delete", k>>}]
        /\ WriteStatement(r, SeenRows(r), SeenOutbox(r)) \/ WriteRefused(r)
    BY <1>11 DEF DeleteMissing, DeleteRefused, DeleteExecutes, Executes, Raises
  <2>2. deleted[r] \subseteq deleted'[r] /\ owed[r] \subseteq owed'[r]
    BY <1>0, <2>1
  <2>3. sql[r] = "writing" => sql'[r] = "writing" /\ vrows'[r] = vrows[r]
    BY <2>1, WriteView, RefusedView
  <2>4. \A x \in Runs \ {r} : sql'[x] = sql[x] /\ vrows'[x] = vrows[x]
    BY <2>1, WriteView, RefusedView
  <2>5. SetsLanded(r)'
    BY <1>1, <2>1, <2>2, <2>3 DEF SetsLanded, LandedOn
  <2> QED
    BY <1>0, <2>1, <2>4, <2>5 DEF Own
<1> QED
  BY <1>3, <1>4, <1>5, <1>6, <1>7, <1>8, <1>9, <1>10, <1>11 DEF KeyStep

LEMMA RunStepLands ==
    ASSUME TypeOK, LandInv, NEW r \in Runs, RunStep(r)
    PROVE  /\ SetsLanded(r)'
           /\ \A x \in Runs \ {r} : UNCHANGED Own(x)
<1>0. /\ owed \in [Runs -> SUBSET (AllOps \X Keys)]
      /\ assigned \in [Runs -> SUBSET Keys] /\ deleted \in [Runs -> SUBSET Keys]
      /\ made \in [Runs -> SUBSET Keys]
      /\ touch \in [Runs -> [key : Keys, row : Row \cup {NoRow}] \cup {NoTouch}]
      /\ vrows \in [Runs -> RowsType]
  BY DEF TypeOK, ControlType, DataType, ConnType
<1>1. SetsLanded(r)
  BY DEF LandInv
<1>2. SeenRows(r) \in RowsType
  BY SeenType
<1>3. CASE Begin(r) \/ RetryStep(r)
  BY <1>1, <1>3, OthersLanded DEF Begin, RetryStep, Own, audit, conn
<1>4. CASE Query(r)
  <2>1. SelectStatement(r) /\ touch[r] = NoTouch
        /\ UNCHANGED <<made, touch, assigned, deleted, owed>>
    BY <1>4 DEF Query, Executes, audit
  <2>2. SetsLanded(r)'
    BY <1>1, <2>1, SelectView DEF SetsLanded, LandedOn
  <2> QED
    BY <2>1, <2>2, SelectView DEF Own
<1>5. CASE TouchLands(r)
  <2> DEFINE k == touch[r].key
             row == [by |-> TouchedBy(r), ver |-> SeenRows(r)[k].ver + 1]
             nr == [SeenRows(r) EXCEPT ![k] = row]
  <2>1. /\ WriteStatement(r, nr, SeenOutbox(r)) /\ touch[r] # NoTouch
        /\ SeenRows(r)[k] # NoRow
        /\ touch' = [touch EXCEPT ![r] = NoTouch]
        /\ UNCHANGED <<made, assigned, deleted>>
        /\ owed' = [owed EXCEPT ![r] = @ \ {<<"update", k>>}]
    BY <1>5 DEF TouchLands, Touching, Completes, audit
  <2>2. k \in Keys /\ touch[r].row \in Row \cup {NoRow}
    BY <1>0, <2>1
  <2>3. SeenRows(r)[k] \in Row
    BY <1>2, <2>1, <2>2 DEF RowsType
  <2>4. row \in Row /\ row # NoRow /\ row.by = TouchedBy(r)
    BY <2>2, <2>3, RepositoryAssumption DEF Row, TouchedBy
  <2>5. sql[r] = "writing" => TouchedBy(r) = vrows[r][k].by /\ vrows[r][k] # NoRow
    BY <1>1, <2>1 DEF SetsLanded, InView, TouchedBy, SeenRows
  <2>6. nr[k] = row /\ \A j \in Keys \ {k} : nr[j] = SeenRows(r)[j]
    BY <1>2, <2>2 DEF RowsType
  <2>7. \A j \in Keys : <<"set", j>> \in owed[r] => <<"set", j>> \in owed'[r]
    BY <1>0, <2>1
  <2>8. touch'[r] = NoTouch /\ assigned[r] \subseteq Keys /\ made[r] \subseteq Keys
    BY <1>0, <2>1
  <2> HIDE DEF nr, row, k
  <2>9. sql'[r] = "writing" /\ vrows'[r] = nr /\ (sql[r] = "writing" => SeenRows(r) = vrows[r])
    BY <2>1, WriteView
  <2>10. SetsLanded(r)'
    BY <1>1, <2>1, <2>4, <2>5, <2>6, <2>7, <2>8, <2>9, PlainLands
  <2> QED
    BY <1>0, <2>1, <2>10, WriteView DEF Own
<1>6. CASE TouchMissing(r) \/ TouchRefused(r)
  <2> DEFINE k == touch[r].key
  <2>1. /\ touch' = [touch EXCEPT ![r] = NoTouch]
        /\ UNCHANGED <<made, assigned, deleted>>
        /\ owed' = [owed EXCEPT ![r] = @ \cup {<<"update", k>>}]
        /\ WriteStatement(r, SeenRows(r), SeenOutbox(r)) \/ WriteRefused(r)
    BY <1>6 DEF TouchMissing, TouchRefused, Touching, Raises, audit
  <2>2. touch'[r] = NoTouch /\ owed[r] \subseteq owed'[r]
    BY <1>0, <2>1
  <2>3. sql[r] = "writing" => sql'[r] = "writing" /\ vrows'[r] = vrows[r]
    BY <2>1, WriteView, RefusedView
  <2>4. \A x \in Runs \ {r} : sql'[x] = sql[x] /\ vrows'[x] = vrows[x]
    BY <2>1, WriteView, RefusedView
  <2>5. SetsLanded(r)'
    BY <1>1, <2>1, <2>2, <2>3 DEF SetsLanded, LandedOn
  <2> QED
    BY <1>0, <2>1, <2>4, <2>5 DEF Own
<1>7. CASE EmitLands(r) \/ EmitRefused(r)
  <2>1. /\ touch[r] = NoTouch /\ UNCHANGED <<made, touch, deleted, assigned, owed>>
        /\ \/ \E no : WriteStatement(r, SeenRows(r), no)
           \/ WriteRefused(r)
    BY <1>7 DEF EmitLands, EmitRefused, EmitExecutes, Executes, RaisesForGood
  <2>2. sql[r] = "writing" => sql'[r] = "writing" /\ vrows'[r] = vrows[r]
    BY <2>1, WriteView, RefusedView
  <2>3. \A x \in Runs \ {r} : sql'[x] = sql[x] /\ vrows'[x] = vrows[x]
    BY <2>1, WriteView, RefusedView
  <2>4. SetsLanded(r)'
    BY <1>1, <2>1, <2>2 DEF SetsLanded, LandedOn
  <2> QED
    BY <2>1, <2>3, <2>4 DEF Own
<1>8. CASE Commit(r) \/ Rollback(r) \/ Crash(r)
  <2>1. PICK o : EndRun(r, o)
    BY <1>8 DEF Commit, Rollback, Crash
  <2>2. /\ assigned' = [assigned EXCEPT ![r] = {}] /\ made' = [made EXCEPT ![r] = {}]
        /\ touch' = [touch EXCEPT ![r] = NoTouch] /\ owed' = [owed EXCEPT ![r] = {}]
        /\ sql' = [sql EXCEPT ![r] = "none"] /\ vrows' = [vrows EXCEPT ![r] = NoView]
        /\ deleted' = [deleted EXCEPT ![r] = {}]
    BY <2>1 DEF EndRun
  <2>3. SetsLanded(r)'
    BY <1>0, <2>2 DEF SetsLanded
  <2> QED
    BY <2>2, <2>3 DEF Own
<1> QED
  BY <1>3, <1>4, <1>5, <1>6, <1>7, <1>8 DEF RunStep

LEMMA NextLandInv ==
    ASSUME TypeOK, LandInv, [Next]_vars
    PROVE  LandInv'
<1>1. ASSUME NEW r \in Runs, SetsLanded(r)', \A x \in Runs \ {r} : UNCHANGED Own(x)
      PROVE  LandInv'
  BY <1>1, OthersLanded DEF LandInv
<1>2. CASE UNCHANGED vars
  BY <1>2, OthersLanded DEF LandInv, vars, conn, audit, Own
<1> QED
  BY <1>1, <1>2, KeyStepLands, RunStepLands DEF Next, AllEnded

(* A run's own commit is what commits it, and publishes what it owes no     *)
(* more.                                                                     *)
LEMMA CommitLands ==
    ASSUME TypeOK, LandInv, [Next]_vars, NEW r \in Runs, Commits(r), NEW k \in assigned[r]
    PROVE  \/ rows'[k] # NoRow /\ r \in rows'[k].by
           \/ rows'[k] = NoRow /\ k \in deleted[r]
<1>1. pc \in [Runs -> {"idle"} \cup Running \cup Ended] /\ assigned \in [Runs -> SUBSET Keys]
  BY DEF TypeOK, ControlType, DataType
<1>2. pc[r] # "committed" /\ pc'[r] = "committed"
  BY DEF Commits
<1>3. ASSUME NEW x \in Runs, NEW j \in Keys, KeyStep(x, j) PROVE FALSE
  <2>1. pc' = pc \/ \E s \in Running : pc' = [pc EXCEPT ![x] = s]
    BY <1>3 DEF KeyStep, Read, SetLands, SetConflicts, SetRefused, SetCreated,
        CreateLands,
       CreateConflicts, CreateRefused, TouchRead, DeleteLands, DeleteMissing, DeleteRefused,
       Completes, Raises, RaisesForGood, Running
  <2> QED
    BY <1>1, <1>2, <2>1 DEF Running
<1>4. ASSUME NEW x \in Runs, RunStep(x), ~ Commit(x) PROVE FALSE
  <2>1. pc' = pc \/ \E s \in Running \cup {"rolledback", "crashed"} : pc' = [pc EXCEPT ![x] = s]
    BY <1>4 DEF RunStep, Begin, Query, TouchLands, TouchMissing, TouchRefused,
        EmitLands,
       EmitRefused, RetryStep, Rollback, Crash, Completes, Raises, RaisesForGood, EndRun, Running
  <2> QED
    BY <1>1, <1>2, <2>1 DEF Running
<1>5. ASSUME NEW x \in Runs, Commit(x), x # r PROVE FALSE
  BY <1>1, <1>2, <1>5 DEF Commit, EndRun
<1>6. Commit(r)
  BY <1>2, <1>3, <1>4, <1>5 DEF Next, AllEnded, vars
<1>7. LandedOn(r, k) /\ owed[r] = {}
  BY <1>6 DEF LandInv, SetsLanded, Commit
<1>8. sql[r] = "writing" /\ rows' = vrows[r]
  BY <1>6, <1>7 DEF LandedOn, Commit
<1> QED
  BY <1>7, <1>8 DEF LandedOn

(* A run that commits reports its `set`s as done, and they are in the       *)
(* store: each row carries the assignment, unless the run itself deleted    *)
(* the row.  For any number of runs, whatever they retried.                  *)
THEOREM CommittedSetsHaveLanded == Spec => CommittedSetsLand
<1>1. Init => LandInv
  BY ZenonT(60) DEF Init, LandInv, SetsLanded
<1>2. TypeOK /\ LandInv /\ [Next]_vars => LandInv'
  BY NextLandInv
<1>3. TypeOK /\ LandInv /\ [Next]_vars =>
        [\A r \in Runs : Commits(r) =>
           \A k \in assigned[r] : \/ rows'[k] # NoRow /\ r \in rows'[k].by
                                  \/ rows'[k] = NoRow /\ k \in deleted[r]]_vars
  BY CommitLands
<1> QED
  BY <1>1, <1>2, <1>3, TypeCorrect, PTL DEF Spec, CommittedSetsLand

-----------------------------------------------------------------------------
(* The store implements the ledger                                          *)

(* When runs neither update nor delete, every run of SqliteRepository is    *)
(* one atomic step of RunLedger.  StoreInv says that a writer is alone and  *)
(* that nothing dirty is seen; it does not say what a commit makes of a     *)
(* row that other runs have assigned to before.  That follows from version  *)
(* numbers: a bound object whose version is the row's carries the same      *)
(* assignments, so a conditional UPDATE that matches adds one to the row.   *)

(* What run r has made of a row: nothing, a new row, or one assignment more *)
(* under a later version.                                                   *)
RowStep(r, old, new) ==
    \/ new = old
    \/ old = NoRow /\ new # NoRow /\ new.by = {r}
    \/ old # NoRow /\ new # NoRow /\ new.by = old.by \cup {r} /\ old.ver < new.ver

(* A bound object is not ahead of its row, and as good as the row when its  *)
(* version is the row's.                                                    *)
Tracks(r, held, row) ==
    held # NoRow => /\ row # NoRow /\ held.ver <= row.ver
                    /\ held.ver = row.ver => held.by \cup {r} = row.by \cup {r}

(* Run r could commit and would be one step of the ledger.                  *)
Fits(r) ==
    /\ touch[r] = NoTouch
    /\ \A k \in Keys : Tracks(r, bound[r][k], SeenRows(r)[k])
    /\ sql[r] = "writing" => \A k \in Keys : RowStep(r, rows[k], vrows[r][k])
    /\ \A k \in made[r] : sql[r] = "writing" /\ rows[k] = NoRow

LedgerInv == \A r \in Runs : Fits(r)

-----------------------------------------------------------------------------
(* One statement of a run.                                                  *)

Silent(r) == UNCHANGED conn \/ SelectStatement(r) \/ WriteRefused(r)

(* A SELECT or a refused write changes nothing the run sees.                *)
LEMMA SilentSees ==
    ASSUME StoreInv, NEW r \in Runs, UNCHANGED store, Silent(r)
    PROVE  /\ SeenRows(r)' = SeenRows(r)
           /\ sql'[r] = "writing" <=> sql[r] = "writing"
           /\ sql[r] = "writing" => vrows'[r] = vrows[r]
           /\ \A x \in Runs \ {r} : sql'[x] = sql[x] /\ vrows'[x] = vrows[x]
<1>1. sql \in [Runs -> {"none", "begun", "pinned", "writing"}] /\ vrows \in [Runs -> RowsType]
  BY DEF StoreInv, TypeOK, ConnType
<1>2. CASE UNCHANGED conn
  BY <1>2 DEF conn, store, SeenRows, InView
<1>3. CASE SelectStatement(r)
  BY <1>1, <1>3 DEF SelectStatement, conn, store, SeenRows, InView
<1>4. CASE WriteRefused(r)
  BY <1>1, <1>4 DEF WriteRefused, store, SeenRows, InView
<1> QED
  BY <1>2, <1>3, <1>4 DEF Silent

(* A write that executes replaces what the run sees, and nobody else's.     *)
LEMMA WriteSees ==
    ASSUME StoreInv, NEW r \in Runs, NEW nr \in RowsType, NEW no, WriteStatement(r, nr, no)
    PROVE  /\ SeenRows(r)' = nr /\ vrows'[r] = nr /\ sql'[r] = "writing"
           /\ \A x \in Runs \ {r} : sql'[x] = sql[x] /\ vrows'[x] = vrows[x]
BY DEF StoreInv, TypeOK, ConnType, WriteStatement, SeenRows, InView

(* What a run that may write sees is one step from the committed store.     *)
LEMMA WriterBase ==
    ASSUME StoreInv, NEW r \in Runs, Fits(r), CanWrite(r)
    PROVE  \A k \in Keys : RowStep(r, rows[k], SeenRows(r)[k])
BY WriteAlone DEF Fits, RowStep, SeenRows, InView

(* A row that is one step away stays so when r assigns to it once more.     *)
LEMMA StepOnce ==
    ASSUME NEW r \in Runs, NEW old \in Row \cup {NoRow}, NEW seen \in Row, NEW new \in Row,
           RowStep(r, old, seen), seen # NoRow,
           new.by = seen.by \cup {r}, seen.ver < new.ver
    PROVE  RowStep(r, old, new)
<1>1. new # NoRow /\ seen.ver \in Nat /\ new.ver \in Nat
  BY RepositoryAssumption DEF Row
<1>2. CASE seen = old
  BY <1>1, <1>2 DEF RowStep
<1>3. CASE old = NoRow /\ seen.by = {r}
  BY <1>1, <1>3 DEF RowStep
<1>4. CASE old # NoRow /\ seen.by = old.by \cup {r} /\ old.ver < seen.ver
  <2>1. old.ver \in Nat
    BY <1>4 DEF Row
  <2>2. old.ver < new.ver
    BY <1>1, <1>4, <2>1
  <2>3. new.by = old.by \cup {r}
    BY <1>4
  <2> QED
    BY <1>1, <1>4, <2>2, <2>3 DEF RowStep
<1> QED
  BY <1>2, <1>3, <1>4 DEF RowStep

-----------------------------------------------------------------------------
(* Work keeps LedgerInv.                                                    *)

(* The runs that do not move still fit when the store does not move.        *)
LEMMA OthersFit ==
    ASSUME NEW x \in Runs, Fits(x), UNCHANGED store,
           sql'[x] = sql[x], vrows'[x] = vrows[x], bound'[x] = bound[x],
           made'[x] = made[x], touch'[x] = touch[x]
    PROVE  Fits(x)'
BY DEF Fits, SeenRows, InView, store

(* A silent step fits when what it leaves bound does.                       *)
LEMMA SilentFits ==
    ASSUME StoreInv, NEW r \in Runs, Fits(r), UNCHANGED store, Silent(r),
           made'[r] = made[r], touch'[r] = NoTouch,
           \A k \in Keys : Tracks(r, bound'[r][k], SeenRows(r)[k])
    PROVE  Fits(r)'
<1>1. /\ SeenRows(r)' = SeenRows(r)
      /\ sql'[r] = "writing" <=> sql[r] = "writing"
      /\ sql[r] = "writing" => vrows'[r] = vrows[r]
  BY SilentSees
<1>2. rows' = rows
  BY DEF store
<1> QED
  BY <1>1, <1>2 DEF Fits

(* So does a write, when its rows are one step from the store.              *)
LEMMA WriteFits ==
    ASSUME StoreInv, NEW r \in Runs, UNCHANGED store, touch'[r] = NoTouch,
           NEW nr \in RowsType, NEW no, WriteStatement(r, nr, no),
           \A k \in Keys : RowStep(r, rows[k], nr[k]),
           \A k \in Keys : Tracks(r, bound'[r][k], nr[k]),
           \A k \in made'[r] : rows[k] = NoRow
    PROVE  Fits(r)'
<1>1. SeenRows(r)' = nr /\ vrows'[r] = nr /\ sql'[r] = "writing"
  BY WriteSees
<1>2. rows' = rows
  BY DEF store
<1> QED
  BY <1>1, <1>2 DEF Fits

(* A step on a key: the run still fits and the others have not moved.       *)
LEMMA KeyStepFits ==
    ASSUME NoRewrites, StoreInv, NEW r \in Runs, Fits(r), NEW k \in Keys, KeyStep(r, k)
    PROVE  /\ Fits(r)' /\ UNCHANGED store
           /\ \A x \in Runs \ {r} :
                /\ sql'[x] = sql[x] /\ vrows'[x] = vrows[x]
                /\ bound'[x] = bound[x] /\ made'[x] = made[x] /\ touch'[x] = touch[x]
<1>t. /\ bound \in [Runs -> RowsType] /\ made \in [Runs -> SUBSET Keys]
      /\ touch[r] = NoTouch /\ SeenRows(r) \in RowsType /\ rows \in RowsType
  BY SeenType DEF StoreInv, TypeOK, DataType, StoreType, Fits
<1>f. /\ \A j \in Keys : Tracks(r, bound[r][j], SeenRows(r)[j])
      /\ \A j \in made[r] : sql[r] = "writing" /\ rows[j] = NoRow
  BY DEF Fits
<1>1. CASE Read(r, k)
  <2>1. Silent(r) /\ UNCHANGED <<store, made, touch>>
    BY <1>1 DEF Read, Silent
  <2>2. \A x \in Runs \ {r} : bound'[x] = bound[x]
    BY <1>1, <1>t DEF Read
  <2>3. \A j \in Keys : Tracks(r, bound'[r][j], SeenRows(r)[j])
    <3>1. CASE SeenRows(r)[k] = NoRow
      BY <1>1, <1>f, <3>1 DEF Read
    <3>2. CASE SeenRows(r)[k] # NoRow
      <4>1. bound'[r] = [bound[r] EXCEPT ![k] = SeenRows(r)[k]]
        BY <1>1, <1>t, <3>2 DEF Read
      <4>2. Tracks(r, SeenRows(r)[k], SeenRows(r)[k])
        BY <1>t, <3>2 DEF Tracks, RowsType, Row
      <4> QED
        BY <1>t, <1>f, <4>1, <4>2 DEF RowsType
    <3> QED
      BY <3>1, <3>2
  <2> QED
    BY <1>t, <2>1, <2>2, <2>3, SilentFits, SilentSees
<1>2. CASE SetLands(r, k)
  <2> DEFINE row == [by |-> Assigned(r, k), ver |-> bound[r][k].ver + 1]
             nr  == [SeenRows(r) EXCEPT ![k] = row]
             s   == SeenRows(r)[k]
  <2>1. /\ WriteStatement(r, nr, SeenOutbox(r)) /\ UNCHANGED <<store, made, touch>>
        /\ bound' = [bound EXCEPT ![r][k] = row]
        /\ bound[r][k] \in Row /\ bound[r][k] # NoRow
        /\ s \in Row /\ s # NoRow /\ s.ver = bound[r][k].ver
    BY <1>2, <1>t DEF SetLands, SetExecutes, VersionMatches, RowsType
  <2>2. row \in Row
    BY <2>1 DEF Row, Assigned
  <2>3. row.by = s.by \cup {r} /\ s.ver < row.ver
    BY <1>f, <2>1 DEF Tracks, Assigned, Row
  <2>4. nr \in RowsType /\ nr[k] = row /\ \A j \in Keys \ {k} : nr[j] = SeenRows(r)[j]
    BY <1>t, <2>2 DEF RowsType
  <2>5. \A j \in Keys : RowStep(r, rows[j], SeenRows(r)[j])
    BY <2>1, WriterBase DEF WriteStatement
  <2>6. RowStep(r, rows[k], row)
    <3>1. rows[k] \in Row \cup {NoRow} /\ RowStep(r, rows[k], s)
      BY <1>t, <2>5 DEF RowsType
    <3> QED
      BY <2>1, <2>2, <2>3, <3>1, StepOnce
  <2>7. \A j \in Keys : RowStep(r, rows[j], nr[j])
    BY <2>4, <2>5, <2>6
  <2>8. bound'[r] = [bound[r] EXCEPT ![k] = row] /\ \A x \in Runs \ {r} : bound'[x] = bound[x]
    BY <1>t, <2>1 DEF RowsType
  <2>9. Tracks(r, row, row)
    BY <2>2, RepositoryAssumption DEF Tracks, Row
  <2>10. \A j \in Keys : Tracks(r, bound'[r][j], nr[j])
    BY <1>t, <1>f, <2>4, <2>8, <2>9 DEF RowsType
  <2> QED
    BY ZenonT(60), <1>t, <1>f, <2>1, <2>4, <2>7, <2>8, <2>10, WriteFits, WriteSees
<1>3. CASE SetConflicts(r, k) \/ SetRefused(r, k)
  <2>1. /\ UNCHANGED <<store, made, touch>> /\ bound[r][k] \in Row /\ bound[r][k] # NoRow
        /\ bound' = [bound EXCEPT ![r][k].by = Assigned(r, k)]
        /\ WriteStatement(r, SeenRows(r), SeenOutbox(r)) \/ WriteRefused(r)
    BY <1>3, <1>t DEF SetConflicts, SetRefused, SetExecutes, RowsType
  <2>2. /\ bound'[r] = [bound[r] EXCEPT ![k].by = Assigned(r, k)]
        /\ \A x \in Runs \ {r} : bound'[x] = bound[x]
    BY <1>t, <2>1 DEF RowsType
  <2>3. bound'[r][k] = [bound[r][k] EXCEPT !.by = Assigned(r, k)]
    BY <1>t, <2>2 DEF RowsType
  <2>4. Tracks(r, bound'[r][k], SeenRows(r)[k])
    BY <1>f, <2>1, <2>3 DEF Tracks, Row, Assigned
  <2>5. \A j \in Keys : Tracks(r, bound'[r][j], SeenRows(r)[j])
    BY <1>t, <1>f, <2>2, <2>4 DEF RowsType
  <2>6. CASE WriteRefused(r)
    BY <1>t, <2>1, <2>2, <2>5, <2>6, SilentFits, SilentSees DEF Silent
  <2>7. CASE WriteStatement(r, SeenRows(r), SeenOutbox(r))
    <3>1. \A j \in Keys : RowStep(r, rows[j], SeenRows(r)[j])
      BY <2>7, WriterBase DEF WriteStatement
    <3> QED
      BY <1>t, <1>f, <2>1, <2>2, <2>5, <2>7, <3>1, WriteFits, WriteSees
  <2> QED
    BY <2>1, <2>6, <2>7
<1>4. CASE SetCreated(r, k)
  <2> DEFINE s  == SeenRows(r)[k]
             nr == IF s = NoRow THEN SeenRows(r)
                   ELSE [SeenRows(r) EXCEPT ![k] = [by |-> {r}, ver |-> @.ver + 1]]
  <2>1. /\ WriteStatement(r, nr, SeenOutbox(r)) /\ UNCHANGED <<store, bound, made, touch>>
        /\ rows[k] = NoRow
    BY <1>4, <1>f DEF SetCreated
  <2>2. \A j \in Keys : RowStep(r, rows[j], SeenRows(r)[j])
    BY <2>1, WriterBase DEF WriteStatement
  <2>3. CASE s = NoRow
    BY <1>t, <1>f, <2>1, <2>2, <2>3, WriteFits, WriteSees
  <2>4. CASE s # NoRow
    <3> DEFINE row == [by |-> {r}, ver |-> s.ver + 1]
    <3>1. s \in Row /\ row \in Row /\ row # NoRow
      BY <1>t, <2>4, RepositoryAssumption DEF RowsType, Row
    <3>2. nr \in RowsType /\ nr[k] = row /\ \A j \in Keys \ {k} : nr[j] = SeenRows(r)[j]
      BY <1>t, <2>4, <3>1 DEF RowsType
    <3>3. RowStep(r, rows[k], row)
      BY <2>1, <3>1 DEF RowStep
    <3>4. Tracks(r, bound[r][k], row)
      BY <1>t, <1>f, <3>1 DEF Tracks, RowsType, Row
    <3>5. \A j \in Keys : RowStep(r, rows[j], nr[j]) /\ Tracks(r, bound'[r][j], nr[j])
      BY <1>f, <2>1, <2>2, <3>2, <3>3, <3>4
    <3> HIDE DEF nr
    <3> QED
      BY <1>t, <1>f, <2>1, <3>2, <3>5, WriteFits, WriteSees
  <2> QED
    BY <2>3, <2>4
<1>5. CASE CreateLands(r, k)
  <2> DEFINE row == [by |-> {r}, ver |-> 1]
             nr  == [SeenRows(r) EXCEPT ![k] = row]
  <2>1. /\ WriteStatement(r, nr, SeenOutbox(r)) /\ UNCHANGED <<store, bound, touch>>
        /\ made' = [made EXCEPT ![r] = @ \cup {k}] /\ SeenRows(r)[k] = NoRow
    BY <1>5 DEF CreateLands, CreateExecutes
  <2>2. row \in Row /\ row # NoRow
    BY RepositoryAssumption DEF Row
  <2>3. nr \in RowsType /\ nr[k] = row /\ \A j \in Keys \ {k} : nr[j] = SeenRows(r)[j]
    BY <1>t, <2>2 DEF RowsType
  <2>4. \A j \in Keys : RowStep(r, rows[j], SeenRows(r)[j])
    BY <2>1, WriterBase DEF WriteStatement
  <2>5. rows[k] = NoRow
    BY <2>1, <2>4 DEF RowStep
  <2>6. bound[r][k] = NoRow
    BY <1>f, <2>1 DEF Tracks
  <2>7. \A j \in Keys : RowStep(r, rows[j], nr[j]) /\ Tracks(r, bound'[r][j], nr[j])
    <3>1. RowStep(r, rows[k], row) /\ Tracks(r, bound[r][k], row)
      BY <2>2, <2>5, <2>6 DEF RowStep, Tracks
    <3> QED
      BY <1>f, <2>1, <2>3, <2>4, <3>1
  <2>8. made'[r] = made[r] \cup {k} /\ \A x \in Runs \ {r} : made'[x] = made[x]
    BY <1>t, <2>1
  <2> HIDE DEF nr
  <2> QED
    BY <1>t, <1>f, <2>1, <2>3, <2>5, <2>7, <2>8, WriteFits, WriteSees
<1>6. CASE CreateConflicts(r, k)
  <2>1. /\ WriteStatement(r, SeenRows(r), SeenOutbox(r))
        /\ UNCHANGED <<store, bound, touch, made>>
    BY <1>6 DEF CreateConflicts, CreateExecutes
  <2>2. \A j \in Keys : RowStep(r, rows[j], SeenRows(r)[j])
    BY <2>1, WriterBase DEF WriteStatement
  <2> QED
    BY <1>t, <1>f, <2>1, <2>2, WriteFits, WriteSees
<1>7. CASE CreateRefused(r, k)
  <2>1. Silent(r) /\ UNCHANGED <<store, bound, touch, made>>
    BY <1>7 DEF CreateRefused, CreateExecutes, Silent
  <2> QED
    BY <1>t, <1>f, <2>1, SilentFits, SilentSees
<1>8. ~ \E op \in {"update", "delete"} : Executes(r, op)
  BY DEF NoRewrites, Executes
<1> QED
  BY <1>1, <1>2, <1>3, <1>4, <1>5, <1>6, <1>7, <1>8
  DEF KeyStep, TouchRead, DeleteLands, DeleteMissing, DeleteRefused, DeleteExecutes

(* A step without a key that neither commits nor ends the run.              *)
LEMMA RunStepFits ==
    ASSUME StoreInv, NEW r \in Runs, Fits(r), RunStep(r),
           ~ Commit(r), ~ Rollback(r), ~ Crash(r)
    PROVE  /\ Fits(r)' /\ UNCHANGED store
           /\ \A x \in Runs \ {r} :
                /\ sql'[x] = sql[x] /\ vrows'[x] = vrows[x]
                /\ bound'[x] = bound[x] /\ made'[x] = made[x] /\ touch'[x] = touch[x]
<1>t. touch[r] = NoTouch /\ SeenRows(r) \in RowsType
  BY SeenType DEF StoreInv, Fits
<1>f. /\ \A j \in Keys : Tracks(r, bound[r][j], SeenRows(r)[j])
      /\ \A j \in made[r] : sql[r] = "writing" /\ rows[j] = NoRow
  BY DEF Fits
<1>1. CASE EmitLands(r)
  <2> DEFINE no == Append(SeenOutbox(r), <<r, emitted[r] + 1>>)
  <2>1. WriteStatement(r, SeenRows(r), no) /\ UNCHANGED <<store, bound, touch, made>>
    BY <1>1 DEF EmitLands, EmitExecutes
  <2>2. \A j \in Keys : RowStep(r, rows[j], SeenRows(r)[j])
    BY <2>1, WriterBase DEF WriteStatement
  <2> HIDE DEF no
  <2> QED
    BY <1>t, <1>f, <2>1, <2>2, WriteFits, WriteSees
<1>2. CASE Begin(r) \/ Query(r) \/ EmitRefused(r) \/ RetryStep(r)
  <2>1. Silent(r) /\ UNCHANGED <<store, bound, touch, made>>
    BY <1>2 DEF Begin, Query, EmitRefused, EmitExecutes, RetryStep, Silent
  <2> QED
    BY <1>t, <1>f, <2>1, SilentFits, SilentSees
<1>3. ~ (TouchLands(r) \/ TouchMissing(r) \/ TouchRefused(r))
  BY <1>t DEF TouchLands, TouchMissing, TouchRefused, Touching
<1> QED
  BY <1>1, <1>2, <1>3 DEF RunStep

-----------------------------------------------------------------------------
(* The end of a run.                                                        *)

(* A run that has ended holds nothing, and nobody else's memory changed.    *)
LEMMA EndHolds ==
    ASSUME StoreInv, NEW r \in Runs, NEW o \in Ended, EndRun(r, o)
    PROVE  /\ Fits(r)'
           /\ \A x \in Runs \ {r} :
                /\ sql'[x] = sql[x] /\ vrows'[x] = vrows[x]
                /\ bound'[x] = bound[x] /\ made'[x] = made[x] /\ touch'[x] = touch[x]
<1>1. made \in [Runs -> SUBSET Keys]
  BY DEF StoreInv, TypeOK, DataType
<1>2. /\ made'[r] = {} /\ bound'[r] = NoView /\ touch'[r] = NoTouch /\ sql'[r] = "none"
      /\ \A x \in Runs \ {r} : made'[x] = made[x]
  BY <1>1, EndFacts DEF EndRun
<1> QED
  BY <1>2, EndFacts DEF Fits, Tracks, NoView

(* What a commit publishes is one step of the run from the store.           *)
LEMMA CommitPublishes ==
    ASSUME StoreInv, NEW r \in Runs, Fits(r), Commit(r)
    PROVE  /\ \A k \in Keys : RowStep(r, rows[k], rows'[k])
           /\ EndRun(r, "committed")
BY DEF Commit, Fits, RowStep, store

(* Another run's bound rows still track the rows a commit replaced.         *)
LEMMA CommitFits ==
    ASSUME StoreInv, NEW r \in Runs, LedgerInv, Commit(r)
    PROVE  LedgerInv'
<1>1. /\ \A k \in Keys : RowStep(r, rows[k], rows'[k])
      /\ EndRun(r, "committed") /\ "committed" \in Ended
  BY CommitPublishes DEF LedgerInv, Ended
<1>2. Fits(r)'
  BY <1>1, EndHolds
<1>3. ASSUME NEW x \in Runs \ {r}
      PROVE  Fits(x)'
  <2>1. /\ sql'[x] = sql[x] /\ vrows'[x] = vrows[x]
        /\ bound'[x] = bound[x] /\ made'[x] = made[x] /\ touch'[x] = touch[x]
    BY <1>1, EndHolds
  <2>2. CASE sql[r] # "writing"
    <3>1. UNCHANGED store
      BY <2>2 DEF Commit
    <3> QED
      BY <2>1, <3>1, OthersFit DEF LedgerInv
  <2>3. CASE sql[r] = "writing"
    <3>1. sql[x] # "writing"
      BY <2>3 DEF StoreInv, WriterOnCurrent
    <3>2. Fits(x) /\ made[x] = {} /\ touch'[x] = NoTouch
      BY <2>1, <3>1 DEF LedgerInv, Fits
    <3>3. CASE InView(x)
      <4>1. SeenRows(x)' = SeenRows(x)
        BY <2>1, <3>3 DEF SeenRows, InView
      <4> QED
        BY <2>1, <3>1, <3>2, <4>1 DEF Fits
    <3>4. CASE ~ InView(x)
      <4>1. SeenRows(x) = rows /\ SeenRows(x)' = rows'
        BY <2>1, <3>4 DEF SeenRows, InView
      <4>2. rows \in RowsType /\ rows' \in RowsType /\ bound[x] \in RowsType
        BY <2>3 DEF StoreInv, TypeOK, StoreType, ConnType, DataType, Commit
      <4>3. ASSUME NEW k \in Keys
            PROVE  Tracks(x, bound'[x][k], rows'[k])
        <5>1. Tracks(x, bound[x][k], rows[k]) /\ RowStep(r, rows[k], rows'[k])
          BY <1>1, <3>2, <4>1 DEF Fits
        <5>2. /\ rows[k] \in Row \cup {NoRow} /\ rows'[k] \in Row \cup {NoRow}
              /\ bound[x][k] \in Row \cup {NoRow}
          BY <4>2 DEF RowsType
        <5> QED
          BY <2>1, <5>1, <5>2 DEF Tracks, RowStep, Row
      <4> QED
        BY <2>1, <3>1, <3>2, <4>1, <4>3 DEF Fits
    <3> QED
      BY <3>3, <3>4
  <2> QED
    BY <2>2, <2>3
<1> QED
  BY <1>2, <1>3 DEF LedgerInv

(* LedgerInv holds at first and is kept by every step.                      *)
LEMMA InitLedgerInv == Init => LedgerInv
<1> SUFFICES ASSUME Init, NEW r \in Runs PROVE Fits(r)
  BY DEF LedgerInv
<1>1. touch[r] = NoTouch /\ bound[r] = NoView /\ sql[r] = "none" /\ made[r] = {}
  BY DEF Init
<1> QED
  BY <1>1 DEF Fits, Tracks, NoView

LEMMA NextLedgerInv ==
    ASSUME NoRewrites, StoreInv, LedgerInv, [Next]_vars
    PROVE  LedgerInv'
<1>1. CASE \E r \in Runs : RunStep(r)
  <2>1. PICK r \in Runs : RunStep(r)
    BY <1>1
  <2>2. CASE Commit(r)
    BY <2>2, CommitFits
  <2>3. CASE Rollback(r) \/ Crash(r)
    <3>1. UNCHANGED store /\ \E o \in Ended : EndRun(r, o)
      BY <2>3 DEF Rollback, Crash, Ended
    <3> QED
      BY <3>1, EndHolds, OthersFit DEF LedgerInv
  <2>4. CASE ~ Commit(r) /\ ~ Rollback(r) /\ ~ Crash(r)
    BY <2>1, <2>4, RunStepFits, OthersFit DEF LedgerInv
  <2> QED
    BY <2>2, <2>3, <2>4
<1>2. CASE \E r \in Runs : \E k \in Keys : KeyStep(r, k)
  <2>1. PICK r \in Runs, k \in Keys : KeyStep(r, k)
    BY <1>2
  <2> QED
    BY <2>1, KeyStepFits, OthersFit DEF LedgerInv
<1>3. CASE UNCHANGED vars
  BY <1>3 DEF vars, store, conn, LedgerInv, Fits, SeenRows, InView
<1> QED
  BY <1>1, <1>2, <1>3 DEF Next, AllEnded

-----------------------------------------------------------------------------
(* The refinement, step by step.                                            *)

(* The initial store is the ledger's.                                       *)
LEMMA InitRefines == Init => Ledger!LedgerInit
BY RepositoryAssumption DEF Init, Ledger!LedgerInit, Stored, Fate, Ended, Row

(* A working run is an open one, before and after.                          *)
LEMMA WorkStutters ==
    ASSUME StoreInv, NEW r \in Runs, Working(r)
    PROVE  UNCHANGED <<Stored, outbox, Fate>>
<1>1. UNCHANGED <<rows, outbox>>
  BY DEF Working, store
<1>2. Fate' = Fate
  <2>1. pc \in [Runs -> {"idle"} \cup Running \cup Ended]
    BY DEF StoreInv, TypeOK, ControlType
  <2>2. PICK s \in Running : pc' = [pc EXCEPT ![r] = s]
    BY DEF Working
  <2>3. pc[r] \in {"idle"} \cup Running
    BY DEF Working
  <2> QED
    BY <2>1, <2>2, <2>3 DEF Fate, Running, Ended
<1> QED
  BY <1>1, <1>2 DEF Stored

(* A run that ends is settled in the ledger, and it was open.               *)
LEMMA EndSettles ==
    ASSUME StoreInv, NEW r \in Runs, pc[r] \in Running, NEW o \in Ended, EndRun(r, o)
    PROVE  /\ Fate[r] = "open"
           /\ Fate' = [Fate EXCEPT ![r] = IF o = "committed" THEN "committed" ELSE "aborted"]
<1>1. pc \in [Runs -> {"idle"} \cup Running \cup Ended]
  BY DEF StoreInv, TypeOK, ControlType
<1>2. pc' = [pc EXCEPT ![r] = o]
  BY EndFacts
<1> QED
  BY <1>1, <1>2 DEF Fate, Running, Ended

(* An abandoned run aborts.                                                 *)
LEMMA AbandonAborts ==
    ASSUME StoreInv, NEW r \in Runs, Abandons(r)
    PROVE  Ledger!AbortRun(r)
<1>1. PICK o \in {"rolledback", "crashed"} : EndRun(r, o)
  BY DEF Abandons
<1>2. o \in Ended /\ o # "committed" /\ pc[r] \in Running
  BY DEF Abandons, Ended
<1>3. Fate[r] = "open" /\ Fate' = [Fate EXCEPT ![r] = "aborted"]
  BY <1>1, <1>2, EndSettles
<1> QED
  BY <1>3 DEF Ledger!AbortRun, Abandons, store, Stored

(* A commit is one atomic step on the rows as they are.                     *)
LEMMA CommitCommits ==
    ASSUME StoreInv, LedgerInv, NEW r \in Runs, Commit(r)
    PROVE  Ledger!CommitRun(r)
<1>1. EndRun(r, "committed") /\ "committed" \in Ended /\ pc[r] \in Running
  BY DEF Commit, Ended, Running
<1>2. Fate[r] = "open" /\ Fate' = [Fate EXCEPT ![r] = "committed"]
  BY <1>1, EndSettles
<1>3. ASSUME NEW k \in Keys
      PROVE  Ledger!RowAfter(r, Stored[k], Stored'[k])
  <2>1. RowStep(r, rows[k], rows'[k])
    BY CommitPublishes DEF LedgerInv
  <2>2. /\ Stored[k] = IF rows[k] = NoRow THEN NoRow ELSE rows[k].by
        /\ Stored'[k] = IF rows'[k] = NoRow THEN NoRow ELSE rows'[k].by
    BY DEF Stored
  <2>3. rows[k] # NoRow => rows[k].by # NoRow
    BY RepositoryAssumption DEF StoreInv, TypeOK, StoreType, RowsType, Row
  <2> QED
    BY <2>1, <2>2, <2>3 DEF RowStep, Ledger!RowAfter
<1>4. Ledger!FeedAfter(r, outbox, outbox')
  <2>1. CASE sql[r] = "writing"
    BY <2>1 DEF Commit, StoreInv, FeedExtends, Ledger!FeedAfter
  <2>2. CASE sql[r] # "writing"
    <3>1. outbox' = outbox /\ Len(outbox) \in Nat
      BY <2>2 DEF Commit, store, StoreInv, TypeOK, StoreType
    <3> QED
      BY <3>1 DEF Ledger!FeedAfter
  <2> QED
    BY <2>1, <2>2
<1>5. DOMAIN Stored' = Keys
  BY DEF Stored
<1> QED
  BY <1>2, <1>3, <1>4, <1>5 DEF Ledger!CommitRun

(* Every step of the store is a step of the ledger or none.                 *)
LEMMA NextRefines ==
    ASSUME StoreInv, LedgerInv, [Next]_vars
    PROVE  [Ledger!LedgerNext]_<<Stored, outbox, Fate>>
<1>1. CASE \E r \in Runs : RunStep(r)
  <2>1. PICK r \in Runs : RunStep(r)
    BY <1>1
  <2>2. Working(r) \/ Commit(r) \/ Abandons(r)
    BY <2>1, RunStepWorks
  <2> QED
    BY <2>2, WorkStutters, CommitCommits, AbandonAborts DEF Ledger!LedgerNext
<1>2. CASE \E r \in Runs : \E k \in Keys : KeyStep(r, k)
  BY <1>2, KeyStepWorks, WorkStutters
<1>3. CASE UNCHANGED vars
  BY <1>3 DEF vars, store, Stored, Fate
<1> QED
  BY <1>1, <1>2, <1>3 DEF Next, AllEnded

(* The store implements the ledger: without update and delete, concurrent  *)
(* runs on one database file are atomic steps in commit order, each on the  *)
(* rows as it finds them (drivers.py begin(), persist() and the version in  *)
(* _UPDATE_ROW_VERSIONED).                                                  *)
THEOREM StoreImplementsLedger ==
    ASSUME NoRewrites
    PROVE  Spec => ImplementsLedger
<1>1. Init => StoreInv /\ LedgerInv
  BY InitStoreInv, InitLedgerInv
<1>2. StoreInv /\ LedgerInv /\ [Next]_vars => (StoreInv /\ LedgerInv)'
  BY NextStoreInv, NextLedgerInv
<1>3. StoreInv /\ LedgerInv /\ [Next]_vars => [Ledger!LedgerNext]_<<Stored, outbox, Fate>>
  BY NextRefines
<1> QED
  BY <1>1, <1>2, <1>3, InitRefines, PTL
  DEF Spec, ImplementsLedger, Ledger!LedgerSpec, Ledger!lvars
=============================================================================
