--------------------------- MODULE McpHttpProofs ----------------------------
(***************************************************************************)
(* Theorems about McpHttp, for any number of requests, tool slots and      *)
(* sessions.                                                               *)
(***************************************************************************)
EXTENDS McpHttp, FiniteSetTheorems, TLAPS

FiniteCalls == McpAssumption /\ IsFiniteSet(Calls)

Shape ==
  /\ callAt \in [Calls -> Places]
  /\ callChild \in [Calls -> {"none", "running", "answered", "out of memory", "failed"}]
  /\ toolSlots \in Nat

SlotInv == Shape /\ SlotsAreExact

(* What one side loses the other gains.                                     *)
LEMMA TakeAndGive ==
  ASSUME NEW slots \in Nat, NEW inUse \in Nat
  PROVE  /\ (slots - 1) + (inUse + 1) = slots + inUse
         /\ (slots + 1) + (inUse - 1) = slots + inUse
OBVIOUS

(* The slots in use follow one thread's move into or out of the places      *)
(* between acquire() and release().                                         *)
LEMMA MoveHolds ==
  ASSUME FiniteCalls, SlotInv, NEW r \in Calls, NEW to \in Places,
         callAt' = [callAt EXCEPT ![r] = to],
         callChild' \in [Calls -> {"none", "running", "answered", "out of memory",
                                   "failed"}],
         \A q \in Calls \ {r} : callChild'[q] = callChild[q],
         callChild'[r] # "none" => to = "waiting",
         toolSlots' \in Nat,
         toolSlots' = IF to \in ToolPlaces
                      THEN IF callAt[r] \in ToolPlaces THEN toolSlots ELSE toolSlots - 1
                      ELSE IF callAt[r] \in ToolPlaces THEN toolSlots + 1 ELSE toolSlots
  PROVE  SlotInv'
<1>1. Shape'
  BY DEF SlotInv, Shape
<1>2. IsFiniteSet(Holding) /\ Cardinality(Holding) \in Nat
  BY FS_Subset, FS_CardinalityType DEF FiniteCalls, Holding
<1>3. r \in Holding <=> callAt[r] \in ToolPlaces
  BY DEF Holding
<1>4. MaxToolCalls \in Nat /\ toolSlots \in Nat
      /\ toolSlots + Cardinality(Holding) = MaxToolCalls
  BY DEF FiniteCalls, McpAssumption, SlotInv, Shape, SlotsAreExact
<1>5. Cardinality(Holding') =
        IF to \in ToolPlaces
        THEN IF callAt[r] \in ToolPlaces THEN Cardinality(Holding) ELSE Cardinality(Holding) + 1
        ELSE IF callAt[r] \in ToolPlaces THEN Cardinality(Holding) - 1 ELSE Cardinality(Holding)
  <2>1. CASE to \in ToolPlaces
    <3>1. Holding' = Holding \cup {r}
      BY <2>1 DEF SlotInv, Shape, Holding
    <3> QED
      BY <1>2, <1>3, <2>1, <3>1, FS_AddElement
  <2>2. CASE to \notin ToolPlaces
    <3>1. Holding' = Holding \ {r}
      BY <2>2 DEF SlotInv, Shape, Holding
    <3> QED
      BY <1>2, <1>3, <2>2, <3>1, FS_RemoveElement
  <2> QED
    BY <2>1, <2>2
<1>7. toolSlots' + Cardinality(Holding') = MaxToolCalls
  <2>1. toolSlots' + Cardinality(Holding') = toolSlots + Cardinality(Holding)
    <3>1. CASE to \in ToolPlaces /\ callAt[r] \in ToolPlaces
      BY <1>5, <3>1
    <3>2. CASE to \in ToolPlaces /\ callAt[r] \notin ToolPlaces
      <4>1. toolSlots' = toolSlots - 1 /\ Cardinality(Holding') = Cardinality(Holding) + 1
        BY <1>5, <3>2
      <4> QED
        BY ZenonT(60), <1>2, <1>4, <4>1, TakeAndGive
    <3>3. CASE to \notin ToolPlaces /\ callAt[r] \in ToolPlaces
      <4>1. toolSlots' = toolSlots + 1 /\ Cardinality(Holding') = Cardinality(Holding) - 1
        BY <1>5, <3>3
      <4> QED
        BY ZenonT(60), <1>2, <1>4, <4>1, TakeAndGive
    <3>4. CASE to \notin ToolPlaces /\ callAt[r] \notin ToolPlaces
      BY <1>5, <3>4
    <3> QED
      BY <3>1, <3>2, <3>3, <3>4
  <2> QED
    BY <1>4, <2>1
<1>6. \A q \in Calls : callChild'[q] # "none" => callAt'[q] = "waiting"
  BY DEF SlotInv, Shape, SlotsAreExact
<1> QED
  BY <1>1, <1>6, <1>7 DEF SlotInv, SlotsAreExact

(* Only a thread that waits for its child has one, and only between its     *)
(* acquire and its release does it hold a slot.                             *)
LEMMA ThreadKeeps ==
  ASSUME FiniteCalls, SlotInv, NEW r \in Calls, Arrive(r) \/ ThreadStep(r)
  PROVE  SlotInv'
<1>0. /\ callAt \in [Calls -> Places] /\ toolSlots \in Nat
      /\ callChild \in [Calls -> {"none", "running", "answered", "out of memory",
                                  "failed"}]
      /\ callChild[r] # "none" => callAt[r] = "waiting"
  BY DEF SlotInv, Shape, SlotsAreExact
<1>1. CASE Arrive(r) \/ FindSession(r) \/ EndSession(r) \/ Handle(r) \/ OpenSession(r)
  <2>1. /\ callAt[r] \in {"out", "checked", "dispatched", "opening"}
        /\ \E to \in {"checked", "dispatched", "opening", "answered"} :
              callAt' = [callAt EXCEPT ![r] = to]
        /\ UNCHANGED <<callChild, toolSlots>>
    BY <1>1 DEF Arrive, FindSession, EndSession, Handle, OpenSession, Goes
  <2> QED
    BY <1>0, <2>1, MoveHolds DEF Places, ToolPlaces
<1>2. CASE Acquire(r)
  <2>1. CASE toolSlots = 0
    <3>1. /\ callAt[r] = "dispatched" /\ callAt' = [callAt EXCEPT ![r] = "answered"]
          /\ UNCHANGED <<callChild, toolSlots>>
      BY <1>2, <2>1 DEF Acquire, Goes
    <3> QED
      BY <1>0, <3>1, MoveHolds DEF Places, ToolPlaces
  <2>2. CASE toolSlots # 0
    <3>1. /\ callAt[r] = "dispatched" /\ callAt' = [callAt EXCEPT ![r] = "slot held"]
          /\ toolSlots' = toolSlots - 1
          /\ UNCHANGED callChild
      BY <1>2, <2>2 DEF Acquire, Goes
    <3>2. toolSlots' \in Nat
      <4>1. toolSlots \in Nat \ {0}
        BY <1>0, <2>2
      <4>2. toolSlots' = toolSlots - 1
        BY <3>1
      <4> QED
        BY <4>1, <4>2
    <3> QED
      BY <1>0, <3>1, <3>2, MoveHolds DEF Places, ToolPlaces
  <2> QED
    BY <2>1, <2>2
<1>3. CASE Spawn(r)
  <2>1. /\ callAt[r] = "slot held" /\ callAt' = [callAt EXCEPT ![r] = "waiting"]
        /\ callChild' = [callChild EXCEPT ![r] = "running"]
        /\ UNCHANGED toolSlots
    BY <1>3 DEF Spawn, Goes
  <2> QED
    BY <1>0, <2>1, MoveHolds DEF Places, ToolPlaces
<1>4. CASE SpawnFails(r)
  <2>1. /\ callAt[r] = "slot held" /\ callAt' = [callAt EXCEPT ![r] = "releasing"]
        /\ UNCHANGED <<callChild, toolSlots>>
    BY <1>4 DEF SpawnFails, Goes
  <2> QED
    BY <1>0, <2>1, MoveHolds DEF Places, ToolPlaces
<1>5. CASE Collect(r) \/ TimeOut(r)
  <2>1. /\ callAt[r] = "waiting" /\ callAt' = [callAt EXCEPT ![r] = "releasing"]
        /\ callChild' = [callChild EXCEPT ![r] = "none"]
        /\ UNCHANGED toolSlots
    BY <1>5 DEF Collect, TimeOut, Goes
  <2> QED
    BY <1>0, <2>1, MoveHolds DEF Places, ToolPlaces
<1>6. CASE Release(r)
  <2>1. /\ callAt[r] = "releasing" /\ callAt' = [callAt EXCEPT ![r] = "answered"]
        /\ toolSlots' = toolSlots + 1
        /\ UNCHANGED callChild
    BY <1>6 DEF Release, Goes
  <2>2. toolSlots' \in Nat
    <3>1. toolSlots \in Nat
      BY <1>0
    <3>2. toolSlots' = toolSlots + 1
      BY <2>1
    <3> QED
      BY <3>1, <3>2
  <2>3. callChild[r] = "none"
    BY <1>0, <2>1
  <2>4. toolSlots' = IF "answered" \in ToolPlaces
                     THEN IF callAt[r] \in ToolPlaces THEN toolSlots ELSE toolSlots - 1
                     ELSE IF callAt[r] \in ToolPlaces THEN toolSlots + 1 ELSE toolSlots
    BY <2>1 DEF ToolPlaces
  <2>5. /\ callChild' \in [Calls -> {"none", "running", "answered", "out of memory",
                                    "failed"}]
        /\ \A q \in Calls \ {r} : callChild'[q] = callChild[q]
        /\ callChild'[r] = "none"
    BY <1>0, <2>1, <2>3
  <2>6. "answered" \in Places
    BY DEF Places
  <2> QED
    BY <2>1, <2>2, <2>4, <2>5, <2>6, MoveHolds
<1> QED
  BY <1>1, <1>2, <1>3, <1>4, <1>5, <1>6 DEF ThreadStep

LEMMA InitSlotInv ==
  ASSUME FiniteCalls, Init PROVE SlotInv
<1>1. Holding = {}
  BY DEF Init, Holding, ToolPlaces
<1>2. Cardinality(Holding) = 0 /\ MaxToolCalls \in Nat
  BY <1>1, FS_EmptySet DEF FiniteCalls, McpAssumption
<1> QED
  BY <1>2 DEF Init, SlotInv, Shape, Places, SlotsAreExact

LEMMA NextSlotInv ==
  ASSUME FiniteCalls, SlotInv, [Next]_callVars PROVE SlotInv'
<1>1. ASSUME NEW r \in Calls, ChildEnds(r) PROVE SlotInv'
  <2>1. /\ callChild[r] = "running"
        /\ \E how \in {"answered", "out of memory", "failed"} :
              callChild' = [callChild EXCEPT ![r] = how]
        /\ UNCHANGED <<callAt, toolSlots>>
    BY <1>1 DEF ChildEnds
  <2> QED
    BY <2>1 DEF SlotInv, Shape, SlotsAreExact, Holding
<1>2. CASE UNCHANGED callVars
  BY <1>2 DEF callVars, SlotInv, Shape, SlotsAreExact, Holding
<1> QED
  BY <1>1, <1>2, ThreadKeeps DEF Next

(* The tool slots of the HTTP server (run_tool_call, its `finally` and its  *)
(* kill): however calls end, slots and calls in progress add up and no      *)
(* child outlives the thread that waits for it.                             *)
THEOREM SlotsStayExact ==
  ASSUME McpAssumption, IsFiniteSet(Calls) PROVE Spec => []SlotsAreExact
<1>1. Init => SlotInv
  BY InitSlotInv DEF FiniteCalls
<1>2. SlotInv /\ [Next]_callVars => SlotInv'
  BY NextSlotInv DEF FiniteCalls
<1>3. SlotInv => SlotsAreExact
  BY DEF SlotInv
<1> QED
  BY <1>1, <1>2, <1>3, PTL DEF Spec

-----------------------------------------------------------------------------
(* The sessions.                                                            *)

(* The table holds sessions that were opened and not ended, the oldest      *)
(* first, at most MaxSessions; as many were opened behind each as follow it *)
(* at least.  A session that is missing was ended, or MaxSessions others    *)
(* were opened after it.                                                    *)
TableTypes ==
  /\ opened \in Nat /\ ended \subseteq 1..opened
  /\ sessions \in Seq(Nat) /\ Len(sessions) <= MaxSessions

Listed(i) ==
  /\ sessions[i] \in 1..opened /\ sessions[i] \notin ended
  /\ sessions[i] + Len(sessions) <= opened + i

OldestFirst == \A i, j \in 1..Len(sessions) : i < j => sessions[i] < sessions[j]

Known(sid) == \E i \in 1..Len(sessions) : sessions[i] = sid
Missing(sid) == sid \in ended \/ opened >= sid + MaxSessions

TableInv ==
  /\ TableTypes
  /\ \A i \in 1..Len(sessions) : Listed(i)
  /\ OldestFirst
  /\ \A sid \in 1..opened : Known(sid) \/ Missing(sid)

(* What a call has been told agrees with the table.                         *)
CallTypes ==
  /\ callAt \in [Calls -> Places] /\ callGot \in [Calls -> Outcomes \cup Statuses]
  /\ callSid \in [Calls -> Nat] /\ endedBefore \in [Calls -> SUBSET Nat]

(* A session ended before the call arrived has served it nothing.           *)
ServedNothing(r) ==
  callSid[r] \in endedBefore[r] /\ NeedsSession(callIs[r]) =>
    /\ callAt[r] \in {"out", "checked", "answered"}
    /\ callAt[r] = "answered" => callGot[r] \notin {"200", "204"} \cup Outcomes

Told(r) ==
  /\ callSid[r] <= opened /\ endedBefore[r] \subseteq ended
  /\ callAt[r] = "out" => callGot[r] = "none"
  /\ ServedNothing(r)
  /\ callGot[r] = "204" => callSid[r] \in ended
  /\ callGot[r] = "404" /\ "path" \notin callIs[r].fails /\ callSid[r] # 0 => Missing(callSid[r])

EndedOnce ==
  \A r, q \in Calls : r # q /\ callGot[r] = "204" /\ callGot[q] = "204" => callSid[r] # callSid[q]

SessionsInv == TableInv /\ CallTypes /\ (\A r \in Calls : Told(r)) /\ EndedOnce

(* A check that fails names one of the checks' statuses, and 404 is the     *)
(* path's.                                                                  *)
LEMMA RefusalsAreStatuses ==
  ASSUME NEW p
  PROVE  /\ RefusedAs(p) \in Statuses \ {"200", "204"}
         /\ RefusedAs(p) = "404" => "path" \in p.fails
<1>1. FirstFailing(p, Prelude) \in {"none", "403", "404", "401", "400"}
      /\ (FirstFailing(p, Prelude) = "404" => "path" \in p.fails)
  <2> DEFINE failing == {i \in DOMAIN Prelude : Prelude[i].check \in p.fails}
  <2>1. DOMAIN Prelude = 1..4
    BY DEF Prelude
  <2>2. CASE failing = {}
    BY <2>2 DEF FirstFailing
  <2>3. CASE failing # {}
    <3>1. PICK i \in failing : \A j \in failing : i <= j
      BY <2>1, <2>3
    <3>2. (CHOOSE k \in failing : \A j \in failing : k <= j) \in failing
      BY <3>1
    <3>3. PICK k \in failing : FirstFailing(p, Prelude) = Prelude[k].code
      BY <2>3, <3>2 DEF FirstFailing
    <3>4. k \in 1..4 /\ Prelude[k].check \in p.fails
      BY <2>1
    <3>5. CASE k = 1
      BY <3>3, <3>5 DEF Prelude
    <3>6. CASE k = 2
      BY <3>3, <3>4, <3>6 DEF Prelude
    <3>7. CASE k = 3
      BY <3>3, <3>7 DEF Prelude
    <3>8. CASE k = 4
      BY <3>3, <3>8 DEF Prelude
    <3> QED
      BY <3>4, <3>5, <3>6, <3>7, <3>8
  <2> QED
    BY <2>2, <2>3
<1>2. FirstFailing(p, ReadMessage) \in {"none", "411", "415", "413", "400"}
  <2> DEFINE failing == {i \in DOMAIN ReadMessage : ReadMessage[i].check \in p.fails}
  <2>1. DOMAIN ReadMessage = 1..6
    BY DEF ReadMessage
  <2>2. CASE failing = {}
    BY <2>2 DEF FirstFailing
  <2>3. CASE failing # {}
    <3>1. PICK i \in failing : \A j \in failing : i <= j
      BY <2>1, <2>3
    <3>2. (CHOOSE k \in failing : \A j \in failing : k <= j) \in failing
      BY <3>1
    <3>3. PICK k \in failing : FirstFailing(p, ReadMessage) = ReadMessage[k].code
      BY <2>3, <3>2 DEF FirstFailing
    <3>4. k \in 1..6
      BY <2>1
    <3>5. /\ ReadMessage[1].code = "411" /\ ReadMessage[2].code = "415"
          /\ ReadMessage[3].code = "411" /\ ReadMessage[4].code = "413"
          /\ ReadMessage[5].code = "400" /\ ReadMessage[6].code = "400"
      BY DEF ReadMessage
    <3>6. k \in {1, 2, 3, 4, 5, 6}
      BY <3>4
    <3> QED
      BY <3>3, <3>5, <3>6
  <2> QED
    BY <2>2, <2>3
<1> QED
  BY <1>1, <1>2 DEF RefusedAs, Statuses

LEMMA SecondPart ==
  ASSUME NEW a \in Seq(Nat), NEW b \in Seq(Nat), NEW k \in 1..Len(b)
  PROVE  (a \o b)[Len(a) + k] = b[k]
OBVIOUS

LEMMA RemovedAt ==
  ASSUME NEW s \in Seq(Nat), NEW i \in 1..Len(s)
  PROVE  /\ RemoveAt(s, i) \in Seq(Nat) /\ Len(RemoveAt(s, i)) = Len(s) - 1
         /\ \A j \in 1..(Len(s) - 1) : RemoveAt(s, i)[j] = IF j < i THEN s[j] ELSE s[j + 1]
<1>1. SubSeq(s, 1, i - 1) \in Seq(Nat) /\ Len(SubSeq(s, 1, i - 1)) = i - 1
      /\ \A j \in 1..(i - 1) : SubSeq(s, 1, i - 1)[j] = s[j]
  OBVIOUS
<1>2. SubSeq(s, i + 1, Len(s)) \in Seq(Nat) /\ Len(SubSeq(s, i + 1, Len(s))) = Len(s) - i
      /\ \A j \in 1..(Len(s) - i) : SubSeq(s, i + 1, Len(s))[j] = s[i + j]
  OBVIOUS
<1> DEFINE a == SubSeq(s, 1, i - 1)
           b == SubSeq(s, i + 1, Len(s))
<1>3. RemoveAt(s, i) = a \o b
  BY DEF RemoveAt
<1> HIDE DEF a, b
<1>4. a \in Seq(Nat) /\ b \in Seq(Nat) /\ Len(a) = i - 1 /\ Len(b) = Len(s) - i
  BY <1>1, <1>2 DEF a, b
<1>5. a \o b \in Seq(Nat) /\ Len(a \o b) = Len(s) - 1
  BY <1>4
<1>6. ASSUME NEW j \in 1..(Len(s) - 1)
      PROVE  (a \o b)[j] = IF j < i THEN s[j] ELSE s[j + 1]
  <2>1. CASE j < i
    <3>1. (a \o b)[j] = a[j]
      BY <1>4, <2>1
    <3> QED
      BY <1>1, <2>1, <3>1 DEF a
  <2>2. CASE ~ (j < i)
    <3>2. /\ j - (i - 1) \in 1..(Len(s) - i) /\ i + (j - (i - 1)) = j + 1
          /\ j \in (i - 1 + 1)..(i - 1 + (Len(s) - i))
      BY <2>2
    <3>1. (a \o b)[j] = b[j - (i - 1)]
      <4>1. j - (i - 1) \in 1..Len(b) /\ Len(a) + (j - (i - 1)) = j
        BY <1>4, <3>2
      <4> QED
        BY SMTT(60), <1>4, <4>1, SecondPart
    <3> QED
      BY <1>2, <2>2, <3>1, <3>2 DEF b
  <2> QED
    BY <2>1, <2>2
<1> QED
  BY <1>3, <1>5, <1>6

(* end_session, found.                                                      *)
LEMMA RemovalKeeps ==
  ASSUME McpAssumption, TableInv, NEW i \in DOMAIN sessions,
         sessions' = RemoveAt(sessions, i),
         ended' = ended \cup {sessions[i]}, UNCHANGED opened
  PROVE  TableInv'
<1>0. PICK n \in Nat : n = Len(sessions)
  BY DEF TableInv, TableTypes
<1>1. /\ i \in 1..n /\ opened \in Nat /\ MaxSessions \in Nat \ {0}
      /\ sessions[i] \in 1..opened /\ n <= MaxSessions
      /\ ended \subseteq 1..opened
  BY <1>0 DEF TableInv, TableTypes, Listed, McpAssumption
<1>2. /\ sessions' \in Seq(Nat) /\ Len(sessions') = n - 1
      /\ \A j \in 1..(n - 1) : sessions'[j] = IF j < i THEN sessions[j] ELSE sessions[j + 1]
  <2>1. sessions \in Seq(Nat) /\ i \in 1..Len(sessions)
    BY <1>0, <1>1 DEF TableInv, TableTypes
  <2> QED
    BY <1>0, <2>1, RemovedAt
<1>a. \A j \in 1..n : sessions[j] \in Nat
  BY <1>0 DEF TableInv, TableTypes
<1>b. \A j, k \in 1..n : j < k => sessions[j] < sessions[k]
  BY <1>0 DEF TableInv, OldestFirst
<1>c. \A j \in 1..n : /\ sessions[j] \in 1..opened /\ sessions[j] \notin ended
                      /\ sessions[j] + n <= opened + j
  BY <1>0 DEF TableInv, Listed
<1>3. TableTypes'
  <2>1. sessions' \in Seq(Nat) /\ Len(sessions') <= MaxSessions
    BY <1>1, <1>2
  <2>2. opened' \in Nat /\ ended' \subseteq 1..opened'
    BY <1>1
  <2> QED
    BY <2>1, <2>2 DEF TableTypes
<1>4. OldestFirst'
  <2> SUFFICES ASSUME NEW j \in 1..(n - 1), NEW k \in 1..(n - 1), j < k
               PROVE  sessions'[j] < sessions'[k]
    BY <1>2 DEF OldestFirst
  <2>1. /\ j \in 1..n /\ k \in 1..n /\ j + 1 \in 1..n /\ k + 1 \in 1..n
        /\ j < k + 1 /\ j + 1 < k + 1
    BY <1>1
  <2>2. /\ sessions[j] < sessions[k] /\ sessions[j] < sessions[k + 1]
        /\ sessions[j + 1] < sessions[k + 1]
    BY <1>b, <2>1
  <2>3. /\ sessions'[j] = IF j < i THEN sessions[j] ELSE sessions[j + 1]
        /\ sessions'[k] = IF k < i THEN sessions[k] ELSE sessions[k + 1]
    BY <1>2
  <2>4. i \in Int /\ (k < i => j < i)
    BY <1>1
  <2> QED
    BY <2>2, <2>3, <2>4
<1>5. ASSUME NEW j \in 1..(n - 1) PROVE Listed(j)'
  <2>1. CASE j < i
    <3>1. j \in 1..n /\ sessions'[j] = sessions[j] /\ sessions[j] < sessions[i]
      <4>1. j \in 1..n
        BY <1>1
      <4> QED
        BY <1>1, <1>2, <1>b, <2>1, <4>1
    <3>2. /\ sessions'[j] \in 1..opened /\ sessions'[j] \notin ended'
          /\ sessions'[j] + (n - 1) <= opened + j
      BY <1>1, <1>c, <3>1
    <3> QED
      BY <1>2, <3>2 DEF Listed
  <2>2. CASE ~ (j < i)
    <3>1. j + 1 \in 1..n /\ i < j + 1
      BY <1>1, <2>2
    <3>2. sessions'[j] = sessions[j + 1] /\ sessions[i] < sessions[j + 1]
      BY <1>1, <1>2, <1>b, <2>2, <3>1
    <3>3. /\ sessions'[j] \in 1..opened /\ sessions'[j] \notin ended'
          /\ sessions'[j] + (n - 1) <= opened + j
      BY <1>1, <1>c, <3>1, <3>2
    <3> QED
      BY <1>2, <3>3 DEF Listed
  <2> QED
    BY <2>1, <2>2
<1>6. ASSUME NEW sid \in 1..opened PROVE Known(sid)' \/ Missing(sid)'
  <2>1. CASE Missing(sid)
    BY <2>1 DEF Missing
  <2>2. CASE Known(sid) /\ sid # sessions[i]
    <3>1. PICK j \in 1..n : sessions[j] = sid
      BY <1>0, <2>2 DEF Known
    <3>2. CASE j < i
      <4>1. j \in 1..(n - 1) /\ sessions'[j] = sid
        BY <1>1, <1>2, <3>1, <3>2
      <4> QED
        BY <1>2, <4>1 DEF Known
    <3>3. CASE j > i
      <4>1. j - 1 \in 1..(n - 1) /\ sessions'[j - 1] = sid
        BY <1>1, <1>2, <3>1, <3>3
      <4> QED
        BY <1>2, <4>1 DEF Known
    <3> QED
      BY <1>1, <2>2, <3>1, <3>2, <3>3
  <2>3. CASE sid = sessions[i]
    BY <2>3 DEF Missing
  <2> QED
    BY <2>1, <2>2, <2>3 DEF TableInv
<1>7. /\ \A j \in 1..Len(sessions') : Listed(j)'
      /\ \A sid \in 1..opened' : Known(sid)' \/ Missing(sid)'
  BY <1>2, <1>5, <1>6
<1> QED
  BY <1>3, <1>4, <1>7 DEF TableInv

(* new_session: what popitem drops is MaxSessions behind the newest.        *)
LEMMA OpenKeeps ==
  ASSUME McpAssumption, TableInv, opened' = opened + 1, UNCHANGED ended,
         LET list == Append(sessions, opened + 1)
         IN  sessions' = IF Len(list) > MaxSessions THEN Kept(list) ELSE list
  PROVE  TableInv'
<1> DEFINE list == Append(sessions, opened + 1)
<1>0. PICK n \in Nat : n = Len(sessions)
  BY DEF TableInv, TableTypes
<1>1. /\ opened \in Nat /\ MaxSessions \in Nat \ {0}
      /\ sessions \in Seq(Nat) /\ n <= MaxSessions /\ ended \subseteq 1..opened
  BY <1>0 DEF TableInv, TableTypes, McpAssumption
<1>2. /\ list \in Seq(Nat) /\ Len(list) = n + 1 /\ list[n + 1] = opened + 1
      /\ \A j \in 1..n : list[j] = sessions[j]
  BY <1>0, <1>1
<1>3. sessions' = IF Len(list) > MaxSessions THEN Kept(list) ELSE list
  OBVIOUS
<1> HIDE DEF list
<1>4. \A j \in 1..n : /\ list[j] \in 1..opened /\ list[j] \notin ended
                      /\ list[j] + n <= opened + j
  BY <1>0, <1>2 DEF TableInv, Listed
<1>a. \A i, j \in 1..n : i < j => list[i] < list[j]
  BY <1>0, <1>2 DEF TableInv, OldestFirst
<1>b. list \in Seq(Nat) /\ Len(list) = n + 1 /\ list[n + 1] = opened + 1
  BY <1>2
<1>5. \A j \in 1..(n + 1) : /\ list[j] \in 1..(opened + 1) /\ list[j] \notin ended
                            /\ list[j] + (n + 1) <= (opened + 1) + j
  <2> SUFFICES ASSUME NEW j \in 1..(n + 1)
               PROVE  /\ list[j] \in 1..(opened + 1) /\ list[j] \notin ended
                      /\ list[j] + (n + 1) <= (opened + 1) + j
    OBVIOUS
  <2>1. CASE j = n + 1
    BY <1>1, <1>2, <2>1
  <2>2. CASE j \in 1..n
    BY SMTT(60), <1>1, <1>4, <2>2
  <2> QED
    BY <1>1, <2>1, <2>2
<1>6. \A i, j \in 1..(n + 1) : i < j => list[i] < list[j]
  <2> SUFFICES ASSUME NEW i \in 1..(n + 1), NEW j \in 1..(n + 1), i < j
               PROVE  list[i] < list[j]
    OBVIOUS
  <2>1. CASE j = n + 1
    <3>1. i \in 1..n
      BY <2>1
    <3>2. list[i] \in 1..opened /\ list[j] = opened + 1
      BY <1>4, <1>b, <2>1, <3>1
    <3> QED
      BY <1>1, <3>2
  <2>2. CASE j \in 1..n
    <3>1. i \in 1..n
      BY <2>2
    <3> QED
      BY <1>a, <2>2, <3>1
  <2> QED
    BY <1>1, <2>1, <2>2
<1>7. \A sid \in 1..(opened + 1) :
        (\E j \in 1..(n + 1) : list[j] = sid) \/ sid \in ended \/ opened >= sid + MaxSessions
  <2> SUFFICES ASSUME NEW sid \in 1..(opened + 1)
               PROVE  \/ \E j \in 1..(n + 1) : list[j] = sid
                      \/ sid \in ended \/ opened >= sid + MaxSessions
    OBVIOUS
  <2>1. CASE sid = opened + 1
    BY <1>1, <1>2, <2>1
  <2>2. CASE sid \in 1..opened /\ Known(sid)
    <3>1. PICK j \in 1..n : sessions[j] = sid
      BY <1>0, <2>2 DEF Known
    <3>2. j \in 1..(n + 1) /\ list[j] = sid
      BY <1>1, <1>2, <3>1
    <3> QED
      BY <3>2
  <2>3. CASE sid \in 1..opened /\ Missing(sid)
    BY <2>3 DEF Missing
  <2> QED
    BY <1>1, <2>1, <2>2, <2>3 DEF TableInv
<1>8. CASE n + 1 <= MaxSessions
  <2>1. sessions' = list
    BY <1>1, <1>2, <1>3, <1>8
  <2>2. TableTypes'
    BY <1>1, <1>2, <1>8, <2>1 DEF TableTypes
  <2>3. OldestFirst'
    BY <1>2, <1>6, <2>1 DEF OldestFirst
  <2>4. \A j \in 1..Len(sessions') : Listed(j)'
    BY <1>2, <1>5, <2>1 DEF Listed
  <2>5. \A sid \in 1..opened' : Known(sid)' \/ Missing(sid)'
    <3> SUFFICES ASSUME NEW sid \in 1..(opened + 1) PROVE Known(sid)' \/ Missing(sid)'
      OBVIOUS
    <3>1. CASE \E j \in 1..(n + 1) : list[j] = sid
      BY <1>2, <2>1, <3>1 DEF Known
    <3>2. CASE sid \in ended \/ opened >= sid + MaxSessions
      BY <1>1, <3>2 DEF Missing
    <3> QED
      BY <1>7, <3>1, <3>2
  <2> QED
    BY <2>2, <2>3, <2>4, <2>5 DEF TableInv
<1>9. CASE n = MaxSessions
  <2>1. sessions' = SubSeq(list, 2, n + 1)
    <3>1. Len(list) > MaxSessions /\ Len(list) - MaxSessions + 1 = 2
      BY <1>1, <1>9, <1>b
    <3> QED
      BY <1>3, <1>b, <3>1 DEF Kept
  <2>2. /\ sessions' \in Seq(Nat) /\ Len(sessions') = n
        /\ \A j \in 1..n : sessions'[j] = list[j + 1]
    <3>1. /\ SubSeq(list, 2, n + 1) \in Seq(Nat) /\ Len(SubSeq(list, 2, n + 1)) = n
          /\ \A j \in 1..n : SubSeq(list, 2, n + 1)[j] = list[2 + (j - 1)]
      BY <1>b
    <3>2. \A j \in 1..n : 2 + (j - 1) = j + 1
      OBVIOUS
    <3> QED
      BY <2>1, <3>1, <3>2
  <2>3. TableTypes'
    BY <1>1, <1>9, <2>2 DEF TableTypes
  <2>4. OldestFirst'
    <3> SUFFICES ASSUME NEW i \in 1..n, NEW j \in 1..n, i < j
                 PROVE  sessions'[i] < sessions'[j]
      BY <2>2 DEF OldestFirst
    <3>1. i + 1 \in 1..(n + 1) /\ j + 1 \in 1..(n + 1) /\ i + 1 < j + 1
      OBVIOUS
    <3>2. list[i + 1] < list[j + 1]
      BY <1>6, <3>1
    <3> QED
      BY <2>2, <3>2
  <2>5. \A j \in 1..Len(sessions') : Listed(j)'
    <3> SUFFICES ASSUME NEW j \in 1..n PROVE Listed(j)'
      BY <2>2
    <3>1. /\ j + 1 \in 1..(n + 1) /\ sessions'[j] = list[j + 1]
          /\ list[j + 1] \in 1..(opened + 1) /\ list[j + 1] \notin ended
          /\ list[j + 1] + (n + 1) <= (opened + 1) + (j + 1)
      BY SMTT(60), <1>1, <1>5, <2>2
    <3>2. /\ sessions'[j] \in 1..opened' /\ sessions'[j] \notin ended'
          /\ sessions'[j] + n <= opened' + j
      <4>1. PICK sid \in Nat : sid = list[j + 1] /\ sid + (n + 1) <= (opened + 1) + (j + 1)
        BY <3>1
      <4>2. sid + n <= (opened + 1) + j
        BY <1>1, <4>1
      <4> QED
        BY <3>1, <4>1, <4>2
    <3> QED
      BY <2>2, <3>2 DEF Listed
  <2>6. \A sid \in 1..opened' : Known(sid)' \/ Missing(sid)'
    <3> SUFFICES ASSUME NEW sid \in 1..(opened + 1) PROVE Known(sid)' \/ Missing(sid)'
      OBVIOUS
    <3>1. CASE \E j \in 1..(n + 1) : list[j] = sid
      <4>1. PICK j \in 1..(n + 1) : list[j] = sid
        BY <3>1
      <4>2. CASE j = 1
        <5>1. sid + (n + 1) <= (opened + 1) + 1
          BY <1>5, <4>1, <4>2
        <5> QED
          BY <1>1, <1>9, <5>1 DEF Missing
      <4>3. CASE j # 1
        <5>1. j - 1 \in 1..n /\ (j - 1) + 1 = j
          BY <4>3
        <5>2. sessions'[j - 1] = sid
          BY <2>2, <4>1, <5>1
        <5> QED
          BY <2>2, <5>1, <5>2 DEF Known
      <4> QED
        BY <4>2, <4>3
    <3>2. CASE sid \in ended \/ opened >= sid + MaxSessions
      BY <1>1, <3>2 DEF Missing
    <3> QED
      BY <1>7, <3>1, <3>2
  <2> QED
    BY <2>3, <2>4, <2>5, <2>6 DEF TableInv
<1> QED
  BY <1>1, <1>8, <1>9

(* What a thread was told stays true while other threads work.              *)
LEMMA ToldStays ==
  ASSUME McpAssumption, SessionsInv, NEW q \in Calls,
         callAt'[q] = callAt[q], callGot'[q] = callGot[q], callSid'[q] = callSid[q],
         endedBefore'[q] = endedBefore[q], callIs' = callIs,
         opened' \in Nat, opened <= opened', ended \subseteq ended'
  PROVE  Told(q)'
<1>1. Told(q) /\ callSid[q] \in Nat /\ opened \in Nat /\ callSid'[q] \in Nat
  BY DEF SessionsInv, CallTypes, TableInv, TableTypes
<1>2. Missing(callSid[q]) => Missing(callSid[q])'
  BY <1>1 DEF Missing, McpAssumption
<1>3. ServedNothing(q)'
  BY <1>1 DEF Told, ServedNothing, NeedsSession
<1>4. callSid'[q] <= opened' /\ endedBefore'[q] \subseteq ended'
  BY <1>1 DEF Told
<1> QED
  BY <1>1, <1>2, <1>3, <1>4 DEF Told, Missing

(* A step that leaves the table alone, the call's session with it.          *)
LEMMA MoveTells ==
  ASSUME McpAssumption, SessionsInv, NEW r \in Calls, NEW to \in Places \ {"out"},
         NEW got \in Outcomes \cup Statuses,
         callAt' = [callAt EXCEPT ![r] = to], callGot' = [callGot EXCEPT ![r] = got],
         UNCHANGED <<callIs, callSid, sessionVars, endedBefore>>,
         \/ got = callGot[r]
         \/ got \notin {"204", "404"}
         \/ got = "404" /\ (callSid[r] # 0 => Missing(callSid[r])),
         callSid[r] \in endedBefore[r] /\ NeedsSession(callIs[r]) =>
           /\ to \in {"checked", "answered"}
           /\ to = "answered" => got \notin {"200", "204"} \cup Outcomes
  PROVE  SessionsInv'
<1>1. TableInv'
  BY DEF SessionsInv, TableInv, TableTypes, Listed, OldestFirst, Known, Missing,
      sessionVars
<1>2. CallTypes'
  BY DEF SessionsInv, CallTypes
<1>3. callAt'[r] = to /\ callGot'[r] = got
  BY DEF SessionsInv, CallTypes
<1>4. \A q \in Calls : q # r => callAt'[q] = callAt[q] /\ callGot'[q] = callGot[q]
  BY DEF SessionsInv, CallTypes
<1>5. ASSUME NEW q \in Calls PROVE Told(q)'
  <2>1. opened' \in Nat /\ opened <= opened' /\ ended \subseteq ended'
    BY DEF SessionsInv, TableInv, TableTypes, sessionVars
  <2>2. CASE q # r
    BY <1>4, <2>1, <2>2, ToldStays
  <2>3. CASE q = r
    <3>1. Told(r) /\ Missing(callSid[r])' = Missing(callSid[r])
      BY DEF SessionsInv, Missing, sessionVars
    <3>2. ServedNothing(r)'
      BY <1>3 DEF ServedNothing, NeedsSession
    <3> QED
      BY <1>3, <2>3, <3>1, <3>2 DEF Told, sessionVars
  <2> QED
    BY <2>2, <2>3
<1>6. EndedOnce'
  BY <1>3, <1>4 DEF SessionsInv, EndedOnce
<1> QED
  BY <1>1, <1>2, <1>5, <1>6 DEF SessionsInv

LEMMA ArriveTells ==
  ASSUME McpAssumption, SessionsInv, NEW r \in Calls, Arrive(r)
  PROVE  SessionsInv'
<1>1. callAt[r] = "out" /\ callGot[r] = "none" /\ Told(r)
  BY DEF Arrive, Goes, SessionsInv, Told
<1>2. opened \in Nat /\ ended \subseteq 1..opened /\ UNCHANGED <<callIs, sessionVars>>
  BY DEF Arrive, SessionsInv, TableInv, TableTypes
<1>3. PICK sid \in 0..opened : callSid' = [callSid EXCEPT ![r] = sid]
  BY DEF Arrive
<1>4. PICK got \in Statuses \ {"200", "204"}, to \in {"checked", "answered"} :
        /\ callAt' = [callAt EXCEPT ![r] = to] /\ callGot' = [callGot EXCEPT ![r] = got]
        /\ got = "404" => "path" \in callIs[r].fails
  <2> DEFINE code == RefusedAs(callIs[r])
  <2>1. code \in Statuses \ {"200", "204"} /\ (code = "404" => "path" \in callIs[r].fails)
    BY RefusalsAreStatuses
  <2>2. CASE code # "none"
    BY <2>1, <2>2 DEF Arrive, Goes, Gets
  <2>3. CASE code = "none"
    <3>1. callAt' = [callAt EXCEPT ![r] = "checked"] /\ callGot' = callGot
      BY <2>3 DEF Arrive, Goes
    <3>2. callGot' = [callGot EXCEPT ![r] = "none"]
      BY <1>1, <3>1 DEF SessionsInv, CallTypes
    <3> QED
      BY <3>1, <3>2 DEF Statuses
  <2> QED
    BY <2>2, <2>3
<1>5. endedBefore' = [endedBefore EXCEPT ![r] = ended]
  BY DEF Arrive
<1>6. TableInv'
  BY <1>2 DEF SessionsInv, TableInv, TableTypes, Listed, OldestFirst, Known,
      Missing,
      sessionVars
<1>7. CallTypes'
  <2>1. ended \in SUBSET Nat /\ sid \in Nat /\ to \in Places /\ got \in Statuses
    BY <1>2 DEF Places
  <2> QED
    BY <1>3, <1>4, <1>5, <2>1 DEF SessionsInv, CallTypes
<1>8. /\ callAt'[r] = to /\ callGot'[r] = got /\ callSid'[r] = sid
      /\ endedBefore'[r] = ended
  BY <1>3, <1>4, <1>5 DEF SessionsInv, CallTypes
<1>9. ASSUME NEW q \in Calls PROVE Told(q)'
  <2>1. CASE q # r
    <3>1. /\ callAt'[q] = callAt[q] /\ callGot'[q] = callGot[q]
          /\ callSid'[q] = callSid[q] /\ endedBefore'[q] = endedBefore[q]
      BY <1>3, <1>4, <1>5, <2>1 DEF SessionsInv, CallTypes
    <3>2. opened' \in Nat /\ opened <= opened' /\ ended \subseteq ended'
      BY <1>2 DEF sessionVars
    <3> QED
      BY <1>2, <3>1, <3>2, ToldStays
  <2>2. CASE q = r
    <3>1. got \notin {"200", "204"} \cup Outcomes
      BY DEF Statuses, Outcomes
    <3>2. ServedNothing(r)'
      BY <1>8, <3>1 DEF ServedNothing
    <3>3. callSid'[r] <= opened' /\ endedBefore'[r] \subseteq ended'
      BY <1>2, <1>8 DEF sessionVars
    <3> QED
      BY <1>2, <1>4, <1>8, <2>2, <3>1, <3>2, <3>3 DEF Told
  <2> QED
    BY <2>1, <2>2
<1>10. EndedOnce'
  <2>1. \A q \in Calls : q # r => callGot'[q] = callGot[q] /\ callSid'[q] = callSid[q]
    BY <1>3, <1>4 DEF SessionsInv, CallTypes
  <2> QED
    BY <1>8, <2>1 DEF SessionsInv, EndedOnce
<1> QED
  BY <1>6, <1>7, <1>9, <1>10 DEF SessionsInv

(* A call that has a session, or none to have, is served; the others learn  *)
(* that theirs is missing.                                                  *)
LEMMA FindTells ==
  ASSUME McpAssumption, SessionsInv, NEW r \in Calls, callSid[r] # 0
  PROVE  /\ HasSession(r) => callSid[r] \notin ended
         /\ ~HasSession(r) => Missing(callSid[r])
<1>1. callSid[r] \in 1..opened
  <2>1. callSid[r] \in Nat /\ callSid[r] <= opened /\ opened \in Nat
    BY DEF SessionsInv, CallTypes, Told, TableInv, TableTypes
  <2> QED
    BY <2>1
<1>2. HasSession(r) <=> Known(callSid[r])
  BY DEF HasSession, Range, Known, SessionsInv, TableInv, TableTypes
<1> QED
  BY <1>1, <1>2 DEF SessionsInv, TableInv, Known, Listed

(* Where a thread goes that has found its session, or needs none.           *)
LEMMA ServedTells ==
  ASSUME McpAssumption, SessionsInv, NEW r \in Calls, NEW to \in Places \ {"out"},
         NEW got \in Outcomes \cup Statuses,
         callAt[r] \notin {"out", "checked", "answered"},
         callAt' = [callAt EXCEPT ![r] = to], callGot' = [callGot EXCEPT ![r] = got],
         UNCHANGED <<callIs, callSid, sessionVars, endedBefore>>,
         got = callGot[r] \/ got \notin {"204", "404"}
  PROVE  SessionsInv'
<1>1. ~ (callSid[r] \in endedBefore[r] /\ NeedsSession(callIs[r]))
  BY DEF SessionsInv, Told, ServedNothing
<1> QED
  BY <1>1, MoveTells

LEMMA FindSessionTells ==
  ASSUME McpAssumption, SessionsInv, NEW r \in Calls, FindSession(r)
  PROVE  SessionsInv'
<1>1. /\ callAt[r] = "checked" /\ callGot[r] \in Outcomes \cup Statuses /\ Told(r)
      /\ callSid[r] \in Nat
      /\ UNCHANGED <<callIs, callSid, sessionVars, endedBefore>>
  BY DEF FindSession, Goes, SessionsInv, CallTypes
<1>2. CASE NeedsSession(callIs[r]) /\ ~HasSession(r)
  <2>1. /\ callAt' = [callAt EXCEPT ![r] = "answered"]
        /\ callGot' = [callGot EXCEPT ![r] = "404"]
    BY <1>2 DEF FindSession, Goes, Gets
  <2>2. "404" \in Statuses /\ "answered" \in Places \ {"out"}
    BY DEF Statuses, Places
  <2>3. "404" \notin {"200", "204"} \cup Outcomes
    BY DEF Outcomes
  <2>4. callSid[r] # 0 => Missing(callSid[r])
    BY <1>2, FindTells
  <2> QED
    BY <1>1, <2>1, <2>2, <2>3, <2>4, MoveTells
<1>3. CASE ~ (NeedsSession(callIs[r]) /\ ~HasSession(r))
  <2>1. /\ callAt' = [callAt EXCEPT ![r] = "dispatched"]
        /\ callGot' = callGot
    BY <1>3 DEF FindSession, Goes, Gets
  <2>2. callGot' = [callGot EXCEPT ![r] = callGot[r]]
    BY <2>1 DEF SessionsInv, CallTypes
  <2>3. ~ (callSid[r] \in endedBefore[r] /\ NeedsSession(callIs[r]))
    <3> SUFFICES ASSUME callSid[r] \in endedBefore[r], NeedsSession(callIs[r]) PROVE FALSE
      OBVIOUS
    <3>1. callSid[r] \in ended /\ callSid[r] # 0
      BY <1>1 DEF Told, SessionsInv, TableInv, TableTypes
    <3> QED
      BY <1>3, <3>1, FindTells
  <2>4. "dispatched" \in Places \ {"out"}
    BY DEF Places
  <2> QED
    BY <1>1, <2>1, <2>2, <2>3, <2>4, MoveTells
<1> QED
  BY <1>2, <1>3

LEMMA EndSessionTells ==
  ASSUME McpAssumption, SessionsInv, NEW r \in Calls, EndSession(r)
  PROVE  SessionsInv'
<1>1. /\ callAt[r] = "checked" /\ Told(r) /\ callSid[r] \in Nat
      /\ callAt' = [callAt EXCEPT ![r] = "answered"]
      /\ UNCHANGED <<callIs, callSid, opened, endedBefore>>
  BY DEF EndSession, Goes, SessionsInv, CallTypes
<1>2. ASSUME NEW i \in DOMAIN sessions, sessions[i] = callSid[r],
             sessions' = RemoveAt(sessions, i),
             ended' = ended \cup {callSid[r]}, Gets(r, "204")
      PROVE  SessionsInv'
  <2>1. TableInv'
    BY <1>1, <1>2, RemovalKeeps DEF SessionsInv
  <2>2. callGot' = [callGot EXCEPT ![r] = "204"] /\ "204" \in Statuses
        /\ "answered" \in Places
    BY <1>2 DEF Gets, Statuses, Places
  <2>3. CallTypes'
    BY <1>1, <2>2 DEF SessionsInv, CallTypes
  <2>4. callAt'[r] = "answered" /\ callGot'[r] = "204"
    BY <1>1, <2>2 DEF SessionsInv, CallTypes
  <2>5. \A q \in Calls : q # r => callAt'[q] = callAt[q] /\ callGot'[q] = callGot[q]
    BY <1>1, <2>2 DEF SessionsInv, CallTypes
  <2>6. callSid[r] \notin ended /\ opened \in Nat
    BY <1>2 DEF SessionsInv, TableInv, TableTypes, Listed
  <2>7. ASSUME NEW q \in Calls PROVE Told(q)'
    <3>1. CASE q # r
      BY <1>1, <1>2, <2>5, <2>6, <3>1, ToldStays
    <3>2. CASE q = r
      <4>1. callSid[r] \notin endedBefore[r]
        BY <1>1, <2>6 DEF Told
      <4>2. ServedNothing(r)'
        BY <1>1, <4>1 DEF ServedNothing
      <4> QED
        BY <1>1, <1>2, <2>4, <3>2, <4>2 DEF Told
    <3> QED
      BY <3>1, <3>2
  <2>8. EndedOnce'
    <3>1. \A q \in Calls : q # r /\ callGot[q] = "204" => callSid[q] # callSid[r]
      BY <2>6 DEF SessionsInv, Told
    <3> QED
      BY <1>1, <2>4, <2>5, <3>1 DEF SessionsInv, EndedOnce
  <2> QED
    BY <2>1, <2>3, <2>7, <2>8 DEF SessionsInv
<1>3. ASSUME ~HasSession(r), Gets(r, "404"), UNCHANGED <<sessions, ended>>
      PROVE  SessionsInv'
  <2>1. callGot' = [callGot EXCEPT ![r] = "404"] /\ UNCHANGED sessionVars
    BY <1>1, <1>3 DEF Gets, sessionVars
  <2>2. "404" \in Statuses /\ "answered" \in Places \ {"out"}
    BY DEF Statuses, Places
  <2>3. "404" \notin {"200", "204"} \cup Outcomes
    BY DEF Outcomes
  <2>4. callSid[r] # 0 => Missing(callSid[r])
    BY <1>3, FindTells
  <2> QED
    BY <1>1, <2>1, <2>2, <2>3, <2>4, MoveTells
<1> QED
  BY <1>2, <1>3 DEF EndSession

LEMMA OpenSessionTells ==
  ASSUME McpAssumption, SessionsInv, NEW r \in Calls, OpenSession(r)
  PROVE  SessionsInv'
<1>1. /\ callAt[r] = "opening" /\ Told(r) /\ callSid[r] \in Nat
      /\ callAt' = [callAt EXCEPT ![r] = "answered"]
      /\ callGot' = [callGot EXCEPT ![r] = "200"]
      /\ UNCHANGED <<callIs, callSid, ended, endedBefore>>
      /\ opened \in Nat /\ opened' = opened + 1
  BY DEF OpenSession, Goes, Gets, SessionsInv, CallTypes, TableInv, TableTypes
<1>2. TableInv'
  BY OpenKeeps DEF OpenSession, SessionsInv
<1>3. CallTypes'
  BY <1>1 DEF SessionsInv, CallTypes, Statuses, Places
<1>4. callAt'[r] = "answered" /\ callGot'[r] = "200"
  BY <1>1 DEF SessionsInv, CallTypes
<1>5. \A q \in Calls : q # r => callAt'[q] = callAt[q] /\ callGot'[q] = callGot[q]
  BY <1>1 DEF SessionsInv, CallTypes
<1>6. ASSUME NEW q \in Calls PROVE Told(q)'
  <2>1. CASE q # r
    BY <1>1, <1>5, <2>1, ToldStays
  <2>2. CASE q = r
    <3>1. ~ (callSid[r] \in endedBefore[r] /\ NeedsSession(callIs[r]))
      BY <1>1 DEF Told, ServedNothing
    <3>2. ServedNothing(r)'
      BY <1>1, <3>1 DEF ServedNothing, NeedsSession
    <3> QED
      BY <1>1, <1>4, <2>2, <3>2 DEF Told
  <2> QED
    BY <2>1, <2>2
<1>7. EndedOnce'
  BY <1>1, <1>4, <1>5 DEF SessionsInv, EndedOnce
<1> QED
  BY <1>2, <1>3, <1>6, <1>7 DEF SessionsInv

LEMMA ToolCallTells ==
  ASSUME McpAssumption, SessionsInv, NEW r \in Calls,
         \/ Handle(r) \/ Acquire(r) \/ Spawn(r) \/ SpawnFails(r)
         \/ Collect(r) \/ TimeOut(r) \/ Release(r)
  PROVE  SessionsInv'
<1>1. /\ callGot[r] \in Outcomes \cup Statuses
      /\ callGot' = callGot => callGot' = [callGot EXCEPT ![r] = callGot[r]]
  BY DEF SessionsInv, CallTypes
<1>2. UNCHANGED <<callIs, callSid, sessionVars, endedBefore>>
  BY DEF Handle, Acquire, Spawn, SpawnFails, Collect, TimeOut, Release
<1>3. callAt[r] \in {"dispatched", "slot held", "waiting", "releasing"}
  BY DEF Handle, Acquire, Spawn, SpawnFails, Collect, TimeOut, Release, Goes
<1>4. PICK to \in {"opening", "answered", "slot held", "waiting", "releasing"} :
        callAt' = [callAt EXCEPT ![r] = to]
  BY DEF Handle, Acquire, Spawn, SpawnFails, Collect, TimeOut, Release, Goes
<1>5. PICK got \in Outcomes \cup Statuses :
        /\ callGot' = [callGot EXCEPT ![r] = got]
        /\ got = callGot[r] \/ got \notin {"204", "404"}
  <2>1. \/ callGot' = callGot
        \/ \E x \in Outcomes \cup {"200", "202"} : callGot' = [callGot EXCEPT ![r] = x]
    <3>1. CASE Handle(r)
      BY <3>1 DEF Handle, Gets
    <3>2. CASE Acquire(r) \/ Spawn(r) \/ SpawnFails(r)
      BY <3>2 DEF Acquire, Spawn, SpawnFails, Gets, Outcomes
    <3>3. CASE Collect(r)
      BY <3>3 DEF Collect, Gets
    <3>4. CASE TimeOut(r) \/ Release(r)
      BY <3>4 DEF TimeOut, Release, Gets, Outcomes
    <3> QED
      BY <3>1, <3>2, <3>3, <3>4
  <2>2. Outcomes \cup {"200", "202"} \subseteq (Outcomes \cup Statuses) \ {"204", "404"}
    BY DEF Outcomes, Statuses
  <2> QED
    BY <1>1, <2>1, <2>2
<1>6. to \in Places \ {"out"}
  BY DEF Places, ToolPlaces
<1>7. callAt[r] \notin {"out", "checked", "answered"}
  BY <1>3
<1> QED
  BY <1>2, <1>4, <1>5, <1>6, <1>7, ServedTells

LEMMA InitSessionsInv ==
  ASSUME McpAssumption, Init PROVE SessionsInv
<1>1. TableInv
  BY DEF Init, McpAssumption, TableInv, TableTypes, Listed, OldestFirst, Known,
      Missing
<1>2. CallTypes
  BY DEF Init, CallTypes, Places, Statuses
<1>3. \A r \in Calls : Told(r)
  BY DEF Init, Told, ServedNothing
<1>4. EndedOnce
  BY DEF Init, EndedOnce
<1> QED
  BY <1>1, <1>2, <1>3, <1>4 DEF SessionsInv

LEMMA NextSessionsInv ==
  ASSUME McpAssumption, SessionsInv, [Next]_callVars PROVE SessionsInv'
<1>1. ASSUME UNCHANGED <<callAt, callIs, callSid, callGot, sessionVars, endedBefore>>
      PROVE  SessionsInv'
  BY <1>1 DEF SessionsInv, TableInv, TableTypes, Listed, OldestFirst, Known,
      Missing,
     CallTypes, Told, ServedNothing, NeedsSession, EndedOnce, sessionVars
<1>2. ASSUME NEW r \in Calls, ChildEnds(r) PROVE SessionsInv'
  BY <1>1, <1>2 DEF ChildEnds
<1>3. ASSUME NEW r \in Calls, ThreadStep(r) PROVE SessionsInv'
  BY <1>3, FindSessionTells, EndSessionTells, OpenSessionTells, ToolCallTells
     DEF ThreadStep
<1>4. CASE UNCHANGED callVars
  BY <1>1, <1>4 DEF callVars
<1> QED
  BY <1>2, <1>3, <1>4, ArriveTells DEF Next

(* The table of sessions (new_session, has_session, end_session on as many   *)
(* threads as there are requests): a session that a DELETE ended serves no   *)
(* request that arrives afterwards, ends once, and is unknown only after a   *)
(* DELETE or after MaxSessions others were opened.                          *)
THEOREM SessionsStayHonest ==
  ASSUME McpAssumption PROVE Spec => []SessionsAreHonest
<1>1. Init => SessionsInv
  BY InitSessionsInv
<1>2. SessionsInv /\ [Next]_callVars => SessionsInv'
  BY NextSessionsInv
<1>3. SessionsInv => SessionsAreHonest
  BY DEF SessionsInv, Told, ServedNothing, EndedOnce, SessionsAreHonest, Missing
<1> QED
  BY <1>1, <1>2, <1>3, PTL DEF Spec
=============================================================================
