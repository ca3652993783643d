------------------------------ MODULE Resource ------------------------------
(***************************************************************************)
(* The rows of an entity as HTTP clients read them (wsgi.py): a client     *)
(* that walks the pages of the exposed list, and one that reads a row, its *)
(* ETag with it, and posts a workflow under If-Match.  Other runs commit   *)
(* between any two statements.                                             *)
(* A cursor and an ETag are opaque to the client and are taken as what     *)
(* they encode; parameters that do not parse answer 400 and change nothing, *)
(* and neither does a page whose read fails: the client still has its      *)
(* cursor.                                                                 *)
(***************************************************************************)
EXTENDS Naturals, Sequences, FiniteSets

CONSTANTS
  Keys,            \* row keys, numbers in the order of the keys
  SortValues,      \* values of the field the list is exposed by
  Limits,          \* page sizes
  MaxWrites        \* bound of the other runs' writes

ResourceAssumption ==
  /\ Keys \subseteq Nat \ {0} /\ IsFiniteSet(Keys) /\ SortValues \subseteq Nat \ {0}
  /\ Limits \subseteq Nat \ {0} /\ MaxWrites \in Nat

VARIABLES
  rows, writes,            \* the entity's rows; writes of other runs so far
  client,                  \* which of the two clients there is
  walkAt, limit, after, walked,   \* the walker: its last cursor, what it was sent
  steady,                  \* history: rows there, their field unchanged, since it began
  postAt, postKey, tag,    \* the other: where its request is, its row and ETag
  bound,                   \* the version the run's own read observed
  unchecked,               \* history: the precondition's read failed
  meddled, overtaken, reborn      \* history: writes to the row, see Meddles

rowVars == <<rows, writes>>
walkVars == <<walkAt, limit, after, walked, steady>>
postVars == <<postAt, postKey, tag, bound, unchecked, meddled, overtaken, reborn>>
resourceVars == <<rowVars, client, walkVars, postVars>>

Absent == 0                         \* a row without the field, or with null in it
Gone == [value |-> Absent, version |-> 0]
Start == [value |-> 0, key |-> 0]   \* no cursor

(* An INSERT and the seeding UPDATE behind it.                             *)
Fresh == 1

Init ==
  /\ \E there \in [Keys -> SortValues \cup {Absent}], have \in SUBSET Keys :
        rows = [k \in Keys |-> IF k \in have THEN [value |-> there[k], version |-> Fresh]
                               ELSE Gone]
  /\ writes = 0
  /\ client \in {"walker", "poster"}
  /\ walkAt = "idle" /\ limit = 0 /\ after = Start /\ walked = <<>> /\ steady = {}
  /\ postAt = "idle" /\ postKey = 0 /\ tag = 0 /\ bound = 0
  /\ unchecked = FALSE /\ meddled = FALSE /\ overtaken = FALSE /\ reborn = FALSE

-----------------------------------------------------------------------------
(* Other runs. *)

(* What a write to k does to the histories: the poster's row was written    *)
(* since it read the ETag; between the check of it and the run's own read;  *)
(* or there is a new row under its key.                                     *)
Meddles(k) ==
  /\ meddled' = (meddled \/ (k = postKey /\ postAt \in {"holding", "posted", "passed", "read"}))
  /\ overtaken' = (overtaken \/ (k = postKey /\ postAt = "passed"))
  /\ reborn' = (reborn \/ (k = postKey /\ rows[k] = Gone))

Writes(k, row) ==
  /\ writes < MaxWrites /\ writes' = writes + 1
  /\ rows' = [rows EXCEPT ![k] = row]
  /\ steady' = IF row # Gone /\ row.value = rows[k].value THEN steady ELSE steady \ {k}
  /\ Meddles(k)
  /\ UNCHANGED <<client, walkAt, limit, after, walked, postAt, postKey, tag, bound, unchecked>>

Create(k) ==
  /\ rows[k] = Gone
  /\ \E v \in SortValues \cup {Absent} : Writes(k, [value |-> v, version |-> Fresh])

SetRow(k) ==
  /\ rows[k] # Gone
  /\ \E v \in SortValues \cup {Absent} :
        Writes(k, [value |-> v, version |-> rows[k].version + 1])

Delete(k) == rows[k] # Gone /\ Writes(k, Gone)

-----------------------------------------------------------------------------
(* The walk. *)

Position(k) == [value |-> rows[k].value, key |-> k]

(* `_SELECT_SORTED`: rows without a value last, then the value, then the key. *)
InStoreOrder(p, q) ==
  \/ p.value # Absent /\ q.value = Absent
  \/ (p.value = Absent) = (q.value = Absent) /\ p.value < q.value
  \/ p.value = q.value /\ p.key < q.key

Stored == {Position(k) : k \in {x \in Keys : rows[x] # Gone}}

Sorted(S) ==
  {q \in [1..Cardinality(S) -> S] :
     /\ \A i, j \in DOMAIN q : i < j => InStoreOrder(q[i], q[j])
     /\ \A p \in S : \E i \in DOMAIN q : q[i] = p}

(* Mutant: the absent value is compared like any other, below them all.    *)
BehindAbsentFirst(p, q) == p.value < q.value \/ (p.value = q.value /\ p.key < q.key)

(* `_sort_key`, compared: (0, value, key) and (1, key).                    *)
Behind(p, q) ==
  LET sortKey(x) == IF x.value = Absent THEN <<1, x.key, 0>> ELSE <<0, x.value, x.key>>
      a == sortKey(p) b == sortKey(q)
  IN \/ a[1] < b[1]
     \/ a[1] = b[1] /\ a[2] < b[2]
     \/ a[1] = b[1] /\ a[2] = b[2] /\ a[3] < b[3]

StartWalk ==
  /\ client = "walker" /\ walkAt = "idle"
  /\ walkAt' = "walking" /\ limit' \in Limits
  /\ steady' = {k \in Keys : rows[k] # Gone}
  /\ UNCHANGED <<rowVars, client, after, walked, postVars>>

(* `_get_list` and `paginate`: one read, the rows behind the cursor in the    *)
(* store's order, and a next cursor if there are more than the page holds.   *)
GetList ==
  /\ walkAt = "walking"
  /\ \E left \in Sorted({p \in Stored : after = Start \/ Behind(after, p)}) :
        \/ /\ Len(left) > limit
           /\ walked' = walked \o SubSeq(left, 1, limit)
           /\ after' = left[limit] /\ UNCHANGED walkAt
        \/ /\ Len(left) <= limit
           /\ walked' = walked \o left
           /\ walkAt' = "over" /\ UNCHANGED after
  /\ UNCHANGED <<rowVars, client, limit, steady, postVars>>

-----------------------------------------------------------------------------
(* The conditional request. *)

PostGoes(from, to) == postAt = from /\ postAt' = to

(* `_get_single`: the row's version goes out as its ETag.                  *)
GetSingle(k) ==
  /\ client = "poster" /\ rows[k] # Gone /\ PostGoes("idle", "holding")
  /\ postKey' = k /\ tag' = rows[k].version
  /\ UNCHANGED <<rowVars, client, walkVars, bound, unchecked, meddled, overtaken, reborn>>

Post ==
  /\ PostGoes("holding", "posted")
  /\ UNCHANGED <<rowVars, client, walkVars, postKey, tag, bound, unchecked, meddled,
                 overtaken, reborn>>

(* `_check_if_match`: a read of its own, before the run is begun.          *)
Matches == rows[postKey].version = tag        \* a row that is gone has no version

CheckPasses ==
  /\ PostGoes("posted", "passed") /\ Matches
  /\ UNCHANGED <<rowVars, client, walkVars, postKey, tag, bound, unchecked, meddled,
                 overtaken, reborn>>

(* 412, for a row that has changed and for one that is gone.               *)
CheckRefuses ==
  /\ PostGoes("posted", "refused") /\ ~Matches
  /\ UNCHANGED <<rowVars, client, walkVars, postKey, tag, bound, unchecked, meddled,
                 overtaken, reborn>>

(* A DriverError of the check's read is left to the run's own read to meet. *)
CheckFaults ==
  /\ PostGoes("posted", "passed") /\ unchecked' = TRUE
  /\ UNCHANGED <<rowVars, client, walkVars, postKey, tag, bound, meddled, overtaken, reborn>>

(* The run reads the row, or fails with "not-found".                       *)
RunReads ==
  /\ PostGoes("passed", IF rows[postKey] = Gone THEN "failed" ELSE "read")
  /\ bound' = rows[postKey].version
  /\ UNCHANGED <<rowVars, client, walkVars, postKey, tag, unchecked, meddled, overtaken, reborn>>

(* Mutant: the UPDATE does not look at the version.                        *)
VersionStillHoldsAnyway == rows[postKey] # Gone

(* `_UPDATE_ROW_VERSIONED`                                                 *)
VersionStillHolds == rows[postKey].version = bound

(* Its `set` lands, or meets a write conflict.                             *)
RunWrites ==
  /\ PostGoes("read", IF VersionStillHolds THEN "ran" ELSE "failed")
  /\ rows' = IF VersionStillHolds THEN [rows EXCEPT ![postKey].version = @ + 1] ELSE rows
  /\ UNCHANGED <<writes, client, walkVars, postKey, tag, bound, unchecked, meddled,
                 overtaken, reborn>>

-----------------------------------------------------------------------------
Next ==
  \/ \E k \in Keys : Create(k) \/ SetRow(k) \/ Delete(k) \/ GetSingle(k)
  \/ StartWalk \/ GetList
  \/ Post \/ CheckPasses \/ CheckRefuses \/ CheckFaults \/ RunReads \/ RunWrites

Spec == Init /\ [][Next]_resourceVars

(* Pages: whatever is committed between them, the walk goes forward only,   *)
(* so that no row comes twice at one place, and when it is over every row   *)
(* that was there all the time, its field unchanged, has come exactly once. *)
WalkIsWhole ==
  /\ \A i, j \in DOMAIN walked : i < j => InStoreOrder(walked[i], walked[j])
  /\ walkAt = "over" =>
       \A k \in steady : Cardinality({i \in DOMAIN walked : walked[i].key = k}) = 1

(* If-Match: the `set` of a request that named an ETag lands on no version  *)
(* but the one the client saw.  The check and the run are two reads, so a   *)
(* write between them is not noticed; a check whose read failed is none;    *)
(* and versions start again with a row that is created again.               *)
MatchProtects ==
  postAt = "ran" => (meddled \/ bound # tag => unchecked \/ overtaken \/ reborn)

(* What the read side of the HTTP surface promises its clients.            *)
ReadsAreHonest == WalkIsWhole /\ MatchProtects

=============================================================================
