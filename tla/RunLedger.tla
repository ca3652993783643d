----------------------------- MODULE RunLedger -----------------------------
(***************************************************************************)
(* What the repository promises to a workflow author, with no connection,  *)
(* no lock and no version number in sight: every run of a workflow is one   *)
(* atomic step.  A run either leaves no trace, or it adds its own           *)
(* assignments to rows AS THEY ARE at that instant and appends its own      *)
(* emissions to the outbox.  SqliteRepository is shown to implement this    *)
(* specification when runs read, assign, create and emit.                   *)
(***************************************************************************)
EXTENDS Integers, Sequences

CONSTANTS Runs,     \* executions of workflows, each with its own connection
          Keys,     \* row keys of one entity
          Seeded,   \* the keys that hold a row before the first run
          NoRow     \* marks an absent row

VARIABLES stored,   \* key -> the runs whose assignments its row carries
          feed,     \* the outbox, in sequence order
          fate      \* run -> "open", "committed" or "aborted"

lvars == <<stored, feed, fate>>

(* The row of one key after run r: left alone, created by r, or the row    *)
(* that was there with r's assignment added to it.                          *)
RowAfter(r, old, new) ==
    \/ new = old
    \/ old = NoRow /\ new = {r}
    \/ old # NoRow /\ new = old \cup {r}

(* The outbox after run r: everything that was there, then only r's.       *)
FeedAfter(r, old, new) ==
    /\ Len(old) <= Len(new)
    /\ \A i \in 1..Len(old) : new[i] = old[i]
    /\ \A i \in (Len(old) + 1)..Len(new) : new[i][1] = r

LedgerInit ==
    /\ stored = [k \in Keys |-> IF k \in Seeded THEN {} ELSE NoRow]
    /\ feed = <<>>
    /\ fate = [r \in Runs |-> "open"]

CommitRun(r) ==
    /\ fate[r] = "open"
    /\ fate' = [fate EXCEPT ![r] = "committed"]
    /\ DOMAIN stored' = Keys
    /\ \A k \in Keys : RowAfter(r, stored[k], stored'[k])
    /\ FeedAfter(r, feed, feed')

AbortRun(r) ==
    /\ fate[r] = "open"
    /\ fate' = [fate EXCEPT ![r] = "aborted"]
    /\ UNCHANGED <<stored, feed>>

LedgerNext == \E r \in Runs : CommitRun(r) \/ AbortRun(r)

LedgerSpec == LedgerInit /\ [][LedgerNext]_lvars
=============================================================================
