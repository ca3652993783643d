--------------------------- MODULE RotatingKeys ---------------------------
(***************************************************************************)
(* The signing keys of a server whose JWT secret comes from a provider     *)
(* (drivers.py, RotatingHmacTokenProvider; wsgi.py, _token_accepted and    *)
(* _readyz_broken).  Threads verify tokens and re-read the pair (current,  *)
(* previous) lazily, one at a time, while an operator rotates the secret   *)
(* by the documented procedure (docs/backends.en.md, Rotation and          *)
(* re-fetching): the issuer signs with a new key no sooner than Refresh    *)
(* after the rotation, and the old key goes no sooner than Lifetime after  *)
(* that.                                                                   *)
(*                                                                         *)
(* A step is a read of the clock with the attribute beside it, one call of *)
(* the provider, or the installation of the pair.  Keys are numbered in    *)
(* the order the operator makes them.                                      *)
(***************************************************************************)
EXTENDS Naturals, FiniteSets

CONSTANTS
  Verifiers,       \* threads that verify tokens
  Probes,          \* threads that answer /-/readyz
  Refresh,         \* SECRET_REFRESH_S, in ticks
  Floor,           \* READYZ_REFRESH_FLOOR_S, in ticks
  Lifetime,        \* of a token, with the leeway, in ticks
  MaxKey,          \* bound: rotations
  MaxTime,         \* bound of the clock
  MayFail,         \* the provider may fail to answer
  NoKey, Nobody

Threads == Verifiers \cup Probes
Keys == 0..MaxKey

KeysAssumption ==
  /\ {Refresh, Floor, Lifetime} \subseteq Nat \ {0} /\ Floor <= Refresh
  /\ {MaxKey, MaxTime} \subseteq Nat /\ MayFail \in BOOLEAN
  /\ NoKey \notin Keys /\ Nobody \notin Threads

VARIABLES
  keyNow,        \* the clock
  keyStore,      \* the provider: what get and get_previous return
  keyIssuer,     \* the key the issuer signs with, and since when
  keyRotated,    \* when the current key became current
  keyPair,       \* `_keys`
  keyReadAt,     \* `_read_at`
  keyReadOk,     \* `_last_read_ok`
  keyLock,       \* `_refresh_lock`
  keyRead,       \* `current` of the read under way
  keyStep,       \* thread -> where it is
  keyToken,      \* thread -> the key its token was signed with
  keyStaleAt,    \* thread -> the `_read_at` it found too old
  keyExcuse,     \* thread -> found a read under way, or the last one failed (history)
  keyRefused,    \* the excuses of tokens refused before they expired (history)
  keyCrowded     \* a read began too soon after the one before (history)

storeVars == <<keyNow, keyStore, keyIssuer, keyRotated>>
readVars == <<keyPair, keyReadAt, keyReadOk, keyLock, keyRead>>
histVars == <<keyRefused, keyCrowded>>
keyVars == <<storeVars, readVars, keyStep, keyToken, keyStaleAt, keyExcuse, histVars>>

Pair == [current : Keys, previous : Keys \cup {NoKey}]

TypeOK ==
  /\ keyNow \in 0..MaxTime
  /\ keyStore \in Pair /\ keyPair \in Pair
  /\ keyIssuer \in [key : Keys, since : 0..MaxTime]
  /\ keyRotated \in 0..MaxTime /\ keyReadAt \in 0..MaxTime
  /\ keyReadOk \in BOOLEAN
  /\ keyLock \in Threads \cup {Nobody} /\ keyRead \in Keys \cup {NoKey}
  /\ keyStep \in [Threads -> {"idle", "stale", "stamp", "current", "previous", "verify"}]
  /\ keyToken \in [Verifiers -> Keys] /\ keyStaleAt \in [Threads -> 0..MaxTime]
  /\ keyExcuse \in [Verifiers -> BOOLEAN]

Init ==
  /\ keyNow = 0 /\ keyRotated = 0
  /\ keyStore = [current |-> 0, previous |-> NoKey]
  /\ keyIssuer = [key |-> 0, since |-> 0]
  /\ keyPair = keyStore /\ keyReadAt = 0 /\ keyReadOk = TRUE     \* read at start-up
  /\ keyLock = Nobody /\ keyRead = NoKey
  /\ keyStep = [t \in Threads |-> "idle"]
  /\ keyToken = [v \in Verifiers |-> 0] /\ keyStaleAt = [t \in Threads |-> 0]
  /\ keyExcuse = [v \in Verifiers |-> FALSE]
  /\ keyRefused = {} /\ keyCrowded = FALSE

Goes(t, from, to) == keyStep[t] = from /\ keyStep' = [keyStep EXCEPT ![t] = to]

---------------------------------------------------------------------------
(* The operator, the issuer and the clock. *)

(* Tokens of the key before the issuer's are all past their lifetime. *)
OldTokensGone == keyNow >= keyIssuer.since + Lifetime

Rotate ==
  /\ keyIssuer.key = keyStore.current /\ keyStore.current < MaxKey /\ OldTokensGone
  /\ keyStore' = [current |-> keyStore.current + 1, previous |-> keyStore.current]
  /\ keyRotated' = keyNow
  /\ UNCHANGED <<keyNow, keyIssuer, readVars, keyStep, keyToken, keyStaleAt, keyExcuse, histVars>>

IssuerSwitches ==
  /\ keyIssuer.key < keyStore.current /\ keyNow >= keyRotated + Refresh
  /\ keyIssuer' = [key |-> keyStore.current, since |-> keyNow]
  /\ UNCHANGED <<keyNow, keyStore, keyRotated, readVars, keyStep, keyToken, keyStaleAt,
                 keyExcuse, histVars>>

DeletePrevious ==
  /\ keyStore.previous # NoKey /\ keyIssuer.key = keyStore.current /\ OldTokensGone
  /\ keyStore' = [keyStore EXCEPT !.previous = NoKey]
  /\ UNCHANGED <<keyNow, keyIssuer, keyRotated, readVars, keyStep, keyToken, keyStaleAt,
                 keyExcuse, histVars>>

Tick ==
  /\ keyNow < MaxTime /\ keyNow' = keyNow + 1
  /\ UNCHANGED <<keyStore, keyIssuer, keyRotated, readVars, keyStep, keyToken, keyStaleAt,
                 keyExcuse, histVars>>

---------------------------------------------------------------------------
(* verify(): _refresh_if_stale, then the checklist. *)

(* A token that has not expired: of the issuer's key, or of the one before. *)
Valid(k) == k = keyIssuer.key \/ (k + 1 = keyIssuer.key /\ ~OldTokensGone)

(* A read is under way, or the last one failed. *)
Unsettled == keyLock # Nobody \/ ~keyReadOk

Verify(v) ==
  /\ \E k \in Keys : Valid(k) /\ keyToken' = [keyToken EXCEPT ![v] = k]
  /\ keyExcuse' = [keyExcuse EXCEPT ![v] = Unsettled]
  /\ IF keyNow - keyReadAt < Refresh
     THEN Goes(v, "idle", "verify") /\ UNCHANGED keyStaleAt
     ELSE Goes(v, "idle", "stale") /\ keyStaleAt' = [keyStaleAt EXCEPT ![v] = keyReadAt]
  /\ UNCHANGED <<storeVars, readVars, histVars>>

(* acquire(blocking=False); the age is not looked at again under the lock. *)
TryLock(v) ==
  /\ IF keyLock = Nobody
     THEN keyLock' = v /\ Goes(v, "stale", "stamp") /\ UNCHANGED <<keyExcuse, keyStaleAt>>
     ELSE /\ Goes(v, "stale", "verify") /\ UNCHANGED keyLock
          /\ keyExcuse' = [keyExcuse EXCEPT ![v] = TRUE]
          /\ keyStaleAt' = [keyStaleAt EXCEPT ![v] = 0]
  /\ UNCHANGED <<storeVars, keyPair, keyReadAt, keyReadOk, keyRead, keyToken, histVars>>

(* _read_and_install: the stamp comes first, ... *)
Stamp(t) ==
  /\ Goes(t, "stamp", "current")
  /\ keyReadAt' = keyNow
  /\ keyCrowded' = (keyCrowded \/ (keyStaleAt[t] = keyReadAt /\ keyNow < keyReadAt + Floor))
  /\ keyStaleAt' = [keyStaleAt EXCEPT ![t] = 0]
  /\ UNCHANGED <<storeVars, keyPair, keyReadOk, keyLock, keyRead, keyToken, keyExcuse,
                 keyRefused>>

(* ... then get(), ... *)
GetCurrent(t) ==
  /\ Goes(t, "current", "previous")
  /\ keyRead' = keyStore.current
  /\ UNCHANGED <<storeVars, keyPair, keyReadAt, keyReadOk, keyLock, keyToken, keyStaleAt,
                 keyExcuse, histVars>>

(* The lock is released; a probe answers with the outcome, a verifier goes on. *)
Release(t, ok) ==
  /\ keyLock' = Nobody /\ keyReadOk' = ok /\ keyRead' = NoKey
  /\ keyStep' = [keyStep EXCEPT ![t] = IF t \in Probes THEN "idle" ELSE "verify"]
  /\ keyExcuse' = IF t \in Probes THEN keyExcuse ELSE [keyExcuse EXCEPT ![t] = ~ok]

(* Mutant: the age of the pair is counted from the end of the read. *)
InstallStamped(t) ==
  /\ keyStep[t] = "previous"
  /\ keyPair' = [current |-> keyRead, previous |-> keyStore.previous]
  /\ keyReadAt' = keyNow
  /\ Release(t, TRUE)
  /\ UNCHANGED <<storeVars, keyToken, keyStaleAt, histVars>>

(* ... then get_previous(), and the pair is installed as one. *)
Install(t) ==
  /\ keyStep[t] = "previous"
  /\ keyPair' = [current |-> keyRead, previous |-> keyStore.previous]
  /\ Release(t, TRUE)
  /\ UNCHANGED <<storeVars, keyReadAt, keyToken, keyStaleAt, histVars>>

(* The provider fails, or a key is too short: the last good pair stays. *)
ReadFails(t) ==
  /\ MayFail /\ keyStep[t] \in {"current", "previous"}
  /\ Release(t, FALSE)
  /\ UNCHANGED <<storeVars, keyPair, keyReadAt, keyToken, keyStaleAt, histVars>>

(* _verify_signature iterates over the tuple it finds; then the expiry. *)
Accepts(k) == k \in {keyPair.current, keyPair.previous}

Answer(v) ==
  /\ Goes(v, "verify", "idle")
  /\ keyRefused' = IF Accepts(keyToken[v]) \/ ~Valid(keyToken[v]) THEN keyRefused
                   ELSE keyRefused \cup {keyExcuse[v]}
  /\ keyToken' = [keyToken EXCEPT ![v] = 0] /\ keyExcuse' = [keyExcuse EXCEPT ![v] = FALSE]
  /\ UNCHANGED <<storeVars, readVars, keyStaleAt, keyCrowded>>

(* refresh_for_probe: the lock is waited for, the age is looked at under it. *)
Probe(p) ==
  /\ keyStep[p] = "idle" /\ keyLock = Nobody
  /\ IF keyNow - keyReadAt >= Floor
     THEN /\ keyLock' = p /\ Goes(p, "idle", "stamp")
          /\ keyStaleAt' = [keyStaleAt EXCEPT ![p] = keyReadAt]
     ELSE UNCHANGED <<keyLock, keyStep, keyStaleAt>>     \* `_last_read_ok` is the answer
  /\ UNCHANGED <<storeVars, keyPair, keyReadAt, keyReadOk, keyRead, keyToken, keyExcuse,
                 histVars>>

Next ==
  \/ Rotate \/ IssuerSwitches \/ DeletePrevious \/ Tick
  \/ \E v \in Verifiers : Verify(v) \/ TryLock(v) \/ Answer(v)
  \/ \E p \in Probes : Probe(p)
  \/ \E t \in Threads : Stamp(t) \/ GetCurrent(t) \/ Install(t) \/ ReadFails(t)

Spec == Init /\ [][Next]_keyVars

---------------------------------------------------------------------------
(* Under the documented procedure a token that has not expired is refused     *)
(* only by a thread that found a re-read under way, or after one failed: the  *)
(* two reads of the provider may straddle a rotation and still no key that is *)
(* in use is lost.                                                            *)
RefusedOnlyWhileRefreshing == FALSE \notin keyRefused

(* Any number of tokens and probes makes few reads: two stamps less than      *)
(* Floor apart mean that the later reader had found the pair stale before the *)
(* earlier one stamped, so each thread reads once per Floor at most.          *)
ReadsAreSpaced == ~keyCrowded

(* A rotation under the documented procedure is noticed by no client and by   *)
(* the provider as few reads.                                                 *)
RotationIsSmooth == RefusedOnlyWhileRefreshing /\ ReadsAreSpaced

============================================================================
