----------------------------- MODULE MCInbound -----------------------------
(* What a request meets on its way in: the gates of the HTTP shell           *)
(* (extended), the keys its token is verified with, and the sessions and     *)
(* slots of the other server, MCP over HTTP, and what clients of the read    *)
(* routes are sent (instantiated).  The outcome of a verification is part of  *)
(* a request's profile, and a request counts alike whatever its handler      *)
(* reads, so the four have no state in common and a behaviour is one of them. *)
EXTENDS HttpShell

CONSTANTS r1, r2, r3,
          Verifiers, Probes, RefreshTicks, FloorTicks, Lifetime, MaxKey, MaxKeyTime, MayFail,
          NoKey, Nobody,
          c1, c2, c3, c4, MaxSessions, MaxToolCalls,
          ListKeys, SortValues, Limits, MaxWrites

VARIABLES which,
          callAt, callIs, callSid, callGot, callChild, toolSlots, sessions, opened, ended,
          endedBefore,
          keyNow, keyStore, keyIssuer, keyRotated, keyPair, keyReadAt, keyReadOk, keyLock,
          keyRead, keyStep, keyToken, keyStaleAt, keyExcuse, keyRefused, keyCrowded,
          rows, writes, client, walkAt, limit, after, walked, steady, postAt, postKey, tag,
          bound, unchecked, meddled, overtaken, reborn

Rotating == INSTANCE RotatingKeys WITH Refresh <- RefreshTicks, Floor <- FloorTicks,
                                       MaxTime <- MaxKeyTime

rotatingVars == <<keyNow, keyStore, keyIssuer, keyRotated, keyPair, keyReadAt, keyReadOk, keyLock,
                  keyRead, keyStep, keyToken, keyStaleAt, keyExcuse, keyRefused, keyCrowded>>

Res == INSTANCE Resource WITH Keys <- ListKeys

rowVars == <<rows, writes, client, walkAt, limit, after, walked, steady, postAt, postKey, tag,
             bound, unchecked, meddled, overtaken, reborn>>

callVars == <<callAt, callIs, callSid, callGot, callChild, toolSlots, sessions, opened, ended,
              endedBefore>>

(* Four MCP requests: one opens a session, one opens another or fails a      *)
(* check, and two call a tool or end the session.                            *)
MCCalls == {c1, c2, c3, c4}
Asks(method, fails, rpc, message, session) ==
  [method |-> method, fails |-> fails, rpc |-> rpc, message |-> message, session |-> session]
Opens == Asks("POST", {}, TRUE, "initialize", FALSE)
Ends == Asks("DELETE", {}, TRUE, "notification", TRUE)
Fails == {"origin", "path", "token", "version", "transfer encoding", "content type", "length",
          "too large", "json", "object"}
MCCallProfiles ==
  [c \in MCCalls |->
     CASE c = c1 -> {Opens}
       [] c = c2 -> {Opens, Asks("POST", {}, TRUE, "unknown method", FALSE),
                     Asks("GET", {}, TRUE, "tools list", FALSE),
                     Asks("POST", {}, TRUE, "response", TRUE)}
                    \cup {Asks("POST", {check}, TRUE, "tools list", TRUE) : check \in Fails}
       [] c = c3 -> {Ends} \cup {Asks("POST", {}, rpc, "tools call", TRUE) : rpc \in BOOLEAN}
       [] c = c4 -> {Ends, Asks("POST", {}, TRUE, "tools call", TRUE),
                     Asks("POST", {}, TRUE, "notification", TRUE)}]

Mcp == INSTANCE McpHttp WITH Calls <- MCCalls, CallProfiles <- MCCallProfiles

ASSUME InboundAssumption ==
       /\ Rotating!KeysAssumption /\ Mcp!McpAssumption
       /\ Res!ResourceAssumption

(* One request that a gate may refuse, a probe or a stream, and a workflow.  *)
Request(method, route, token, body) ==
  [method |-> method, route |-> route, token |-> token, body |-> body]
Good == Request("POST", "workflow", "accepted", "object")
Stream == Request("GET", "sse-subscribe", "accepted", "object")

MCRequests == {r1, r2, r3}
MCProfiles ==
  [r \in MCRequests |->
     CASE r = r1 -> {Good, Request("POST", "workflow", "wrong-role", "object"),
                     Request("POST", "workflow", "accepted", "too-large")}
       [] r = r2 -> {Request("GET", "ops-ready", "missing", "object"), Stream}
       [] r = r3 -> {Good}]

MCInit ==
  /\ which \in {"shell", "keys", "mcp", "rows"}
  /\ Init /\ Rotating!Init /\ Mcp!Init /\ Res!Init
  /\ which # "shell" => \A r \in Requests : profile[r] = CHOOSE p \in Profiles[r] : TRUE
  /\ which # "mcp" => \A c \in MCCalls : callIs[c] = CHOOSE p \in MCCallProfiles[c] : TRUE
  /\ which # "rows" => /\ rows = [k \in ListKeys |-> Res!Gone] /\ client = "walker"

ShellNext == which = "shell" /\ Next /\ UNCHANGED <<which, rotatingVars, callVars, rowVars>>
KeysNext == which = "keys" /\ Rotating!Next /\ UNCHANGED <<which, vars, callVars, rowVars>>
McpNext == which = "mcp" /\ Mcp!Next /\ UNCHANGED <<which, vars, rotatingVars, rowVars>>
RowsNext == which = "rows" /\ Res!Next /\ UNCHANGED <<which, vars, rotatingVars, callVars>>

MCNext == ShellNext \/ KeysNext \/ McpNext \/ RowsNext

allVars == <<which, vars, rotatingVars, callVars, rowVars>>

(* The Fairness of HttpShell, where the shell runs, and that of McpHttp.     *)
MCFairness == /\ \A r \in Requests : WF_vars(which = "shell" /\ Works(r))
              /\ WF_vars(which = "shell" /\ Drained)
              /\ \A c \in MCCalls : WF_callVars(which = "mcp" /\ Mcp!ThreadStep(c))

MCSpec == MCInit /\ [][MCNext]_allVars /\ MCFairness

(* RotatingKeys: no valid token is refused but while a re-read is under way  *)
(* or after one failed, and reads of the provider keep their distance.       *)
RotationIsSmooth == Rotating!RotationIsSmooth

(* McpHttp: slots, children and calls add up, and a session's end is final.  *)
SlotsAndSessionsAreExact == Mcp!SlotsAreExact /\ Mcp!SessionsAreHonest

(* Resource: pages are whole and an ETag protects what it names.             *)
ReadsAreHonest == Res!ReadsAreHonest

(* McpHttp: every MCP request is answered, whatever its child does.          *)
EveryCallIsAnswered == Mcp!EveryCallIsAnswered
============================================================================
