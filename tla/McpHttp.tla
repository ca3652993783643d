----------------------------- MODULE McpHttp -----------------------------
(***************************************************************************)
(* The MCP tools over HTTP (mcp_http.py, and mcp_server.py's handle).      *)
(* Every request has its own thread; threads share the table of sessions,  *)
(* under a lock, and a semaphore of tool slots.  A tools/call runs in a    *)
(* child process of its own, which may answer, die, be stopped for its     *)
(* memory, or never end.                                                   *)
(*                                                                         *)
(* A step is what a thread does under the lock or on the semaphore, or one *)
(* wait for the child.  Sessions are numbered in the order they open.      *)
(***************************************************************************)
EXTENDS Naturals, Sequences, SequencesExt, FiniteSets

CONSTANTS
  Calls,           \* requests that reach the server, each on its own thread
  CallProfiles,    \* per request, what it may ask: see Request
  MaxSessions,     \* `max_sessions`
  MaxToolCalls     \* `max_tool_calls`

(* The checks of a request in the order they are made, with their statuses: *)
(* those of every request, then those of a POST's body.                     *)
Prelude == <<[check |-> "origin", code |-> "403"], [check |-> "path", code |-> "404"],
             [check |-> "token", code |-> "401"], [check |-> "version", code |-> "400"]>>
ReadMessage == <<[check |-> "transfer encoding", code |-> "411"],
                 [check |-> "content type", code |-> "415"],
                 [check |-> "length", code |-> "411"], [check |-> "too large", code |-> "413"],
                 [check |-> "json", code |-> "400"], [check |-> "object", code |-> "400"]>>

Checks == {step.check : step \in Range(Prelude \o ReadMessage)}

(* A request: its method, the checks it fails, its message and whether that *)
(* is JSON-RPC 2.0, and whether it names a session.                         *)
Request == [method : {"POST", "DELETE", "GET"}, fails : SUBSET Checks, rpc : BOOLEAN,
            message : {"initialize", "tools list", "tools call", "unknown method",
                       "notification", "response"},
            session : BOOLEAN]

McpAssumption ==
  /\ CallProfiles \in [Calls -> SUBSET Request]
  /\ {MaxSessions, MaxToolCalls} \subseteq Nat \ {0}

VARIABLES
  callAt,        \* request -> where its thread is
  callIs,        \* request -> its profile
  callSid,       \* request -> the session it names, 0 for none or an unknown one
  callGot,       \* request -> the HTTP status, or how the tool call ended
  callChild,     \* request -> its child process
  toolSlots,     \* the value of `tool_slots`
  sessions,      \* `sessions`, the oldest first
  opened,        \* how many sessions were ever opened
  ended,         \* sessions a DELETE was answered 204 for
  endedBefore    \* request -> `ended` when it arrived (history)

sessionVars == <<sessions, opened, ended>>
callVars == <<callAt, callIs, callSid, callGot, callChild, toolSlots, sessionVars, endedBefore>>

Outcomes == {"result", "tool error", "internal error", "busy", "stopped"}
ToolPlaces == {"slot held", "waiting", "releasing"}
Places == {"out", "checked", "dispatched", "opening", "answered"} \cup ToolPlaces

Statuses == {"none", "200", "202", "204", "400", "401", "403", "404", "405", "411", "413", "415"}
Sids == 1..Cardinality(Calls)

TypeOK ==
  /\ callAt \in [Calls -> Places] /\ callSid \in [Calls -> Sids \cup {0}]
  /\ \A r \in Calls : callIs[r] \in CallProfiles[r]
  /\ callGot \in [Calls -> Outcomes \cup Statuses]
  /\ callChild \in [Calls -> {"none", "running", "answered", "out of memory", "failed"}]
  /\ toolSlots \in 0..MaxToolCalls
  /\ sessions \in BoundedSeq(Sids, MaxSessions) /\ opened \in Sids \cup {0}
  /\ ended \subseteq Sids /\ endedBefore \in [Calls -> SUBSET Sids]

Init ==
  /\ callAt = [r \in Calls |-> "out"]
  /\ callIs \in {f \in [Calls -> UNION {CallProfiles[r] : r \in Calls}] :
                  \A r \in Calls : f[r] \in CallProfiles[r]}
  /\ callSid = [r \in Calls |-> 0] /\ callGot = [r \in Calls |-> "none"]
  /\ callChild = [r \in Calls |-> "none"] /\ toolSlots = MaxToolCalls
  /\ sessions = <<>> /\ opened = 0 /\ ended = {}
  /\ endedBefore = [r \in Calls |-> {}]

Goes(r, from, to) == callAt[r] = from /\ callAt' = [callAt EXCEPT ![r] = to]
Gets(r, what) == callGot' = [callGot EXCEPT ![r] = what]

(* The status of the first check that fails, "none" when none does. *)
FirstFailing(p, checks) ==
  LET failing == {i \in DOMAIN checks : checks[i].check \in p.fails}
  IN  IF failing = {} THEN "none" ELSE checks[CHOOSE i \in failing : \A j \in failing : i <= j].code

NeedsSession(p) == p.method = "DELETE" \/ p.message # "initialize"

(* What a request is answered before it meets any shared state. *)
RefusedAs(p) ==
  LET prelude == FirstFailing(p, Prelude)
      body == IF p.method = "POST" THEN FirstFailing(p, ReadMessage) ELSE "none"
      passed == prelude = "none" /\ body = "none"
  IN  CASE prelude # "none"                                  -> prelude
        [] prelude = "none" /\ p.method = "GET"              -> "405"
        [] prelude = "none" /\ body # "none"                 -> body
        [] passed /\ p.method = "POST" /\ p.message = "response" -> "202"
        [] OTHER -> IF NeedsSession(p) /\ ~p.session THEN "400" ELSE "none"

---------------------------------------------------------------------------
(* do_POST and do_DELETE: the headers and the body, ... *)
Arrive(r) ==
  /\ endedBefore' = [endedBefore EXCEPT ![r] = ended]
  /\ \E sid \in 0..opened : /\ sid # 0 => callIs[r].session
                            /\ callSid' = [callSid EXCEPT ![r] = sid]
  /\ LET code == RefusedAs(callIs[r])
     IN  IF code # "none" THEN Goes(r, "out", "answered") /\ Gets(r, code)
                     ELSE Goes(r, "out", "checked") /\ UNCHANGED callGot
  /\ UNCHANGED <<callIs, callChild, toolSlots, sessionVars>>

HasSession(r) == callSid[r] \in Range(sessions)

(* ... has_session, ... *)
FindSession(r) ==
  /\ callIs[r].method = "POST"
  /\ IF NeedsSession(callIs[r]) /\ ~HasSession(r)
     THEN Goes(r, "checked", "answered") /\ Gets(r, "404")
     ELSE Goes(r, "checked", "dispatched") /\ UNCHANGED callGot
  /\ UNCHANGED <<callIs, callSid, callChild, toolSlots, sessionVars, endedBefore>>

(* ... or end_session: found and removed in one hold of the lock. *)
EndSession(r) ==
  /\ callIs[r].method = "DELETE"
  /\ Goes(r, "checked", "answered")
  /\ \/ \E i \in DOMAIN sessions :
          /\ sessions[i] = callSid[r] /\ sessions' = RemoveAt(sessions, i)
          /\ ended' = ended \cup {callSid[r]} /\ Gets(r, "204")
     \/ ~HasSession(r) /\ Gets(r, "404") /\ UNCHANGED <<sessions, ended>>
  /\ UNCHANGED <<callIs, callSid, callChild, toolSlots, opened, endedBefore>>

---------------------------------------------------------------------------
(* dispatch: everything but a tool call with an id is answered here. *)

IsToolCall(p) == p.message = "tools call"

Handle(r) ==
  /\ ~IsToolCall(callIs[r])
  /\ IF callIs[r].message = "initialize" /\ callIs[r].rpc
     THEN Goes(r, "dispatched", "opening") /\ UNCHANGED callGot
     ELSE /\ Goes(r, "dispatched", "answered")
          /\ Gets(r, IF callIs[r].message = "notification" /\ callIs[r].rpc THEN "202" ELSE "200")
  /\ UNCHANGED <<callIs, callSid, callChild, toolSlots, sessionVars, endedBefore>>

(* Mutant: the newest session is the one that goes. *)
KeptNewestDropped(list) == SubSeq(list, 1, MaxSessions)

(* `while len > max: popitem(last=False)`. *)
Kept(list) == SubSeq(list, Len(list) - MaxSessions + 1, Len(list))

(* new_session. *)
OpenSession(r) ==
  /\ Goes(r, "opening", "answered") /\ Gets(r, "200")
  /\ opened' = opened + 1
  /\ LET list == Append(sessions, opened + 1)
     IN  sessions' = IF Len(list) > MaxSessions THEN Kept(list) ELSE list
  /\ UNCHANGED <<callIs, callSid, callChild, toolSlots, ended, endedBefore>>

(* run_tool_call: a slot is taken at once or not at all, ... *)
Acquire(r) ==
  /\ IsToolCall(callIs[r])
  /\ IF toolSlots = 0
     THEN Goes(r, "dispatched", "answered") /\ Gets(r, "busy") /\ UNCHANGED toolSlots
     ELSE Goes(r, "dispatched", "slot held") /\ toolSlots' = toolSlots - 1 /\ UNCHANGED callGot
  /\ UNCHANGED <<callIs, callSid, callChild, sessionVars, endedBefore>>

(* ... the child is started, ... *)
Spawn(r) ==
  /\ Goes(r, "slot held", "waiting")
  /\ callChild' = [callChild EXCEPT ![r] = "running"]
  /\ UNCHANGED <<callIs, callSid, callGot, toolSlots, sessionVars, endedBefore>>

(* Mutant: an exception of Popen skips the `finally`. *)
SpawnFailsKeepingSlot(r) ==
  /\ Goes(r, "slot held", "answered") /\ Gets(r, "internal error")
  /\ UNCHANGED <<callIs, callSid, callChild, toolSlots, sessionVars, endedBefore>>

SpawnFails(r) ==
  /\ Goes(r, "slot held", "releasing") /\ Gets(r, "internal error")
  /\ UNCHANGED <<callIs, callSid, callChild, toolSlots, sessionVars, endedBefore>>

(* ... and ends of itself or not: with one JSON object, by its watchdog or *)
(* otherwise (an unreadable or a missing object, the CPU limit, a signal). *)
ChildEnds(r) ==
  /\ callChild[r] = "running"
  /\ \E how \in {"answered", "out of memory", "failed"} :
       callChild' = [callChild EXCEPT ![r] = how]
  /\ UNCHANGED <<callAt, callIs, callSid, callGot, toolSlots, sessionVars, endedBefore>>

(* communicate returns: the result is handle's, or one over the limit. *)
Collect(r) ==
  /\ Goes(r, "waiting", "releasing")
  /\ callChild[r] \notin {"none", "running"}
  /\ callChild' = [callChild EXCEPT ![r] = "none"]
  /\ \E got \in Outcomes \ {"busy"} :
       /\ Gets(r, got)
       /\ got \in CASE callChild[r] = "out of memory" -> {"stopped"}
                    [] callChild[r] = "failed"        -> {"internal error"}
                    [] callChild[r] = "answered" ->
                         IF callIs[r].rpc THEN {"result", "tool error", "internal error"}
                                          ELSE {"result"}
  /\ UNCHANGED <<callIs, callSid, toolSlots, sessionVars, endedBefore>>

(* Mutant: communicate without a timeout. *)
TimeOutNever(r) == FALSE /\ UNCHANGED callVars

(* TimeoutExpired: the child, which may just have ended, is killed and reaped. *)
TimeOut(r) ==
  /\ Goes(r, "waiting", "releasing")
  /\ callChild' = [callChild EXCEPT ![r] = "none"] /\ Gets(r, "stopped")
  /\ UNCHANGED <<callIs, callSid, toolSlots, sessionVars, endedBefore>>

(* `finally: tool_slots.release()`. *)
Release(r) ==
  /\ Goes(r, "releasing", "answered")
  /\ toolSlots' = toolSlots + 1
  /\ UNCHANGED <<callIs, callSid, callGot, callChild, sessionVars, endedBefore>>

ThreadStep(r) ==
  \/ FindSession(r) \/ EndSession(r) \/ Handle(r) \/ OpenSession(r) \/ Acquire(r)
  \/ Spawn(r) \/ SpawnFails(r) \/ Collect(r) \/ TimeOut(r) \/ Release(r)

Next == \E r \in Calls : Arrive(r) \/ ThreadStep(r) \/ ChildEnds(r)

Spec == Init /\ [][Next]_callVars

(* A thread that can go on does, and the wait for a child is bounded.        *)
FairSpec == Spec /\ \A r \in Calls : WF_callVars(ThreadStep(r))

---------------------------------------------------------------------------
Holding == {r \in Calls : callAt[r] \in ToolPlaces}

(* However tool calls end, slots and calls in progress always add up, no     *)
(* child outlives the thread that waits for it, and so there are never more  *)
(* children than slots (the `finally` and the kill of run_tool_call).        *)
SlotsAreExact ==
  /\ toolSlots + Cardinality(Holding) = MaxToolCalls
  /\ \A r \in Calls : callChild[r] # "none" => callAt[r] = "waiting"

(* A session that a DELETE ended serves no request that arrives afterwards,  *)
(* ends once, and is unknown to the server only after a DELETE or after      *)
(* MaxSessions others were opened (has_session, end_session and new_session  *)
(* on three threads).                                                        *)
SessionsAreHonest ==
  \A r \in Calls : callSid[r] # 0 =>
    /\ callSid[r] \in endedBefore[r] /\ NeedsSession(callIs[r]) /\ callAt[r] = "answered" =>
         callGot[r] \notin {"200", "204"} \cup Outcomes
    /\ callGot[r] = "204" => \A q \in Calls \ {r} : callSid[q] = callSid[r] => callGot[q] # "204"
    /\ callGot[r] = "404" /\ "path" \notin callIs[r].fails =>
         callSid[r] \in ended \/ opened >= callSid[r] + MaxSessions

(* Every request that arrives is answered, whatever its child does.          *)
EveryCallIsAnswered == <>[](\A r \in Calls : callAt[r] \in {"out", "answered"})

============================================================================
