-------------------------- MODULE ConnectionCache --------------------------
(***************************************************************************)
(* The keep-alive connections of the network driver (drivers.py,           *)
(* HttpNetworkDriver.call down to _one_http_attempt), as one thread uses   *)
(* them: the cache is a threading.local, so a thread meets only the target *)
(* and the network.  The target answers, answers late, answers and asks to *)
(* close, closes an idle connection, or drops one with a request on it     *)
(* before or after it has executed the request.                            *)
(*                                                                         *)
(* Names start with `conn` so that a module of several components can      *)
(* declare these variables beside others.                                  *)
(***************************************************************************)
EXTENDS Naturals, Sequences, FiniteSets

CONSTANTS
  Sockets,         \* TCP connections, used again once both ends have forgotten them
  MaxCalls,        \* bound: calls the thread makes, one after the other
  AttemptsPerCall, \* 1 + the capability's retry count
  Unconnected,     \* a cached HTTPConnection without a socket
  Nothing

Calls == 1..MaxCalls
Request == [call : Calls, attempt : 1..AttemptsPerCall]

ConnectionAssumption ==
  /\ MaxCalls \in Nat /\ AttemptsPerCall \in Nat \ {0}
  /\ {Unconnected, Nothing} \cap Sockets = {} /\ Nothing \notin {Unconnected} \cup Request

VARIABLES
  connStep,      \* where _one_http_attempt is
  connCall,      \* number of the current call
  connAttempt,   \* its attempt
  connCached,    \* cache.get(key)
  connUsed,      \* the socket `conn` works on
  connReused,    \* `reused`
  connHeld,      \* sockets this client has not closed
  connPeer,      \* sockets the target has not closed
  connInbox,     \* socket -> the request that was sent and is not executed, or Nothing
  connAnswers,   \* socket -> answers on their way
  connResult,    \* call -> what call() returned
  connExecuted,  \* call -> how often the target executed it
  connTrouble    \* calls that met a timeout, a refusal or a drop with a request on it

connVars == <<connStep, connCall, connAttempt, connCached, connUsed, connReused, connHeld,
              connPeer, connInbox, connAnswers, connResult, connExecuted, connTrouble>>
wireVars == <<connHeld, connPeer, connInbox, connAnswers>>

None == [call |-> 0, attempt |-> 0]
Failed == [call |-> 0, attempt |-> 1]     \* DriverError

TypeOK ==
  /\ connStep \in {"idle", "attempt", "send", "read", "reconnect", "failed"}
  /\ connCall \in 0..MaxCalls /\ connAttempt \in 1..AttemptsPerCall
  /\ connCached \in Sockets \cup {Unconnected, Nothing}
  /\ connUsed \in Sockets \cup {Unconnected, Nothing}
  /\ connReused \in BOOLEAN
  /\ connHeld \subseteq Sockets /\ connPeer \subseteq Sockets
  /\ connInbox \in [Sockets -> Request \cup {Nothing}]
  /\ \A s \in Sockets : connAnswers[s] \in Seq(Request) /\ Len(connAnswers[s]) <= 1
  /\ connResult \in [Calls -> Request \cup {None, Failed}]
  /\ connExecuted \in [Calls -> 0..2 * AttemptsPerCall]
  /\ connTrouble \subseteq Calls

Init ==
  /\ connStep = "idle" /\ connCall = 0 /\ connAttempt = 1
  /\ connCached = Nothing /\ connUsed = Nothing /\ connReused = FALSE
  /\ connHeld = {} /\ connPeer = {}
  /\ connInbox = [s \in Sockets |-> Nothing]
  /\ connAnswers = [s \in Sockets |-> << >>]
  /\ connResult = [c \in Calls |-> None]
  /\ connExecuted = [c \in Calls |-> 0] /\ connTrouble = {}

Request0 == [call |-> connCall, attempt |-> connAttempt]
Troubled == connTrouble' = connTrouble \cup {connCall}

---------------------------------------------------------------------------
(* The driver. *)

(* call(): the next call, its first attempt. *)
Call ==
  /\ connStep = "idle" /\ connCall < MaxCalls
  /\ connStep' = "attempt" /\ connCall' = connCall + 1 /\ connAttempt' = 1
  /\ UNCHANGED <<connCached, connUsed, connReused, wireVars, connResult, connExecuted,
                 connTrouble>>

(* `conn = cache.get(key)`, or a new HTTPConnection that has no socket yet. *)
TakeConnection ==
  /\ connStep = "attempt" /\ connStep' = "send"
  /\ connReused' = (connCached # Nothing)
  /\ connUsed' = IF connCached = Nothing THEN Unconnected ELSE connCached
  /\ UNCHANGED <<connCall, connAttempt, connCached, wireVars, connResult, connExecuted,
                 connTrouble>>

Forgotten == {s \in Sockets : s \notin connHeld \cup connPeer /\ connInbox[s] = Nothing}

(* conn.request() without a socket connects first; the request is on the wire. *)
ConnectAndSend ==
  /\ connStep = "send" /\ connUsed = Unconnected
  /\ \E s \in Forgotten :
       /\ connUsed' = s
       /\ connHeld' = connHeld \cup {s} /\ connPeer' = connPeer \cup {s}
       /\ connInbox' = [connInbox EXCEPT ![s] = Request0]
       /\ connAnswers' = [connAnswers EXCEPT ![s] = << >>]
  /\ connStep' = "read"
  /\ UNCHANGED <<connCall, connAttempt, connCached, connReused, connResult, connExecuted,
                 connTrouble>>

(* conn.request() on a live socket; a peer that has closed will never see it. *)
Send ==
  /\ connStep = "send" /\ connUsed \in Sockets
  /\ connInbox' = IF connUsed \in connPeer
                  THEN [connInbox EXCEPT ![connUsed] = Request0] ELSE connInbox
  /\ connStep' = "read"
  /\ UNCHANGED <<connCall, connAttempt, connCached, connUsed, connReused, connHeld, connPeer,
                 connAnswers, connResult, connExecuted, connTrouble>>

(* Mutant: the connection that failed stays open in the cache. *)
FailsKeepingConnection ==
  /\ connUsed' = IF connReused THEN Unconnected ELSE Nothing
  /\ connStep' = IF connReused THEN "send" ELSE "failed"
  /\ connReused' = FALSE
  /\ UNCHANGED <<connHeld, connCached>>

(* The except clause of the first try: the connection is closed and dropped;  *)
(* a fresh one has failed for good, a reused one is replaced and tried again. *)
Fails ==
  /\ connHeld' = connHeld \ {connUsed}
  /\ connCached' = Nothing
  /\ connUsed' = IF connReused THEN Unconnected ELSE Nothing
  /\ connStep' = IF connReused THEN "send" ELSE "failed"
  /\ connReused' = FALSE

(* Connecting is refused or times out. *)
ConnectFails ==
  /\ connStep = "send" /\ connUsed = Unconnected
  /\ Fails /\ Troubled
  /\ UNCHANGED <<connCall, connAttempt, connPeer, connInbox, connAnswers, connResult,
                 connExecuted>>

(* No answer is there and none can come: reset, or a closed peer noticed only now. *)
ReadBreaks ==
  /\ connStep = "read" /\ connUsed \notin connPeer /\ connAnswers[connUsed] = << >>
  /\ Fails
  /\ UNCHANGED <<connCall, connAttempt, connPeer, connInbox, connAnswers, connResult,
                 connExecuted, connTrouble>>

(* The socket's timeout: the answer is late, or will never come. *)
ReadTimesOut ==
  /\ connStep = "read" /\ connAnswers[connUsed] = << >>
  /\ Fails /\ Troubled
  /\ UNCHANGED <<connCall, connAttempt, connPeer, connInbox, connAnswers, connResult,
                 connExecuted>>

(* The answer arrives and the connection goes (back) into the cache.  With     *)
(* "Connection: close" http.client drops the socket of the object that stays.  *)
(* A retryable status is an answer of the attempt, and the loop may go round.  *)
Read ==
  /\ connStep = "read" /\ connAnswers[connUsed] # << >>
  /\ connAnswers' = [connAnswers EXCEPT ![connUsed] = Tail(@)]
  /\ connResult' = [connResult EXCEPT ![connCall] = Head(connAnswers[connUsed])]
  /\ \/ connCached' = connUsed /\ UNCHANGED connHeld
     \/ connCached' = Unconnected /\ connHeld' = connHeld \ {connUsed}
  /\ connUsed' = Nothing /\ connReused' = FALSE
  /\ \/ connStep' = "idle" /\ UNCHANGED connAttempt
     \/ /\ connAttempt < AttemptsPerCall
        /\ connAttempt' = connAttempt + 1 /\ connStep' = "attempt"
  /\ UNCHANGED <<connCall, connPeer, connInbox, connExecuted, connTrouble>>

(* DriverError: the next attempt, or the end of the call. *)
Retry ==
  /\ connStep = "failed" /\ connAttempt < AttemptsPerCall
  /\ connAttempt' = connAttempt + 1 /\ connStep' = "attempt"
  /\ UNCHANGED <<connCall, connCached, connUsed, connReused, wireVars, connResult,
                 connExecuted, connTrouble>>

GiveUp ==
  /\ connStep = "failed" /\ connAttempt = AttemptsPerCall
  /\ connResult' = [connResult EXCEPT ![connCall] = Failed]
  /\ connStep' = "idle"
  /\ UNCHANGED <<connCall, connAttempt, connCached, connUsed, connReused, wireVars,
                 connExecuted, connTrouble>>

(* close(): this thread's connections are closed and the cache is cleared. *)
CloseDriver ==
  /\ connStep = "idle" /\ connCached # Nothing
  /\ connHeld' = connHeld \ {connCached} /\ connCached' = Nothing
  /\ UNCHANGED <<connStep, connCall, connAttempt, connUsed, connReused, connPeer, connInbox,
                 connAnswers, connResult, connExecuted, connTrouble>>

---------------------------------------------------------------------------
(* The target. *)

(* A request is executed; its answer is sent, unless the connection drops.    *)
(* The target also executes what a client that has gone had sent.             *)
Execute(s) ==
  /\ connInbox[s] # Nothing
  /\ connInbox' = [connInbox EXCEPT ![s] = Nothing]
  /\ connExecuted' = [connExecuted EXCEPT ![connInbox[s].call] = @ + 1]
  /\ \/ /\ s \in connHeld
        /\ connAnswers' = [connAnswers EXCEPT ![s] = Append(@, connInbox[s])]
        /\ UNCHANGED <<connPeer, connTrouble>>
     \/ /\ connPeer' = connPeer \ {s}
        /\ connTrouble' = connTrouble \cup {connInbox[s].call}
        /\ UNCHANGED connAnswers
  /\ UNCHANGED <<connStep, connCall, connAttempt, connCached, connUsed, connReused, connHeld,
                 connResult>>

(* A connection ends with its request unexecuted. *)
Drop(s) ==
  /\ s \in connPeer /\ connInbox[s] # Nothing
  /\ connPeer' = connPeer \ {s}
  /\ connInbox' = [connInbox EXCEPT ![s] = Nothing]
  /\ connTrouble' = connTrouble \cup {connInbox[s].call}
  /\ UNCHANGED <<connStep, connCall, connAttempt, connCached, connUsed, connReused, connHeld,
                 connAnswers, connResult, connExecuted>>

(* An idle keep-alive connection is closed by the target. *)
CloseIdle(s) ==
  /\ s \in connPeer /\ connInbox[s] = Nothing
  /\ connPeer' = connPeer \ {s}
  /\ UNCHANGED <<connStep, connCall, connAttempt, connCached, connUsed, connReused, connHeld,
                 connInbox, connAnswers, connResult, connExecuted, connTrouble>>

(* The thread has made its calls. *)
Done == connStep = "idle" /\ connCall = MaxCalls /\ UNCHANGED connVars

Next ==
  \/ Done \/ Call \/ TakeConnection \/ ConnectAndSend \/ Send
  \/ ConnectFails \/ ReadBreaks \/ ReadTimesOut \/ Read
  \/ Retry \/ GiveUp \/ CloseDriver
  \/ \E s \in Sockets : Execute(s) \/ Drop(s) \/ CloseIdle(s)

Spec == Init /\ [][Next]_connVars

---------------------------------------------------------------------------
(* An answer is the one of the call it is returned to, also when an earlier   *)
(* call gave up on a connection whose answer came later, and of its last      *)
(* attempt.                                                                   *)
AnswerIsForTheCall ==
  \A c \in Calls :
    connResult[c] \notin {None, Failed} =>
      /\ connResult[c].call = c
      /\ (c < connCall \/ connStep = "idle") => connExecuted[c] >= 1

(* A connection the target closed while it was idle is not the caller's       *)
(* concern: a call fails only if it met a refusal, a timeout or a drop, and   *)
(* one that met none was executed exactly once per answer.                    *)
StaleIsInvisible ==
  \A c \in Calls \ connTrouble :
    /\ connResult[c] # Failed
    /\ c < connCall \/ (c = connCall /\ connStep = "idle") =>
         connExecuted[c] = connResult[c].attempt

(* Every connection that is neither cached nor in use has been closed: a      *)
(* thread holds one connection to a target, whatever failed before.           *)
NoConnectionLeaks == connHeld \subseteq {connCached, connUsed}

(* What one thread's cached connections promise to the call that uses them.   *)
ConnectionsAreHonest == AnswerIsForTheCall /\ StaleIsInvisible /\ NoConnectionLeaks

============================================================================
