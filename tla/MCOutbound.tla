---------------------------- MODULE MCOutbound -----------------------------
(* What a server sends over the network: the calls of the network driver,    *)
(* with the breaker its threads share (extended) and the connections each    *)
(* thread keeps, and the streams of its outbox (both instantiated).  The     *)
(* three have no state in common, so a behaviour is one of them, chosen at   *)
(* the start.                                                                *)
EXTENDS Breaker, Sequences

CONSTANTS Sockets, MaxCalls, AttemptsPerCall, Unconnected, Nothing,
          Writers, MaxSeq, MaxBreaks

VARIABLES which,
          connStep, connCall, connAttempt, connCached, connUsed, connReused, connHeld,
          connPeer, connInbox, connAnswers, connResult, connExecuted, connTrouble,
          rows, ours, pending, open, after, fetched, wire, got, breaks

Conn == INSTANCE ConnectionCache

connectionVars == <<connStep, connCall, connAttempt, connCached, connUsed, connReused, connHeld,
                    connPeer, connInbox, connAnswers, connResult, connExecuted, connTrouble>>

Tailing == INSTANCE OutboxTail

tailVars == <<rows, ours, pending, open, after, fetched, wire, got, breaks>>

ASSUME OutboundAssumption == Conn!ConnectionAssumption /\ Tailing!TailAssumption

MCInit ==
    /\ Init /\ Conn!Init /\ Tailing!Init
    /\ \/ which = "breaker"
       \/ which \in {"connections", "tail"} /\ current = "first" /\ healthy

BreakerNext == which = "breaker" /\ Next /\ UNCHANGED <<which, connectionVars, tailVars>>
ConnectionNext == which = "connections" /\ Conn!Next /\ UNCHANGED <<which, vars, tailVars>>
TailNext == which = "tail" /\ Tailing!Next /\ UNCHANGED <<which, vars, connectionVars>>

MCNext == BreakerNext \/ ConnectionNext \/ TailNext

(* Breaker!Fairness and OutboxTail!FairSpec, each where it runs.             *)
MCFairness ==
    /\ WF_vars(which = "breaker" /\ Tick)
    /\ \A t \in Threads :
          /\ WF_vars(which = "breaker" /\ (Call(t) \/ LooksUpNothing(t) \/ Register(t)))
          /\ SF_vars(which = "breaker" /\ AttemptSucceeds(t))
    /\ WF_tailVars(which = "tail" /\ Tailing!Subscribe)
    /\ WF_tailVars(which = "tail" /\ Tailing!ReadOutbox)
    /\ WF_tailVars(which = "tail" /\ Tailing!YieldFrame)
    /\ WF_tailVars(which = "tail" /\ Tailing!Receive)

MCSpec == MCInit /\ [][MCNext]_<<which, vars, connectionVars, tailVars>> /\ MCFairness

(* ConnectionCache: an answer is the call's own, a connection closed while    *)
(* idle is not the caller's concern, and none is lost.                       *)
ConnectionsAreHonest == Conn!ConnectionsAreHonest

(* OutboxTail: the stream is the event's part of the outbox, and all of it.  *)
TailExact == Tailing!TailExact
TailComplete == Tailing!TailComplete
============================================================================
