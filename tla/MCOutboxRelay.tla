--------------------------- MODULE MCOutboxRelay ---------------------------
(* A small instance of OutboxRelay for TLC: two relays over three rows.      *)
EXTENDS OutboxRelay

CONSTANTS p1, p2

Start(ones, lost, n, short) ==
    [once |-> ones, unroutable |-> lost, faults |-> n, expiring |-> short]

(* Relays that run on, with faults; one that runs on beside one with --once, *)
(* before rows nobody can route that fill a batch; a drained backlog, where  *)
(* nothing fails, with and without rows that cannot be routed.               *)
MCScenarios ==
    {Start({}, {1}, 1, {2}),
     Start({p1}, {1}, 0, {2}), Start({p1}, {1, 2}, 1, {3}),
     Start({p1, p2}, {}, 0, {2}), Start({p1, p2}, {1}, 0, {2, 3}),
     Start({p1, p2}, {2}, 0, {1, 3})}

(* One relay that runs on, and one delivery that may get no response.        *)
OneLostAnswer == {Start({}, {}, 1, {})}
=============================================================================
