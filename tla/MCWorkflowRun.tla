--------------------------- MODULE MCWorkflowRun ---------------------------
(* Programs to check WorkflowRun on.                                        *)
EXTENDS WorkflowRun

(* Every effect kind; what the row is before the run decides which of the  *)
(* guarded `create` and the rest can succeed.                               *)
Order == <<"create", "read", "set", "call", "set", "emit", "reject">>
Take == <<"read", "set">>
=============================================================================
