--------------------------- MODULE MCDesktopDelivery ---------------------------
(* A policy that allows everything and one that narrows it three ways: no  *)
(* start notices, less of the result and nothing of the task.              *)
EXTENDS DesktopDelivery

P(allowed, content, task) ==
    [allowed |-> allowed, content |-> content, task_input |-> task]

MCDefault  == P({"started", "ended"}, 1, TRUE)
MCPolicies == { MCDefault, P({"ended"}, 0, FALSE) }
=============================================================================
