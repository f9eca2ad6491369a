--------------------------- MODULE MCInboundCommands ---------------------------
EXTENDS InboundCommands

CONSTANTS w1, w2

(* A prompt and two tries at its code; a prompt that is confirmed while    *)
(* the process or the cursor is lost, or with two overlapping processes;   *)
(* one that is withdrawn; one that somebody else confirms; a query.        *)
Msg(kind) == [kind |-> kind, from |-> "owner"]
Plan(msgs, procs, n) == [msgs |-> msgs, procs |-> procs, faults |-> n]
MCPlans ==
    {Plan(<<Msg("start"), Msg("confirm"), Msg("confirm")>>, {w1}, 0),
     Plan(<<Msg("start"), Msg("confirm")>>, {w1}, 2),
     Plan(<<Msg("start"), Msg("confirm")>>, {w1, w2}, 0),
     Plan(<<Msg("start"), Msg("cancel"), Msg("confirm")>>, {w1}, 0),
     Plan(<<Msg("start"), [kind |-> "confirm", from |-> "other"]>>, {w1}, 0),
     Plan(<<Msg("query")>>, {w1, w2}, 1)}
================================================================================
