-------------------------- MODULE DeliveryLifecycle --------------------------
(***************************************************************************)
(* What the relay promises about the life of one notification, without     *)
(* processes, claims, retries or time: the state machine DeliveryStatus of *)
(* crates/relay-domain, plus staging, retention and the fact that a        *)
(* message is accepted only if the provider took it.                       *)
(***************************************************************************)
CONSTANT RowIds

VARIABLES status, delivered

vars == <<status, delivered>>

is_terminal(s) ==
    s \in {"provider_accepted", "expired", "cancelled", "dead_letter"}

(* The transition table of the domain crate.                               *)
can_transition_to(s, next) ==
    IF is_terminal(s) THEN next = s
    ELSE \/ /\ s = "pending_channel"
            /\ next \in {"sending_channel", "blocked_activation",
                         "blocked_reconnect", "expired", "cancelled"}
         \/ /\ s = "sending_channel"
            /\ next \in {"provider_accepted", "retry_wait",
                         "blocked_activation", "blocked_reconnect",
                         "expired", "dead_letter"}
         \/ /\ s \in {"retry_wait", "blocked_activation",
                      "blocked_reconnect"}
            /\ next \in {"sending_channel", "expired", "cancelled",
                         "dead_letter"}

(* The table does not know how a blocked row is released: unblock_at sends *)
(* it back to retry_wait.                                                  *)
Released(s, next) ==
    s \in {"blocked_activation", "blocked_reconnect"} /\ next = "retry_wait"

Staged(s, next) == s = "absent" /\ next = "pending_channel"

Removed(s, next) == is_terminal(s) /\ next = "deleted"

Init ==
    /\ status = [r \in RowIds |-> "absent"]
    /\ delivered = {}

(* One statement may move any number of rows.                              *)
Move ==
    /\ DOMAIN status' = RowIds
    /\ \A r \in RowIds :
         \/ status'[r] = status[r]
         \/ can_transition_to(status[r], status'[r])
         \/ Released(status[r], status'[r])
         \/ Staged(status[r], status'[r])
         \/ Removed(status[r], status'[r])
    /\ \A r \in RowIds : status'[r] = "provider_accepted" => r \in delivered
    /\ UNCHANGED delivered

(* The provider takes a message that was staged.                           *)
Deliver(r) ==
    /\ status[r] # "absent"
    /\ delivered' = delivered \cup {r}
    /\ UNCHANGED status

Next == Move \/ \E r \in RowIds : Deliver(r)

Spec == Init /\ [][Next]_vars
=============================================================================
